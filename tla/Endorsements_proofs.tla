------------------------ MODULE Endorsements_proofs ------------------------
(***************************************************************************)
(* Proofs about Endorsements, for all platforms, options, root             *)
(* certificates and download results.                                      *)
(***************************************************************************)
EXTENDS Endorsements, TLAPS

\* What ties the list of answers to the decision prepare_endorsements took:
\* until verify runs, the requests are the wanted ones and the answers answer
\* them one by one.
Tied ==
    /\ att \in Attestation /\ opts \in Options
    /\ phase \in {"start", "download", "verify", "done"}
    /\ phase # "done" => outcome = "none"
    /\ phase = "start" => responses = <<>>
    /\ phase = "download" => requests = Wanted
    /\ phase = "verify" /\ via = "prepared" =>
         /\ Len(responses) = Len(Wanted)
         /\ \A i \in 1 .. Len(Wanted) :
              responses[i].src = "answer" /\ responses[i].of = Wanted[i]

\* The two properties together with what they follow from.
FreshInv == Tied /\ FreshIsHonoured /\ AnswersPresent

\* The list of wanted downloads, case by case.
LEMMA WantedCases ==
    ASSUME ~CustomRoot
    PROVE  /\ SGX /\ ~opts.partial /\ Download =>
                Wanted = <<"root", "root_crl", "tcb_info", "pck_crl", "qe_identity">>
           /\ SGX /\ ~opts.partial /\ ~Download /\ opts.freshRoot =>
                Wanted = <<"root">>
           /\ ~SGX /\ Download /\ opts.cache => Wanted = <<"cached_chain", "crl">>
           /\ ~SGX /\ Download /\ ~opts.cache => Wanted = <<"vcek", "chain", "crl">>
           /\ ~SGX /\ ~Download /\ opts.freshRoot => Wanted = <<"chain">>
BY DEF Wanted, SGXRequests, SNPRequests, RootRequest, DownloadCollateral,
       DownloadEndorsements

\* The answers sev_snp's verify dereferences were requested.
LEMMA NeverUndefined ==
    ASSUME ~CustomRoot => Len(responses) = Len(Wanted)
    PROVE  ~Undefined
<1> SUFFICES ASSUME ~SGX, ~Download, opts.freshRoot, ~CustomRoot, responses = <<>>
             PROVE  FALSE
  BY DEF Undefined, SNPDereferencesNothing
<1>1. Wanted = <<"chain">>
  BY WantedCases
<1>2. Len(<<"chain">>) = 1 /\ Len(responses) = 0
  OBVIOUS
<1> QED BY <1>1, <1>2

\* SGX: when all collateral is wanted, every part of it is taken from an answer,
\* the root certificate included; when only the root is, the root is. Unless
\* that answer is empty, it is the anchor.
LEMMA SGXFresh ==
    ASSUME SGX, ~opts.partial, ~CustomRoot,
           Len(responses) = Len(Wanted),
           \A i \in 1 .. Len(Wanted) : responses[i].src = "answer",
           Download \/ opts.freshRoot
    PROVE  /\ Download => \A f \in Fields : Material[f].src # "embedded"
           /\ ~EmptyRoot("root", Material["root"]) => AnchorOf(Material).src = "answer"
<1>1. CASE Download
  <2>1. /\ Wanted = <<"root", "root_crl", "tcb_info", "pck_crl", "qe_identity">>
        /\ Len(responses) = 5 /\ responses # <<>>
        /\ \A i \in 1 .. 5 : responses[i].src = "answer"
    BY <1>1, WantedCases
  <2>2. Taken = <<"root", "root_crl", "tcb_info", "pck_crl", "qe_identity">>
    BY <2>1 DEF Taken, Positions
  <2>3. Material = ConsumeUrlResponses
    BY <2>1 DEF Material, SGXMaterial
  <2>4. \A f \in {"root", "root_crl", "tcb_info", "pck_crl", "qe_identity"} :
            \E i \in 1 .. 5 : Material[f] = responses[i]
    <3> SUFFICES ASSUME NEW f \in {"root", "root_crl", "tcb_info", "pck_crl",
                                   "qe_identity"}
                 PROVE  \E i \in 1 .. 5 : Material[f] = responses[i]
      OBVIOUS
    <3>1. Len(Taken) = 5 /\ f \in Fields
      BY <2>2 DEF Fields
    <3>2. \E i \in 1 .. 5 : Taken[i] = f
      <4>1. /\ Taken[1] = "root" /\ Taken[2] = "root_crl" /\ Taken[3] = "tcb_info"
            /\ Taken[4] = "pck_crl" /\ Taken[5] = "qe_identity"
        BY <2>2
      <4>2. 1 \in 1 .. 5 /\ 2 \in 1 .. 5 /\ 3 \in 1 .. 5 /\ 4 \in 1 .. 5 /\ 5 \in 1 .. 5
        OBVIOUS
      <4> QED BY <4>1, <4>2, Zenon
    <3> DEFINE k == CHOOSE i \in 1 .. Len(Taken) : Taken[i] = f
    <3>3. k \in 1 .. 5
      BY <3>1, <3>2
    <3>4. Material[f] = responses[k]
      BY <2>3, <3>1, <3>2 DEF ConsumeUrlResponses
    <3> QED BY <3>3, <3>4
  <2>5. \A f \in Fields \ {"root", "root_crl", "tcb_info", "pck_crl", "qe_identity"} :
            Material[f] = EmbeddedCollateral[f]
    BY <2>2, <2>3 DEF ConsumeUrlResponses
  <2>6. \A f \in Fields : Material[f].src # "embedded"
    <3> SUFFICES ASSUME NEW f \in Fields PROVE Material[f].src # "embedded"
      OBVIOUS
    <3>1. CASE f \in {"root", "root_crl", "tcb_info", "pck_crl", "qe_identity"}
      BY <3>1, <2>1, <2>4
    <3>2. CASE f \notin {"root", "root_crl", "tcb_info", "pck_crl", "qe_identity"}
      BY <3>2, <2>5 DEF EmbeddedCollateral, From, Absent
    <3> QED BY <3>1, <3>2
  <2>7. Material["root"].src = "answer" /\ Material["root"] # Absent
    BY <2>1, <2>4 DEF Absent, From
  <2> QED BY <2>6, <2>7 DEF AnchorOf, Given
<1>2. CASE ~Download
  <2>1. /\ Wanted = <<"root">>
        /\ Len(responses) = 1 /\ responses # <<>> /\ responses[1].src = "answer"
    BY <1>2, WantedCases
  <2>2. Taken = <<"root">>
    BY <2>1 DEF Taken, RootRequest
  <2>3. Material = ConsumeUrlResponses
    BY <2>1 DEF Material, SGXMaterial
  <2>4. Material["root"] = responses[1]
    BY <2>2, <2>3 DEF ConsumeUrlResponses, Fields
  <2>5. Material["root"] # Absent
    BY <2>1, <2>4 DEF Absent, From
  <2> QED BY <1>2, <2>1, <2>4, <2>5 DEF AnchorOf, Given
<1> QED BY <1>1, <1>2

\* SEV-SNP: likewise; the chain and its root come from the same answer.
LEMMA SNPFresh ==
    ASSUME ~SGX, ~CustomRoot,
           Len(responses) = Len(Wanted),
           \A i \in 1 .. Len(Wanted) : responses[i].src = "answer",
           Download \/ opts.freshRoot
    PROVE  /\ Download => \A f \in Fields : Material[f].src # "embedded"
           /\ AnchorOf(Material).src = "answer"
<1>1. CASE Download
  <2> DEFINE chain == IF opts.cache THEN 1 ELSE 2
  <2>1. /\ responses[1].src = "answer"
        /\ responses[chain].src = "answer"
        /\ responses[chain + 1].src = "answer"
    BY <1>1, WantedCases
  <2>2. Material = [Nothing EXCEPT
          !["vcek"] = responses[1], !["chain"] = responses[chain],
          !["root"] = responses[chain], !["crl"] = responses[chain + 1]]
    BY <1>1 DEF Material, SNPMaterial
  <2> HIDE DEF chain
  <2>3. /\ Material["root"] = responses[chain]
        /\ \A f \in Fields : \/ Material[f] = Absent
                             \/ Material[f].src = "answer"
    BY <2>1, <2>2 DEF Nothing, Fields
  <2>4. Material["root"] # Absent
    BY <2>1, <2>3 DEF Absent, From
  <2>5. \A f \in Fields : Material[f].src # "embedded"
    BY <2>3 DEF Absent, From
  <2> QED BY <2>1, <2>3, <2>4, <2>5 DEF AnchorOf, Given, EmptyRoot
<1>2. CASE ~Download
  <2>1. responses[1].src = "answer"
    BY <1>2, WantedCases
  <2>2. Material["root"] = responses[1]
    BY <1>2 DEF Material, SNPMaterial, Nothing, Fields
  <2>3. Material["root"] # Absent
    BY <2>1, <2>2 DEF Absent, From
  <2> QED BY <1>2, <2>1, <2>2, <2>3 DEF AnchorOf, Given, EmptyRoot
<1> QED BY <1>1, <1>2

\* The two properties and what ties the answers to the requests hold throughout.
LEMMA FreshInvHolds == Spec => []FreshInv
<1>1. Init => FreshInv
  BY DEF Init, FreshInv, Tied, FreshIsHonoured, FreshUsed, AnswersPresent
<1>2. FreshInv /\ [Next]_vars => FreshInv'
  <2> SUFFICES ASSUME FreshInv, [Next]_vars PROVE FreshInv'
    OBVIOUS
  <2> USE DEF FreshInv
  <2>1. CASE Prepare
    <3>0. /\ UNCHANGED <<att, opts, via, responses>>
          /\ phase = "start" /\ via = "prepared" /\ outcome = "none" /\ responses = <<>>
          /\ Wanted' = Wanted
      BY <2>1 DEF Prepare, Tied, Wanted, SGXRequests, SNPRequests, RootRequest,
                  DownloadCollateral, DownloadEndorsements, SGX, CustomRoot, Download
    <3>1. outcome' \in {"none", "rejected"} /\ phase' \in {"done", "verify", "download"}
      BY <2>1, <3>0 DEF Prepare
    <3>2. Tied'
      <4>1. phase' # "done" => outcome' = "none" /\ requests' = Wanted
        BY <2>1, <3>0 DEF Prepare
      <4>2. phase' = "verify" => Wanted = <<>>
        BY <2>1 DEF Prepare
      <4>3. Len(<<>>) = 0 /\ 1 .. 0 = {}
        OBVIOUS
      <4> QED BY <3>0, <3>1, <4>1, <4>2, <4>3 DEF Tied
    <3> QED BY <3>1, <3>2 DEF FreshIsHonoured, FreshUsed, AnswersPresent
  <2>2. CASE VerifyDirectly
    BY <2>2 DEF VerifyDirectly, Tied, FreshIsHonoured, AnswersPresent, FreshUsed
  <2>3. CASE Respond
    <3>1. /\ Wanted' = Wanted /\ requests = Wanted
          /\ phase' = "verify" /\ outcome' = "none"
          /\ UNCHANGED <<att, opts>>
      BY <2>3 DEF Respond, Tied, Wanted, SGXRequests, SNPRequests, RootRequest,
                  DownloadCollateral, DownloadEndorsements, SGX, CustomRoot, Download
    <3>2. Len(Wanted) \in Nat
      <4>1. /\ Len(<<>>) = 0 /\ Len(<<"chain">>) = 1 /\ Len(<<"root">>) = 1
            /\ Len(DownloadCollateral) \in Nat /\ Len(DownloadEndorsements) \in Nat
        BY DEF DownloadCollateral, DownloadEndorsements
      <4>2. Wanted \in {<<>>, <<"root">>, <<"chain">>, DownloadCollateral,
                         DownloadEndorsements}
        BY Zenon DEF Wanted, SGXRequests, SNPRequests, RootRequest
      <4> QED BY <4>1, <4>2
    <3>3. PICK q \in [1 .. Len(requests) -> Qualities] :
              responses' = [i \in 1 .. Len(requests) |-> Answer(requests[i], q[i])]
      BY <2>3 DEF Respond
    <3>4. /\ Len(responses') = Len(Wanted)
          /\ \A i \in 1 .. Len(Wanted) :
               responses'[i].src = "answer" /\ responses'[i].of = Wanted[i]
      BY <3>1, <3>2, <3>3 DEF Answer
    <3> QED BY <3>1, <3>4 DEF Tied, FreshIsHonoured, AnswersPresent, FreshUsed
  <2>4. CASE Verify
    <3>1. /\ UNCHANGED <<att, opts, via, responses>> /\ phase = "verify" /\ phase' = "done"
          /\ SGX' = SGX /\ CustomRoot' = CustomRoot /\ Download' = Download
          /\ EmptyRoot("root", material["root"])' = EmptyRoot("root", material'["root"])
      BY <2>4 DEF Verify, SGX, CustomRoot, Download, EmptyRoot
    <3>2. Tied'
      BY <3>1 DEF Tied
    <3>3. ASSUME via = "prepared" PROVE outcome' # "undefined"
      <4>1. ~Undefined
        BY <3>1, <3>3, NeverUndefined DEF Tied
      <4> QED BY <2>4, <4>1 DEF Verify
    <3>4. ASSUME via = "prepared", outcome' = "accepted", ~CustomRoot,
                 ~(SGX /\ opts.partial), Download \/ opts.freshRoot
          PROVE  /\ Download => \A f \in Fields : material'[f].src # "embedded"
                 /\ ~EmptyRoot("root", material'["root"]) => anchor'.src = "answer"
      <4>1. material' = Material /\ anchor' = AnchorOf(Material)
        BY <2>4, <3>4 DEF Verify
      <4>2. /\ Len(responses) = Len(Wanted)
            /\ \A i \in 1 .. Len(Wanted) : responses[i].src = "answer"
        BY <3>1, <3>4 DEF Tied
      <4>3. CASE SGX
        BY <3>4, <4>1, <4>2, <4>3, SGXFresh
      <4>4. CASE ~SGX
        BY <3>4, <4>1, <4>2, <4>4, SNPFresh
      <4> QED BY <4>3, <4>4
    <3> QED BY <3>1, <3>2, <3>3, <3>4 DEF FreshIsHonoured, FreshUsed, AnswersPresent
  <2>5. CASE UNCHANGED vars
    BY <2>5 DEF vars, Tied, FreshIsHonoured, FreshUsed, AnswersPresent, EmptyRoot, SGX, CustomRoot,
                Download, Wanted, SGXRequests, SNPRequests, RootRequest,
                DownloadCollateral, DownloadEndorsements
  <2> QED BY <2>1, <2>2, <2>3, <2>4, <2>5 DEF Next, Done
<1> QED BY <1>1, <1>2, PTL DEF Spec

\* Fresh endorsements and fresh roots are honoured on every platform and for all
\* options, any roots and any download results, except for an SGX root that is
\* answered without a body.
THEOREM FreshAlwaysHonoured == Spec => []FreshIsHonoured
<1>1. FreshInv => FreshIsHonoured
  BY DEF FreshInv
<1> QED BY <1>1, FreshInvHolds, PTL

\* verify never reads an answer that prepare_endorsements did not ask for: the
\* dereference in sev_snp's verify is safe after prepare_endorsements, for all
\* options, any roots and any download results.
THEOREM AnswersAlwaysPresent == Spec => []AnswersPresent
<1>1. FreshInv => AnswersPresent
  BY DEF FreshInv
<1> QED BY <1>1, FreshInvHolds, PTL

-----------------------------------------------------------------------------
(* The lists of requests and answers. *)

\* Every list of downloads that prepare_endorsements returns.
LEMMA WantedIsSeq == Wanted \in Seq(Kinds)
<1>1. Wanted \in {<<>>, <<"root">>, <<"chain">>, DownloadCollateral, DownloadEndorsements}
  BY Zenon DEF Wanted, SGXRequests, SNPRequests, RootRequest
<1>2. /\ <<>> \in Seq(Kinds) /\ <<"root">> \in Seq(Kinds) /\ <<"chain">> \in Seq(Kinds)
  BY DEF Kinds
<1>3. DownloadCollateral \in Seq(Kinds)
  <2>1. /\ <<"root_crl", "tcb_info", "pck_crl", "qe_identity">> \in Seq(Kinds)
        /\ <<"root", "root_crl", "tcb_info", "pck_crl", "qe_identity">> \in Seq(Kinds)
    BY DEF Kinds
  <2> QED BY <2>1, Zenon DEF DownloadCollateral
<1>4. DownloadEndorsements \in Seq(Kinds)
  <2>1. <<"cached_chain", "crl">> \in Seq(Kinds) /\ <<"vcek", "chain", "crl">> \in Seq(Kinds)
    BY DEF Kinds
  <2> QED BY <2>1, Zenon DEF DownloadEndorsements
<1> QED BY <1>1, <1>2, <1>3, <1>4

\* consume_url_responses reads only answers that are there.
LEMMA TakenFits ==
    ASSUME NEW S, responses \in Seq(S), responses # <<>>
    PROVE  Len(Taken) \in Nat /\ Len(Taken) <= Len(responses)
<1>1. Len(responses) \in Nat /\ Len(responses) > 0
  OBVIOUS
<1>2. CASE Len(responses) > 4
  <2>1. Len(Positions) \in {4, 5}
    BY DEF Positions
  <2>2. Taken = Positions
    BY <1>2 DEF Taken
  <2>3. Len(Taken) \in {4, 5}
    BY <2>1, <2>2, Zenon
  <2>4. \A m \in Nat, n \in {4, 5} : m > 4 => n \in Nat /\ n <= m
    OBVIOUS
  <2> QED BY <1>1, <1>2, <2>3, <2>4, Zenon
<1>3. CASE ~(Len(responses) > 4)
  <2>1. Len(RootRequest) \in {0, 1}
    BY DEF RootRequest
  <2>2. Taken = RootRequest
    BY <1>3 DEF Taken
  <2>3. Len(Taken) \in {0, 1}
    BY <2>1, <2>2, Zenon
  <2>4. \A m \in Nat, n \in {0, 1} : m > 0 => n \in Nat /\ n <= m
    OBVIOUS
  <2> QED BY <1>1, <2>3, <2>4, Zenon
<1> QED BY <1>2, <1>3

-----------------------------------------------------------------------------
(* The custom root certificate. *)

\* Until verify runs nothing is decided.
CustomInv ==
    /\ phase # "done" => outcome = "none"
    /\ CustomRootIsAnchor

\* SEV-SNP on its own endorsements: the custom root, and all that is accepted
\* below it.
LEMMA SNPEmbeddedCustom ==
    ASSUME ~SGX, ~Download, CustomRoot, Accepts(Material)
    PROVE  /\ AnchorOf(Material).src = "custom"
           /\ att.root = opts.root /\ att.eroot = opts.root
<1>1. Material["root"] = From("custom") /\ Material["vcek"] = From("embedded")
  BY DEF Material, SNPMaterial, Nothing, Fields
<1>2. AnchorOf(Material) = From("custom")
  BY <1>1 DEF AnchorOf, Given, EmptyRoot, From, Absent
<1>3. RootOf(From("custom")) = opts.root /\ RootOf(From("embedded")) = att.eroot
  BY DEF RootOf, From
<1>4. Given(Material, "vcek") /\ "vcek" \in Fields
  BY <1>1 DEF Given, EmptyRoot, From, Absent, Fields
<1>5. att.root = opts.root /\ RootOf(Material["vcek"]) = opts.root
  BY <1>1, <1>2, <1>3, <1>4 DEF Accepts
<1> QED BY <1>1, <1>2, <1>3, <1>5 DEF From

\* A SEV-SNP or ACI verification that rests on embedded endorsements is anchored
\* in the custom root certificate of the options if there is one, for any roots
\* and download results and by either way in.
THEOREM CustomRootAnchors == Spec => []CustomRootIsAnchor
<1>1. Init => CustomInv
  BY DEF Init, CustomInv, CustomRootIsAnchor
<1>2. CustomInv /\ [Next]_vars => CustomInv'
  <2> SUFFICES ASSUME CustomInv, [Next]_vars PROVE CustomInv'
    OBVIOUS
  <2> USE DEF CustomInv
  <2>1. CASE Prepare
    <3>1. /\ phase' # "done" => outcome' = "none"
          /\ outcome' # "accepted"
      BY <2>1 DEF Prepare
    <3> QED BY <3>1 DEF CustomRootIsAnchor
  <2>2. CASE VerifyDirectly
    BY <2>2 DEF VerifyDirectly, CustomRootIsAnchor
  <2>3. CASE Respond
    BY <2>3 DEF Respond, CustomRootIsAnchor
  <2>4. CASE Verify
    <3>1. /\ UNCHANGED <<att, opts>> /\ phase' = "done"
          /\ SGX' = SGX /\ CustomRoot' = CustomRoot /\ Download' = Download
      BY <2>4 DEF Verify, SGX, CustomRoot, Download
    <3>2. ASSUME outcome' = "accepted"
          PROVE  anchor' = AnchorOf(Material) /\ Accepts(Material)
      BY <2>4, <3>2 DEF Verify
    <3>3. CustomRootIsAnchor'
      BY <3>1, <3>2, SNPEmbeddedCustom DEF CustomRootIsAnchor
    <3> QED BY <3>1, <3>3
  <2>5. CASE UNCHANGED vars
    BY <2>5 DEF vars, CustomRootIsAnchor, SGX, CustomRoot, Download
  <2> QED BY <2>1, <2>2, <2>3, <2>4, <2>5 DEF Next, Done
<1>3. CustomInv => CustomRootIsAnchor
  BY DEF CustomInv
<1> QED BY <1>1, <1>2, <1>3, PTL DEF Spec

-----------------------------------------------------------------------------
(* The types. *)

\* There are no answers before the HTTP client has answered.
TypeInv == TypeOK /\ (phase \in {"start", "download"} => responses = <<>>)

\* What prepare_endorsements may find in an attestation or the options.
LEMMA FromIsItem ==
    ASSUME NEW src \in {"absent", "embedded", "evidence", "custom"}
    PROVE  From(src) \in Item
BY DEF From, Item

\* What SGX verification settles on: material of its fields, and no answer is
\* read that is not there.
LEMMA SGXMaterialType ==
    ASSUME responses \in Seq(Item)
    PROVE  SGXMaterial \in [Fields -> Item]
<1>1. From("evidence") \in Item /\ From("embedded") \in Item /\ Absent \in Item
  BY FromIsItem DEF Absent
<1>2. Nothing \in [Fields -> Item]
  BY <1>1 DEF Nothing
<1>3. EmbeddedCollateral \in [Fields -> Item]
  BY <1>1 DEF EmbeddedCollateral
<1>4. ASSUME responses # <<>> PROVE ConsumeUrlResponses \in [Fields -> Item]
  <2>1. Len(Taken) \in Nat /\ Len(Taken) <= Len(responses) /\ Len(responses) \in Nat
    BY <1>4, TakenFits
  <2>2. ASSUME NEW f \in Fields PROVE ConsumeUrlResponses[f] \in Item
    <3>1. CASE \E i \in 1 .. Len(Taken) : Taken[i] = f
      <4> DEFINE k == CHOOSE i \in 1 .. Len(Taken) : Taken[i] = f
      <4>1. k \in 1 .. Len(Taken)
        BY <3>1
      <4>2. ConsumeUrlResponses[f] = responses[k]
        BY <3>1 DEF ConsumeUrlResponses
      <4> HIDE DEF k
      <4>3. k \in 1 .. Len(responses)
        BY <2>1, <4>1
      <4> QED BY <4>2, <4>3
    <3>2. CASE ~(\E i \in 1 .. Len(Taken) : Taken[i] = f)
      BY <1>3, <3>2 DEF ConsumeUrlResponses
    <3> QED BY <3>1, <3>2
  <2>3. ConsumeUrlResponses = [f \in Fields |-> ConsumeUrlResponses[f]]
    BY DEF ConsumeUrlResponses
  <2> QED BY <2>2, <2>3
<1>5. [Nothing EXCEPT !["certification_data"] = From("evidence")] \in [Fields -> Item]
  BY <1>1, <1>2
<1> QED BY <1>3, <1>4, <1>5 DEF SGXMaterial

\* Likewise for SEV-SNP, whose size checks come first.
LEMMA SNPMaterialType ==
    ASSUME opts \in Options, responses \in Seq(Item), ~SNPThrows
    PROVE  SNPMaterial \in [Fields -> Item]
<1>1. From("embedded") \in Item /\ From("custom") \in Item /\ Absent \in Item
  BY FromIsItem DEF Absent
<1>2. Nothing \in [Fields -> Item]
  BY <1>1 DEF Nothing
<1>3. CASE Download
  <2>1. Len(responses) = IF opts.cache THEN 2 ELSE 3
    BY <1>3 DEF SNPThrows
  <2>2. \A i \in 1 .. Len(responses) : responses[i] \in Item
    OBVIOUS
  <2>3. PICK chain \in {1, 2} : chain = IF opts.cache THEN 1 ELSE 2
    OBVIOUS
  <2>4. responses[1] \in Item /\ responses[chain] \in Item /\ responses[chain + 1] \in Item
    BY <2>1, <2>2, <2>3
  <2>5. SNPMaterial = [Nothing EXCEPT
          !["vcek"] = responses[1], !["chain"] = responses[chain],
          !["root"] = responses[chain], !["crl"] = responses[chain + 1]]
    BY <1>3, <2>3 DEF SNPMaterial
  <2> QED BY <1>2, <2>4, <2>5
<1>4. CASE ~Download
  <2>1. ~CustomRoot /\ opts.freshRoot => responses[1] \in Item
    BY <1>4 DEF SNPThrows
  <2>2. PICK root \in Item : root = IF CustomRoot THEN From("custom")
                                    ELSE IF opts.freshRoot THEN responses[1] ELSE Absent
    BY <1>1, <2>1
  <2>3. SNPMaterial = [Nothing EXCEPT !["vcek"] = From("embedded"),
                                      !["chain"] = From("embedded"), !["root"] = root]
    BY <1>4, <2>2 DEF SNPMaterial
  <2> QED BY <1>1, <1>2, <2>3
<1> QED BY <1>3, <1>4

\* The anchor is one of the pieces of material.
LEMMA AnchorIsMaterial ==
    ASSUME NEW m
    PROVE  \E f \in Fields : AnchorOf(m) = m[f]
<1>1. {"root", "chain", "certification_data", "pck_crl"} \subseteq Fields
  BY DEF Fields
<1> QED BY <1>1 DEF AnchorOf

\* Every variable keeps its type: a list of answers is as long as the list of
\* requests, and verify takes only answers that are in the list, whatever the
\* platform, the options and the downloads.
THEOREM TypeCorrect == Spec => []TypeOK
<1>1. Init => TypeInv
  <2>1. Nothing \in [Fields -> Item] /\ Absent \in Item
    BY FromIsItem DEF Nothing, Absent
  <2> QED BY <2>1 DEF Init, TypeInv, TypeOK
<1>2. TypeInv /\ [Next]_vars => TypeInv'
  <2> SUFFICES ASSUME TypeInv, [Next]_vars PROVE TypeInv'
    OBVIOUS
  <2> USE DEF TypeInv
  <2>1. CASE Prepare
    <3>1. requests' \in Seq(Kinds) /\ phase' \in {"done", "verify", "download"}
      BY <2>1, WantedIsSeq DEF Prepare, TypeOK
    <3>2. outcome' \in {"none", "accepted", "rejected", "undefined"}
      BY <2>1 DEF Prepare, TypeOK
    <3>3. UNCHANGED <<att, opts, via, responses, material, anchor>> /\ responses = <<>>
      BY <2>1 DEF Prepare
    <3> QED BY <3>1, <3>2, <3>3 DEF TypeOK
  <2>2. CASE VerifyDirectly
    BY <2>2 DEF VerifyDirectly, TypeOK
  <2>3. CASE Respond
    <3>1. PICK q \in [1 .. Len(requests) -> Qualities] :
              responses' = [i \in 1 .. Len(requests) |-> Answer(requests[i], q[i])]
      BY <2>3 DEF Respond
    <3>2. requests \in Seq(Kinds) /\ Len(requests) \in Nat
      BY DEF TypeOK
    <3>3. ASSUME NEW i \in 1 .. Len(requests) PROVE Answer(requests[i], q[i]) \in Item
      <4>1. requests[i] \in Kinds
        BY <3>2
      <4>2. q[i] \in {"good", "empty", "junk", "failed"}
        BY <3>1, SubsetAssumption
      <4> QED BY <4>1, <4>2 DEF Answer, Item
    <3>4. responses' \in Seq(Item) /\ Len(responses') = Len(requests)
      BY <3>1, <3>2, <3>3
    <3>5. /\ UNCHANGED <<att, opts, via, requests, material, anchor, outcome>>
          /\ phase' = "verify"
      BY <2>3 DEF Respond
    <3> QED BY <3>4, <3>5 DEF TypeOK
  <2>4. CASE Verify
    <3>1. UNCHANGED <<att, opts, via, requests, responses>> /\ phase' = "done"
      BY <2>4 DEF Verify
    <3>2. outcome' \in {"none", "accepted", "rejected", "undefined"}
      BY <2>4 DEF Verify
    <3>3. opts \in Options /\ responses \in Seq(Item)
      BY DEF TypeOK
    <3>4. ASSUME ~Throws PROVE Material \in [Fields -> Item]
      BY <3>3, <3>4, SGXMaterialType, SNPMaterialType DEF Throws, Material
    <3>5. ASSUME ~Throws PROVE AnchorOf(Material) \in Item
      BY <3>4, <3>5, AnchorIsMaterial
    <3>6. material' \in [Fields -> Item] /\ anchor' \in Item
      BY <2>4, <3>4, <3>5 DEF Verify, TypeOK
    <3> QED BY <3>1, <3>2, <3>6 DEF TypeOK
  <2>5. CASE UNCHANGED vars
    BY <2>5 DEF vars, TypeOK
  <2> QED BY <2>1, <2>2, <2>3, <2>4, <2>5 DEF Next, Done
<1>3. TypeInv => TypeOK
  BY DEF TypeInv
<1> QED BY <1>1, <1>2, <1>3, PTL DEF Spec

-----------------------------------------------------------------------------
(* What was prepared is enough. *)

\* Material that nothing is wrong with.
Sound(m) == \A f \in Fields : m[f].src # "custom" /\ Parses(f, m[f])

\* The answers are those to the wanted downloads, and all of them are good.
GoodAnswers ==
    /\ Len(responses) = Len(Wanted)
    /\ \A i \in 1 .. Len(Wanted) :
         /\ responses[i].src = "answer" /\ responses[i].of = Wanted[i]
         /\ responses[i].quality = "good"

\* For a genuine attestation and without a custom root, every piece of material
\* is rooted in the manufacturer's certificate, so sound material is accepted.
LEMMA SoundIsAccepted ==
    ASSUME Genuine, Sound(Material)
    PROVE  Accepts(Material)
<1>1. ASSUME NEW f \in Fields PROVE RootOf(Material[f]) = Vendor
  BY <1>1 DEF Sound, Genuine, RootOf
<1>2. RootOf(AnchorOf(Material)) = Vendor
  BY <1>1, AnchorIsMaterial
<1>3. att.fault \notin {"signature"} \cup (IF SGX THEN {"format"} ELSE {})
                           \cup (IF att.platform = "aci" THEN {"uvm"} ELSE {})
  BY DEF Genuine
<1> QED BY <1>1, <1>2, <1>3 DEF Accepts, Sound, Genuine

\* Material out of the attestation can always be parsed.
LEMMA FromIsSound ==
    ASSUME NEW f, NEW src \in {"absent", "embedded", "evidence"}
    PROVE  From(src).src # "custom" /\ Parses(f, From(src))
BY DEF From, Parses

\* SGX: the collateral is taken from the positions at which it was requested.
LEMMA SGXEnough ==
    ASSUME opts \in Options, SGX, ~CustomRoot, GoodAnswers
    PROVE  ~SGXThrows /\ Sound(SGXMaterial)
<1>0. \A f \in Fields : /\ EmbeddedCollateral[f].src # "custom"
                        /\ Parses(f, EmbeddedCollateral[f])
  BY FromIsSound DEF EmbeddedCollateral, Absent
<1>1. CASE opts.partial
  <2>1. \A f \in Fields : SGXMaterial[f] \in {From("evidence"), Absent}
    BY <1>1 DEF SGXMaterial, Nothing
  <2> QED BY <1>1, <2>1, FromIsSound DEF SGXThrows, Sound, Absent
<1>2. CASE ~opts.partial /\ ~Download /\ ~opts.freshRoot
  <2>1. Wanted = <<>>
    BY <1>2 DEF Wanted, SGXRequests
  <2>2. responses = <<>>
    BY <2>1 DEF GoodAnswers
  <2>3. SGXMaterial = EmbeddedCollateral
    BY <1>2, <2>2 DEF SGXMaterial
  <2>4. ~SGXThrows
    BY <1>2, <2>2 DEF SGXThrows, Download
  <2> QED BY <1>0, <2>3, <2>4 DEF Sound
<1>3. CASE ~opts.partial /\ ~Download /\ opts.freshRoot
  <2>1. Wanted = <<"root">>
    BY <1>3, WantedCases
  <2>2. Len(responses) = 1 /\ responses[1].of = "root" /\ responses[1].quality = "good"
        /\ responses[1].src = "answer" /\ responses # <<>>
    <3>1. Len(<<"root">>) = 1 /\ <<"root">>[1] = "root" /\ Len(<<>>) = 0
      OBVIOUS
    <3>2. Len(responses) = 1
      BY <2>1, <3>1 DEF GoodAnswers
    <3>3. responses # <<>>
      BY <3>2
    <3>4. 1 \in 1 .. Len(Wanted) /\ Wanted[1] = "root"
      BY <2>1, <3>1
    <3> QED BY <3>2, <3>3, <3>4, Zenon DEF GoodAnswers
  <2>3. Taken = <<"root">> /\ ExpectedResponses = 1
    BY <1>3, <2>2 DEF Taken, RootRequest, ExpectedResponses
  <2>4. ~SGXThrows
    BY <2>2, <2>3 DEF SGXThrows, ConsumeThrows, Download
  <2>5. SGXMaterial = ConsumeUrlResponses
    BY <1>3, <2>2 DEF SGXMaterial
  <2>6. /\ SGXMaterial["root"] = responses[1]
        /\ \A f \in Fields \ {"root"} : SGXMaterial[f] = EmbeddedCollateral[f]
    BY <2>3, <2>5 DEF ConsumeUrlResponses, Fields
  <2>7. Parses("root", responses[1])
    BY <2>2 DEF Parses, KindsOf
  <2> QED BY <1>0, <2>2, <2>4, <2>6, <2>7 DEF Sound
<1>4. CASE ~opts.partial /\ Download
  <2>1. Wanted = <<"root", "root_crl", "tcb_info", "pck_crl", "qe_identity">>
    BY <1>4, WantedCases
  <2>2. /\ Len(responses) = 5 /\ responses # <<>>
        /\ \A i \in 1 .. 5 : /\ responses[i].src = "answer" /\ responses[i].of = Wanted[i]
                             /\ responses[i].quality = "good"
    BY <2>1 DEF GoodAnswers
  <2>3. Taken = Wanted /\ ExpectedResponses = 5
    BY <1>4, <2>1, <2>2 DEF Taken, Positions, ExpectedResponses
  <2>4. Len(Taken) = 5
    BY <2>1, <2>3
  <2>5. ~SGXThrows
    BY <2>2, <2>3, <2>4 DEF SGXThrows, ConsumeThrows
  <2>6. SGXMaterial = ConsumeUrlResponses
    BY <1>4, <2>2 DEF SGXMaterial
  <2>7. ASSUME NEW f \in Fields
        PROVE  SGXMaterial[f].src # "custom" /\ Parses(f, SGXMaterial[f])
    <3>1. CASE \E i \in 1 .. Len(Taken) : Taken[i] = f
      <4>1. PICK k \in 1 .. 5 : k = CHOOSE i \in 1 .. Len(Taken) : Taken[i] = f
        BY <2>4, <3>1
      <4>2. Taken[k] = f
        BY <3>1, <4>1
      <4>3. SGXMaterial[f] = responses[k]
        BY <2>6, <3>1, <4>1 DEF ConsumeUrlResponses
      <4> QED BY <2>2, <2>3, <4>2, <4>3 DEF Parses, KindsOf
    <3>2. CASE ~(\E i \in 1 .. Len(Taken) : Taken[i] = f)
      BY <1>0, <2>6, <3>2 DEF ConsumeUrlResponses
    <3> QED BY <3>1, <3>2
  <2> QED BY <2>5, <2>7 DEF Sound
<1> QED BY <1>1, <1>2, <1>3, <1>4

\* SEV-SNP: likewise, with or without a cache.
LEMMA SNPEnough ==
    ASSUME opts \in Options, ~SGX, ~CustomRoot, GoodAnswers
    PROVE  ~SNPThrows /\ Sound(SNPMaterial)
<1>1. CASE ~Download
  <2>1. opts.freshRoot => Wanted = <<"chain">>
    BY <1>1, WantedCases
  <2>2. opts.freshRoot => /\ Len(responses) = 1 /\ responses[1].src = "answer"
                          /\ responses[1].of = "chain" /\ responses[1].quality = "good"
    BY <2>1 DEF GoodAnswers
  <2>3. ~SNPThrows
    BY <1>1, <2>2 DEF SNPThrows
  <2>4. \A f \in Fields : \/ SNPMaterial[f] \in {From("embedded"), Absent}
                          \/ /\ f = "root" /\ opts.freshRoot
                             /\ SNPMaterial[f] = responses[1]
    BY <1>1 DEF SNPMaterial, Nothing
  <2>5. opts.freshRoot => Parses("root", responses[1]) /\ responses[1].src # "custom"
    BY <1>1, <2>2 DEF Parses, KindsOf
  <2> QED BY <2>3, <2>4, <2>5, FromIsSound DEF Sound, Absent
<1>2. CASE Download /\ opts.cache
  <2>1. Wanted = <<"cached_chain", "crl">>
    BY <1>2, WantedCases
  <2>2. /\ Len(responses) = 2
        /\ responses[1].src = "answer" /\ responses[2].src = "answer"
        /\ responses[1].of = "cached_chain" /\ responses[2].of = "crl"
        /\ \A i \in 1 .. 2 : responses[i].quality = "good"
    BY <2>1 DEF GoodAnswers
  <2>3. ~SNPThrows
    BY <1>2, <2>2 DEF SNPThrows
  <2>4. \A f \in Fields : \/ SNPMaterial[f] = Absent
                          \/ f # "crl" /\ SNPMaterial[f] = responses[1]
                          \/ f = "crl" /\ SNPMaterial[f] = responses[2]
    BY <1>2 DEF SNPMaterial, Nothing
  <2>5. ASSUME NEW f \in Fields
        PROVE  SNPMaterial[f].src # "custom" /\ Parses(f, SNPMaterial[f])
    <3>1. CASE SNPMaterial[f] = Absent
      BY <3>1, FromIsSound DEF Absent
    <3>2. CASE f # "crl" /\ SNPMaterial[f] = responses[1]
      BY <1>2, <2>2, <3>2 DEF Parses, KindsOf
    <3>3. CASE f = "crl" /\ SNPMaterial[f] = responses[2]
      BY <1>2, <2>2, <3>3 DEF Parses, KindsOf
    <3> QED BY <2>4, <3>1, <3>2, <3>3
  <2> QED BY <2>3, <2>5 DEF Sound
<1>3. CASE Download /\ ~opts.cache
  <2>1. Wanted = <<"vcek", "chain", "crl">>
    BY <1>3, WantedCases
  <2>2. /\ Len(responses) = 3
        /\ responses[1].src = "answer" /\ responses[2].src = "answer"
        /\ responses[3].src = "answer"
        /\ responses[1].of = "vcek" /\ responses[2].of = "chain" /\ responses[3].of = "crl"
        /\ \A i \in 1 .. 3 : responses[i].quality = "good"
    BY <2>1 DEF GoodAnswers
  <2>3. ~SNPThrows
    BY <1>3, <2>2 DEF SNPThrows
  <2>4. \A f \in Fields : \/ SNPMaterial[f] = Absent
                          \/ f = "vcek" /\ SNPMaterial[f] = responses[1]
                          \/ f \in {"chain", "root"} /\ SNPMaterial[f] = responses[2]
                          \/ f = "crl" /\ SNPMaterial[f] = responses[3]
    BY <1>3 DEF SNPMaterial, Nothing
  <2>5. ASSUME NEW f \in Fields
        PROVE  SNPMaterial[f].src # "custom" /\ Parses(f, SNPMaterial[f])
    <3>1. CASE SNPMaterial[f] = Absent
      BY <3>1, FromIsSound DEF Absent
    <3>2. CASE f = "vcek" /\ SNPMaterial[f] = responses[1]
      BY <1>3, <2>2, <3>2 DEF Parses, KindsOf
    <3>3. CASE f \in {"chain", "root"} /\ SNPMaterial[f] = responses[2]
      BY <1>3, <2>2, <3>3 DEF Parses, KindsOf
    <3>4. CASE f = "crl" /\ SNPMaterial[f] = responses[3]
      BY <1>3, <2>2, <3>4 DEF Parses, KindsOf
    <3> QED BY <2>4, <3>1, <3>2, <3>3, <3>4
  <2> QED BY <2>3, <2>5 DEF Sound
<1> QED BY <1>1, <1>2, <1>3

\* prepare_endorsements asks for what verify needs: for every platform, every
\* combination of options without a custom root and any roots, a genuine
\* attestation whose downloads all succeeded is accepted.
THEOREM PreparedAlwaysEnough == Spec => []PreparedIsEnough
<1>1. Init => PreparedIsEnough
  BY DEF Init, PreparedIsEnough
<1>2. FreshInv /\ PreparedIsEnough /\ [Next]_vars => PreparedIsEnough'
  <2> SUFFICES ASSUME FreshInv, PreparedIsEnough, [Next]_vars PROVE PreparedIsEnough'
    OBVIOUS
  <2>1. CASE Prepare
    BY <2>1 DEF Prepare, PrepareThrows, PreparedIsEnough, Genuine
  <2>2. CASE VerifyDirectly \/ Respond
    BY <2>2 DEF VerifyDirectly, Respond, PreparedIsEnough
  <2>3. CASE Verify
    <3>1. /\ UNCHANGED <<att, opts, via, requests, responses>> /\ phase = "verify"
          /\ Genuine' = Genuine /\ CustomRoot' = CustomRoot
      BY <2>3 DEF Verify, Genuine, CustomRoot
    <3>2. ASSUME via = "prepared", Genuine, ~CustomRoot,
                 \A i \in 1 .. Len(responses) : responses[i].quality = "good"
          PROVE  outcome' = "accepted"
      <4>1. GoodAnswers /\ opts \in Options
        BY <3>1, <3>2 DEF FreshInv, Tied, GoodAnswers
      <4>2. ~Throws /\ Sound(Material)
        BY <3>2, <4>1, SGXEnough, SNPEnough DEF Throws, Material
      <4>3. ~Undefined
        BY <4>1, NeverUndefined DEF GoodAnswers
      <4>4. Accepts(Material)
        BY <3>2, <4>2, SoundIsAccepted
      <4> QED BY <2>3, <4>2, <4>3, <4>4 DEF Verify
    <3> QED BY <3>1, <3>2 DEF PreparedIsEnough
  <2>4. CASE UNCHANGED vars
    BY <2>4 DEF vars, PreparedIsEnough, Genuine, CustomRoot
  <2> QED BY <2>1, <2>2, <2>3, <2>4 DEF Next, Done
<1> QED BY <1>1, <1>2, FreshInvHolds, PTL DEF Spec
=============================================================================
