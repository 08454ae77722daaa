--------------------------- MODULE MCVerification ---------------------------
(***************************************************************************)
(* Verification for TLC: the manufacturer's certificates and another       *)
(* vendor's, with an expired and a revoked leaf, stacks that are too       *)
(* small, incomplete or of the wrong vendor, and few levels and reports.   *)
(***************************************************************************)
EXTENDS Verification

MCCertificate ==
  {"rootI", "caI", "pckI", "sigI", "oldI", "revI", "rootO", "caO", "pckO", "sigO"}
MCIssuer ==
  [c \in MCCertificate |->
     IF c \in {"rootI", "caI", "sigI"} THEN "rootI"
     ELSE IF c \in {"pckI", "oldI", "revI"} THEN "caI"
     ELSE IF c \in {"rootO", "caO", "sigO"} THEN "rootO" ELSE "caO"]
MCValidAt == [c \in MCCertificate |-> IF c = "oldI" THEN {"then"} ELSE {"now", "then"}]
\* Leaves that were not issued yet at the other time.
MCIssuedLater ==
  [c \in MCCertificate |-> IF c \in {"pckI", "revI"} THEN {"now"} ELSE MCValidAt[c]]

Intel(leaf) == <<leaf, "caI", "rootI">>
Other(leaf) == <<leaf, "caO", "rootO">>
LeafStacks ==
  {Intel("pckI"), Intel("oldI"), Intel("revI"), Other("pckO"),
   <<"pckI", "caI">>, <<"pckI", "rootI">>, <<"pckI">>}
SignerStacks == {<<"sigI", "rootI">>, <<"sigO", "rootO">>}
MCStacks ==
  [p \in Purposes |->
     CASE p = "pck_crl_issuer" -> {<<"caI", "rootI">>, <<"caO", "rootO">>, <<"pckI", "caI">>,
                                   <<"rootI">>}
       [] p \in {"pck", "vcek"} -> LeafStacks
       [] OTHER -> SignerStacks]

Level(svn, pce, status) ==
  [comp_svn |-> [c \in {1, 2} |-> svn[c]], pce_svn |-> pce, status |-> status]
Ext(svn, pce) ==
  [size |-> 5, config_size |-> 0, fmspc |-> "f", comp_svn |-> [c \in {1, 2} |-> svn[c]],
   pce_svn |-> pce]
MCExtensions ==
  {Ext(<<2, 2>>, 10), Ext(<<2, 1>>, 300), [Ext(<<2, 2>>, 10) EXCEPT !.size = 7],
   [Ext(<<2, 2>>, 10) EXCEPT !.size = 7, !.config_size = 3, !.fmspc = "g"], Ext(<<256, 2>>, 10)}
Info(signer, levels) ==
  [version |-> 2, dated |-> TRUE, fmspc |-> "f", signer |-> signer, levels |-> levels]
TwoLevels == <<Level(<<2, 2>>, 10, "UpToDate"), Level(<<1, 1>>, 9, "OutOfDate")>>
MCTcbInfos ==
  {Info("sigI", TwoLevels), Info("sigO", TwoLevels),
   Info("sigI", <<Level(<<3, 2>>, 10, "UpToDate"), Level(<<2, 2>>, 266, ""), Level(<<2, 2>>, 10, "x")>>),
   Info("sigI", <<Level(<<3, 3>>, 11, "UpToDate")>>),
   [Info("sigI", TwoLevels) EXCEPT !.version = 3]}

Identity(signer, svns) ==
  [version |-> 2, dated |-> TRUE, signer |-> signer, mrsigner |-> "m", mask |-> {"debug", "b"},
   bits |-> {"b"}, levels |-> [i \in 1 .. Len(svns) |-> [isv_svn |-> svns[i], status |-> "s"]]]
MCQeIdentities ==
  {Identity("sigI", <<5, 3>>), Identity("sigO", <<5, 3>>), Identity("sigI", <<7>>),
   [Identity("sigI", <<5, 3>>) EXCEPT !.dated = FALSE]}
Report(svn, bits) == [isv_svn |-> svn, mrsigner |-> "m", bits |-> bits]
MCQeReports ==
  {Report(6, {"b", "c"}), Report(5, {"b"}), Report(6, {"b", "debug"}),
   [Report(6, {"b"}) EXCEPT !.mrsigner = "n"]}

MCDidOf == [k \in {"aks", "aci", "own", "ec"} |->
              IF k \in {"aks", "ec"} THEN "eku:1.2" ELSE IF k = "aci" THEN "eku:1.5" ELSE "eku:9"]
Message(key, feed) ==
  [wellformed |-> TRUE, signer |-> key, measurement |-> "m1", svn |-> <<49, 48>>,
   header |-> [alg |-> "PS384", content_type |-> "application/json", x5chain |-> <<key>>,
               iss |-> MCDidOf[key], feed |-> feed]]
Aks == Message("aks", "ContainerPlat-AMD-UVM")
MCMessages ==
  {Aks, Message("aci", "ConfAKS-AMD-UVM"), Message("own", "ConfAKS-AMD-UVM"),
   Message("aci", "ContainerPlat-AMD-UVM"), Message("ec", "ContainerPlat-AMD-UVM"),
   [Aks EXCEPT !.signer = "own"], [Aks EXCEPT !.svn = <<>>],
   [Aks EXCEPT !.svn = <<45, 49>>], [Aks EXCEPT !.svn = <<120>>], [Aks EXCEPT !.measurement = "m2"],
   [Aks EXCEPT !.wellformed = FALSE], [Aks EXCEPT !.header.x5chain = <<>>]}
  \cup {[Aks EXCEPT !.header[f] = Missing] : f \in {"alg", "content_type", "x5chain", "iss", "feed"}}
=============================================================================
