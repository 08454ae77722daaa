SPECIFICATION Spec
CONSTANTS
  Certificate <- MCCertificate
  Issuer <- MCIssuer
  CA = {"rootI", "caI", "rootO", "caO"}
  Manufacturer = {"rootI"}
  Revoked = {"revI"}
  ValidAt <- MCIssuedLater
  MaxDepth = 3
  NoCertificate = NoCertificate
  Malformed = Malformed
  Component = {1, 2}
  Extensions <- MCExtensions
  TcbInfos <- MCTcbInfos
  QeIdentities <- MCQeIdentities
  QeReports <- MCQeReports
  Messages <- MCMessages
  Missing = Missing
  RsaKeys = {"aks", "aci", "own"}
  DidOf <- MCDidOf
  Platforms = {"sgx", "snp", "aci"}
  Stacks <- MCStacks
  RootCAs = {"rootI", "rootO", "caI", "pckI"}
  Crls = {"rootI", "caI", Malformed}
  PckCertificates = {"pckI", "oldI", "revI", "pckO"}
  Measurements = {"m1", "m2"}
INVARIANT SomeParameterCounts
