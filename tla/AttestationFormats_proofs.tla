---------------------- MODULE AttestationFormats_proofs ----------------------
(***************************************************************************)
(* Proofs about AttestationFormats: what verify sees of an attestation     *)
(* that was parsed, serialised, compressed and prepared in any order, for  *)
(* any number of certificates and any sizes of their encodings and of the  *)
(* custom claims.                                                          *)
(*                                                                         *)
(* The argument.  Until something is lost, the evidence in the object, in  *)
(* its serialised form and in the copy of oe::Attestation is the evidence  *)
(* that arrived, or that evidence compressed once; and all of these read   *)
(* the same.                                                               *)
(***************************************************************************)
EXTENDS AttestationFormats, TLAPS, SequenceTheorems

----------------------------------------------------------------------------
(***************************************************************************)
(* The invariant.                                                          *)
(***************************************************************************)
Quoted == arrived.evidence # Report

\* The evidence that arrived, compressed once.
Compacted(b) ==
  IF arrived.source = "openenclave" THEN CompressOE(arrived.evidence, NumCerts, b)
  ELSE CompressSGX(arrived.evidence, NumCerts, b)

Form(ev) ==
  \/ ev = arrived.evidence
  \/ Quoted /\ \E i \in DOMAIN compressed : ev = Compacted(compressed[i])

\* What goes from the wire to the object and back.
WireInv ==
  /\ wire.source \in {arrived.source, SourceOf(arrived.source)}
  /\ wire.endorsements =
       IF arrived.endorsements = <<>> THEN None
       ELSE Encoded(wire.evidence.form, arrived.endorsements)
  /\ parses = 0 => wire.uvm_endorsements = Received(arrived).uvm_endorsements

IsObject(a) ==
  a = [source |-> a.source, evidence |-> a.evidence, endorsements |-> a.endorsements,
       uvm_endorsements |-> a.uvm_endorsements]

ObjectInv ==
  att # None =>
    /\ IsObject(att)
    /\ att.source = SourceOf(arrived.source) /\ att.endorsements = arrived.endorsements
    /\ parses > 0
    /\ ~Damaged => att.uvm_endorsements = arrived.uvm_endorsements

EvidenceInv ==
  /\ ~Quoted => compressed = <<>>
  /\ ~Damaged => Form(wire.evidence.of) /\ (att # None => Form(att.evidence))

\* The copy was extracted from evidence that reads the same.
CacheInv ==
  cache # None =>
    /\ att # None /\ arrived.source = "openenclave" /\ ItemsParse(arrived.endorsements)
    /\ ~Damaged => \E ev : /\ Form(ev)
                           /\ cache = Extracted([evidence |-> ev,
                                                 endorsements |-> arrived.endorsements])

FormatInv == WireInv /\ ObjectInv /\ EvidenceInv /\ CacheInv /\ VerifiesOriginal

----------------------------------------------------------------------------
(***************************************************************************)
(* Sizes.                                                                  *)
(***************************************************************************)
LEMMA Constants ==
  /\ NumCerts \in Nat /\ NumCerts >= 1 /\ PemSize \in Nat /\ PemSize >= 1
  /\ DerSize \in Nat /\ DerSize >= 1 /\ ClaimSize \in Nat /\ ClaimSize >= 1
  /\ MaxSteps \in Nat /\ MaxSteps >= 1
  /\ HeaderSize \in Nat /\ HeaderSize >= 1 /\ HeaderSize <= ClaimSize
  /\ DerSize < PemSize /\ PemSize <= 2 * DerSize
BY FormatsAssumption

\* Multiplication, as far as the provers need to be told.
LEMMA Product ==
  ASSUME NEW m \in Nat, NEW n \in Nat, NEW s \in Nat, m <= n
  PROVE  m * s \in Nat /\ m * s <= n * s
<1>1. PICK d \in Nat : n = m + d
  <2>1. n - m \in Nat /\ n = m + (n - m)
    OBVIOUS
  <2> QED BY <2>1
<1>2. m * s \in Nat /\ d * s \in Nat /\ (m + d) * s = m * s + d * s
  OBVIOUS
<1> QED BY <1>1, <1>2

\* n certificates are shorter in DER than in PEM, by at most their size in DER.
LEMMA SizeFacts ==
  ASSUME NEW n \in 1 .. NumCerts
  PROVE  /\ n \in Nat /\ n * PemSize \in Nat /\ n * DerSize \in Nat
         /\ n * DerSize >= 1 /\ n * DerSize < n * PemSize
         /\ n * PemSize <= 2 * (n * DerSize)
         /\ n * DerSize <= NumCerts * DerSize /\ n * PemSize <= NumCerts * PemSize
         /\ NumCerts * PemSize \in Nat /\ NumCerts * DerSize \in Nat
         /\ NumCerts * DerSize < NumCerts * PemSize
         /\ n # NumCerts => n * PemSize # NumCerts * PemSize
         /\ n # NumCerts => n * DerSize # NumCerts * DerSize
<1>1. n \in Nat /\ n >= 1 /\ n <= NumCerts /\ NumCerts \in Nat
  BY Constants
<1>2. \A m \in Nat : m >= 1 => /\ m * DerSize \in Nat /\ m * PemSize \in Nat /\ m * DerSize >= 1
                               /\ m * DerSize < m * PemSize /\ m * PemSize <= 2 * (m * DerSize)
  <2> SUFFICES ASSUME NEW m \in Nat, m >= 1
               PROVE  /\ m * DerSize \in Nat /\ m * PemSize \in Nat /\ m * DerSize >= 1
                      /\ m * DerSize < m * PemSize /\ m * PemSize <= 2 * (m * DerSize)
    OBVIOUS
  <2>1. PICK d \in Nat : PemSize = DerSize + d /\ d >= 1 /\ d <= DerSize
    <3>1. PemSize - DerSize \in Nat /\ PemSize = DerSize + (PemSize - DerSize)
      BY Constants
    <3> QED BY <3>1, Constants
  <2>2. /\ m * DerSize \in Nat /\ m * d \in Nat /\ DerSize * m = m * DerSize /\ d * m = m * d
        /\ m * (DerSize + d) = m * DerSize + m * d
    BY Constants, <2>1
  <2>3. d * m <= DerSize * m /\ 1 * m <= d * m /\ 1 * m <= DerSize * m
    BY <2>1, Product, Constants
  <2> QED BY <2>1, <2>2, <2>3
<1>3. n * DerSize <= NumCerts * DerSize /\ n * PemSize <= NumCerts * PemSize
  BY <1>1, Constants, Product
<1>4. ASSUME n # NumCerts
      PROVE  n * PemSize # NumCerts * PemSize /\ n * DerSize # NumCerts * DerSize
  <2>1. n + 1 <= NumCerts
    BY <1>1, <1>4
  <2>2. (n + 1) * PemSize <= NumCerts * PemSize /\ (n + 1) * DerSize <= NumCerts * DerSize
    BY <1>1, <2>1, Constants, Product
  <2>3. (n + 1) * PemSize = n * PemSize + PemSize /\ (n + 1) * DerSize = n * DerSize + DerSize
    BY <1>1, Constants
  <2>4. n * PemSize \in Nat /\ n * DerSize \in Nat
    BY <1>1, <1>2
  <2>5. NumCerts * PemSize \in Nat /\ NumCerts * DerSize \in Nat
    BY <1>2, Constants
  <2> QED BY <2>2, <2>3, <2>4, <2>5, Constants
<1>5. /\ NumCerts * PemSize \in Nat /\ NumCerts * DerSize \in Nat
      /\ NumCerts * DerSize < NumCerts * PemSize
  BY <1>2, Constants
<1> QED BY <1>1, <1>2, <1>3, <1>4, <1>5

\* The encodings of n certificates are sequences, and tell n and the format.
LEMMA EncodingFacts ==
  ASSUME NEW n \in 1 .. NumCerts
  PROVE  /\ Pem(n) \in Seq(Cells) /\ Len(Pem(n)) = n * PemSize
         /\ Der(n) \in Seq(Cells) /\ Len(Der(n)) = n * DerSize
         /\ Pem(n)[1][1] = "pem" /\ Der(n)[1][1] = "der"
<1>1. /\ n * PemSize \in Nat /\ n * DerSize \in Nat /\ n * DerSize >= 1 /\ n * PemSize >= 1
      /\ n * DerSize <= NumCerts * DerSize /\ n * PemSize <= NumCerts * PemSize
      /\ NumCerts * PemSize \in Nat /\ NumCerts * DerSize \in Nat
  BY SizeFacts
<1>2. /\ DOMAIN Pem(n) = 1 .. n * PemSize /\ DOMAIN Der(n) = 1 .. n * DerSize
      /\ DOMAIN Pem(NumCerts) = 1 .. NumCerts * PemSize
      /\ DOMAIN Der(NumCerts) = 1 .. NumCerts * DerSize
  BY DEF Pem, Der, Encoding
<1>3. /\ \A i \in 1 .. n * PemSize : Pem(n)[i] = Pem(NumCerts)[i]
      /\ \A i \in 1 .. n * DerSize : Der(n)[i] = Der(NumCerts)[i]
  BY <1>1 DEF Pem, Der, Encoding
<1>4. /\ \A i \in 1 .. n * PemSize : Pem(n)[i] \in Cells
      /\ \A i \in 1 .. n * DerSize : Der(n)[i] \in Cells
  <2>1. 1 .. n * PemSize \subseteq DOMAIN Pem(NumCerts)
    BY <1>1, <1>2
  <2>2. 1 .. n * DerSize \subseteq DOMAIN Der(NumCerts)
    BY <1>1, <1>2
  <2>3. \A i \in DOMAIN Pem(NumCerts) : Pem(NumCerts)[i] \in Cells
    BY Zenon DEF Cells, Range
  <2>4. \A i \in DOMAIN Der(NumCerts) : Der(NumCerts)[i] \in Cells
    BY Zenon DEF Cells, Range
  <2>5. \A i \in 1 .. n * PemSize : Pem(n)[i] \in Cells
    BY <2>1, <2>3, <1>3, Zenon
  <2>6. \A i \in 1 .. n * DerSize : Der(n)[i] \in Cells
    BY <2>2, <2>4, <1>3, Zenon
  <2> QED BY <2>5, <2>6
<1>5. Pem(n) \in Seq(Cells) /\ Len(Pem(n)) = n * PemSize
  <2>1. Pem(n) = [i \in 1 .. n * PemSize |-> Pem(n)[i]]
    BY DEF Pem, Encoding
  <2> QED BY <1>1, <1>4, <2>1
<1>6. Der(n) \in Seq(Cells) /\ Len(Der(n)) = n * DerSize
  <2>1. Der(n) = [i \in 1 .. n * DerSize |-> Der(n)[i]]
    BY DEF Der, Encoding
  <2> QED BY <1>1, <1>4, <2>1
<1>7. Pem(n)[1][1] = "pem" /\ Der(n)[1][1] = "der"
  <2>1. 1 \in 1 .. n * PemSize /\ 1 \in 1 .. n * DerSize
    BY <1>1
  <2> QED BY <2>1 DEF Pem, Der, Encoding
<1> QED BY <1>5, <1>6, <1>7

----------------------------------------------------------------------------
(***************************************************************************)
(* Reading evidence.  Laid(ev, e) says that ev has the certification data  *)
(* e, with the sizes that fit it.                                          *)
(***************************************************************************)
Laid(ev, e) ==
  /\ ev.bytes \in Seq(Cells) /\ ev.cd_size = Len(e) /\ ev.signature_len = 1 + Len(e)
  /\ Len(ev.bytes) >= 2 + Len(e)
  /\ ev.bytes[1] = QuoteHead[1]
  /\ \A i \in 1 .. Len(e) : ev.bytes[2 + i] = e[i]

\* Evidence with all certificates, in PEM or in DER, is read as that.
LEMMA LaidIsRead ==
  ASSUME NEW ev, NEW e, e \in {Pem(NumCerts), Der(NumCerts)}, Laid(ev, e)
  PROVE  SignatureData(ev) = {NumCerts}
<1>0. NumCerts \in 1 .. NumCerts
  BY Constants
<1>1. e \in Seq(Cells) /\ Len(e) \in Nat /\ Len(e) >= 1
  BY <1>0, EncodingFacts, SizeFacts
<1>2. CertificationData(ev) = e
  <2>1. PICK k \in Int : k = 2 + ev.cd_size /\ k = 2 + Len(e)
    BY <1>1 DEF Laid
  <2>2. \A i \in 3 .. k : ev.bytes[i] \in Cells
    <3>1. ev.bytes \in Seq(Cells) /\ Len(ev.bytes) >= k
      BY <2>1 DEF Laid
    <3> QED BY <2>1, <3>1
  <2>3. PICK s : s = SubSeq(ev.bytes, 3, k)
    OBVIOUS
  <2>4. /\ s \in Seq(Cells) /\ Len(s) = Len(e)
        /\ \A i \in 1 .. Len(e) : s[i] = ev.bytes[3 + i - 1]
    BY <1>1, <2>1, <2>2, <2>3, SubSeqProperties
  <2>5. \A i \in 1 .. Len(e) : s[i] = e[i]
    BY <1>1, <2>4 DEF Laid
  <2>6. s = e
    BY <1>1, <2>4, <2>5
  <2> QED BY <2>1, <2>3, <2>6 DEF CertificationData
<1>3. /\ Len(ev.bytes) >= 1 + ev.signature_len /\ ev.bytes[1] = QuoteHead[1]
      /\ 2 + ev.cd_size <= Len(ev.bytes)
  BY <1>1 DEF Laid
<1>4. ASSUME NEW n \in 1 .. NumCerts, e \in {Pem(n), Der(n)} PROVE n = NumCerts
  <2>1. "pem" # "der"
    OBVIOUS
  <2>2. CASE e = Pem(NumCerts)
    <3>1. e # Der(n)
      BY <2>1, <2>2, <1>0, EncodingFacts
    <3>2. n * PemSize = NumCerts * PemSize
      BY <2>2, <3>1, <1>4, <1>0, EncodingFacts
    <3> QED BY <3>2, SizeFacts
  <2>3. CASE e = Der(NumCerts)
    <3>1. e # Pem(n)
      BY <2>1, <2>3, <1>0, EncodingFacts
    <3>2. n * DerSize = NumCerts * DerSize
      BY <2>3, <3>1, <1>4, <1>0, EncodingFacts
    <3> QED BY <3>2, SizeFacts
  <2> QED BY <2>2, <2>3
<1>5. NumCerts \in SignatureData(ev)
  BY <1>0, <1>2, <1>3 DEF SignatureData
<1>6. \A n \in SignatureData(ev) : n = NumCerts
  BY <1>2, <1>4 DEF SignatureData
<1> QED BY <1>5, <1>6

\* Concatenation.
LEMMA Concatenated ==
  ASSUME NEW s \in Seq(Cells), NEW t \in Seq(Cells)
  PROVE  /\ s \o t \in Seq(Cells) /\ Len(s \o t) = Len(s) + Len(t)
         /\ \A i \in 1 .. Len(s) : (s \o t)[i] = s[i]
         /\ \A i \in 1 .. Len(t) : (s \o t)[Len(s) + i] = t[i]
<1>1. s \o t \in Seq(Cells) /\ Len(s \o t) = Len(s) + Len(t)
  BY ConcatProperties
<1>2. \A i \in 1 .. Len(s) + Len(t) : (s \o t)[i] = IF i <= Len(s) THEN s[i] ELSE t[i - Len(s)]
  BY ConcatProperties
<1>3. Len(s) \in Nat /\ Len(t) \in Nat
  OBVIOUS
<1>4. \A i \in 1 .. Len(s) : (s \o t)[i] = s[i]
  BY <1>2, <1>3
<1>5. \A i \in 1 .. Len(t) : (s \o t)[Len(s) + i] = t[i]
  <2> SUFFICES ASSUME NEW i \in 1 .. Len(t) PROVE (s \o t)[Len(s) + i] = t[i]
    OBVIOUS
  <2>1. PICK j : j = Len(s) + i
    OBVIOUS
  <2>2. j \in 1 .. Len(s) + Len(t) /\ ~(j <= Len(s)) /\ j - Len(s) = i
    BY <1>3, <2>1
  <2> QED BY <1>2, <2>1, <2>2
<1> QED BY <1>1, <1>4, <1>5

\* A quote as it arrives.
LEMMA QuoteFacts ==
  ASSUME NEW c, c \in {<<>>, Claims}
  PROVE  /\ c \in Seq(Cells) /\ Len(c) \in Nat
         /\ Quote(c) \in Evidence
         /\ Laid(Quote(c), Pem(NumCerts))
         /\ Quote(c).cd_size = NumCerts * PemSize /\ Quote(c).signature_len = 1 + NumCerts * PemSize
         /\ Len(Quote(c).bytes) = 2 + NumCerts * PemSize + Len(c)
         /\ \A i \in 1 .. Len(c) : Quote(c).bytes[2 + NumCerts * PemSize + i] = c[i]
<1>0. NumCerts \in 1 .. NumCerts
  BY Constants
<1>1. PICK p \in Nat : p = NumCerts * PemSize
  BY <1>0, SizeFacts
<1>2. Pem(NumCerts) \in Seq(Cells) /\ Len(Pem(NumCerts)) = p
  BY <1>0, <1>1, EncodingFacts
<1>3. c \in Seq(Cells) /\ Len(c) \in Nat
  <2>1. CASE c = <<>>
    BY <2>1
  <2>2. CASE c = Claims
    <3>1. DOMAIN Claims = 1 .. ClaimSize /\ \A i \in 1 .. ClaimSize : Claims[i] \in Cells
      BY DEF Claims, Cells, Range
    <3>2. Claims = [i \in 1 .. ClaimSize |-> Claims[i]]
      BY DEF Claims
    <3> QED BY <2>2, <3>1, <3>2, Constants
  <2> QED BY <2>1, <2>2
<1>4. /\ QuoteHead \in Seq(Cells) /\ Len(QuoteHead) = 2
  BY DEF QuoteHead, Cells
<1>5. PICK b : b = QuoteHead \o Pem(NumCerts) \o c
  OBVIOUS
<1>6. /\ b \in Seq(Cells) /\ Len(b) = 2 + p + Len(c)
      /\ b[1] = QuoteHead[1]
      /\ \A i \in 1 .. p : b[2 + i] = Pem(NumCerts)[i]
      /\ \A i \in 1 .. Len(c) : b[2 + p + i] = c[i]
  <2>1. PICK h : h = QuoteHead \o Pem(NumCerts)
    OBVIOUS
  <2>2. /\ h \in Seq(Cells) /\ Len(h) = 2 + p /\ h[1] = QuoteHead[1]
        /\ \A i \in 1 .. p : h[2 + i] = Pem(NumCerts)[i]
    <3>1. /\ h \in Seq(Cells) /\ Len(h) = Len(QuoteHead) + Len(Pem(NumCerts))
          /\ \A i \in 1 .. Len(QuoteHead) : h[i] = QuoteHead[i]
          /\ \A i \in 1 .. Len(Pem(NumCerts)) : h[Len(QuoteHead) + i] = Pem(NumCerts)[i]
      BY <2>1, <1>2, <1>4, Concatenated
    <3>2. /\ Len(h) = 2 + p /\ \A i \in 1 .. 2 : h[i] = QuoteHead[i]
          /\ \A i \in 1 .. p : h[2 + i] = Pem(NumCerts)[i]
      BY <3>1, <1>2, <1>4
    <3>3. 1 \in 1 .. 2
      OBVIOUS
    <3> QED BY <3>1, <3>2, <3>3
  <2>3. b = h \o c
    BY <1>5, <2>1
  <2>4. b \in Seq(Cells) /\ Len(b) = 2 + p + Len(c)
    BY <2>2, <2>3, <1>3, Concatenated
  <2>5. \A i \in 1 .. 2 + p : b[i] = h[i]
    BY <2>2, <2>3, <1>3, Concatenated
  <2>6. \A i \in 1 .. Len(c) : b[2 + p + i] = c[i]
    BY <2>2, <2>3, <1>3, Concatenated
  <2> QED BY <2>2, <2>4, <2>5, <2>6
<1>7. Quote(c) = [signature_len |-> 1 + p, cd_size |-> p, bytes |-> b]
  BY <1>1, <1>5 DEF Quote
<1>8. Quote(c) \in Evidence
  BY <1>1, <1>6, <1>7 DEF Evidence
<1>9. Laid(Quote(c), Pem(NumCerts))
  BY <1>2, <1>3, <1>6, <1>7 DEF Laid
<1> QED BY <1>1, <1>3, <1>6, <1>7, <1>8, <1>9

----------------------------------------------------------------------------
(***************************************************************************)
(* Compression.                                                            *)
(***************************************************************************)

\* Evidence is a record of two sizes and cells.
LEMMA EvidenceFacts ==
  ASSUME NEW ev \in Evidence
  PROVE  /\ ev.signature_len \in Nat /\ ev.signature_len <= 1 + NumCerts * PemSize
         /\ ev.cd_size \in Nat /\ ev.cd_size <= NumCerts * PemSize
         /\ ev.bytes \in Seq(Cells) /\ Len(ev.bytes) \in Nat
         /\ ev = [signature_len |-> ev.signature_len, cd_size |-> ev.cd_size, bytes |-> ev.bytes]
<1>1. NumCerts * PemSize \in Nat
  BY SizeFacts, Constants
<1> QED BY <1>1 DEF Evidence

\* What SignatureData could read has room for the certificates in DER.
LEMMA ReadFacts ==
  ASSUME NEW ev \in Evidence, NEW n \in SignatureData(ev)
  PROVE  n \in 1 .. NumCerts /\ Len(ev.bytes) >= 2 + n * DerSize
<1>1. /\ n \in 1 .. NumCerts /\ 2 + ev.cd_size <= Len(ev.bytes)
      /\ CertificationData(ev) \in {Pem(n), Der(n)}
  BY DEF SignatureData
<1>2. n * DerSize < n * PemSize /\ n * DerSize \in Nat /\ n * DerSize >= 1 /\ n * PemSize \in Nat
  BY <1>1, SizeFacts
<1>3. Len(CertificationData(ev)) >= n * DerSize
  BY <1>1, <1>2, EncodingFacts
<1>4. Len(CertificationData(ev)) = ev.cd_size
  <2>1. PICK k \in Int : k = 2 + ev.cd_size
    BY EvidenceFacts
  <2>2. \A i \in 3 .. k : ev.bytes[i] \in Cells
    BY <1>1, <2>1, EvidenceFacts
  <2>3. Len(SubSeq(ev.bytes, 3, k)) = IF 3 <= k THEN k - 3 + 1 ELSE 0
    BY <2>1, <2>2, SubSeqProperties
  <2>4. Len(SubSeq(ev.bytes, 3, k)) = ev.cd_size
    BY <2>1, <2>3, EvidenceFacts
  <2> QED BY <2>1, <2>4 DEF CertificationData
<1> QED BY <1>1, <1>2, <1>3, <1>4, EvidenceFacts

LEMMA RewrittenFacts ==
  ASSUME NEW ev \in Evidence, NEW n \in SignatureData(ev)
  PROVE  /\ Rewritten(ev, n) \in Evidence
         /\ Rewritten(ev, n).cd_size = n * DerSize
         /\ Rewritten(ev, n).signature_len = ev.signature_len
         /\ Len(Rewritten(ev, n).bytes) = Len(ev.bytes)
         /\ \A i \in 1 .. Len(ev.bytes) :
              Rewritten(ev, n).bytes[i] = IF i \in 3 .. 2 + n * DerSize THEN Der(n)[i - 2]
                                          ELSE ev.bytes[i]
<1>1. n \in 1 .. NumCerts /\ Len(ev.bytes) >= 2 + n * DerSize
  BY ReadFacts
<1>2. PICK d \in Nat : d = n * DerSize /\ d <= NumCerts * PemSize /\ NumCerts * PemSize \in Nat
  BY <1>1, SizeFacts
<1>3. Der(n) \in Seq(Cells) /\ Len(Der(n)) = d
  BY <1>1, <1>2, EncodingFacts
<1>4. PICK l \in Nat : l = Len(ev.bytes) /\ DOMAIN ev.bytes = 1 .. l
  BY EvidenceFacts
<1>5. PICK b : b = [i \in 1 .. l |-> IF i \in 3 .. 2 + d THEN Der(n)[i - 2] ELSE ev.bytes[i]]
  OBVIOUS
<1>6. /\ \A i \in 1 .. l : b[i] \in Cells
      /\ \A i \in 1 .. l : b[i] = IF i \in 3 .. 2 + d THEN Der(n)[i - 2] ELSE ev.bytes[i]
  <2> SUFFICES ASSUME NEW i \in 1 .. l PROVE b[i] \in Cells
    BY <1>5
  <2>1. CASE i \in 3 .. 2 + d
    <3>1. i - 2 \in 1 .. d
      BY <2>1, <1>2
    <3> QED BY <2>1, <3>1, <1>3, <1>5
  <2>2. CASE i \notin 3 .. 2 + d
    BY <2>2, <1>4, <1>5, EvidenceFacts
  <2> QED BY <2>1, <2>2
<1>7. b \in Seq(Cells) /\ Len(b) = l
  BY <1>5, <1>6
<1>8. Rewritten(ev, n) = [signature_len |-> ev.signature_len, cd_size |-> d, bytes |-> b]
  <2>1. Rewritten(ev, n) = [ev EXCEPT !.cd_size = d, !.bytes = b]
    BY <1>3, <1>4, <1>5 DEF Rewritten
  <2> QED BY <2>1, EvidenceFacts
<1>9. Rewritten(ev, n) \in Evidence
  BY <1>2, <1>7, <1>8, EvidenceFacts DEF Evidence
<1> QED BY <1>2, <1>4, <1>6, <1>7, <1>8, <1>9

LEMMA SavedFacts ==
  ASSUME NEW n \in 1 .. NumCerts
  PROVE  /\ Saved(n) \in Nat /\ Saved(n) = n * PemSize - n * DerSize
         /\ Saved(n) >= 1 /\ Saved(n) <= n * DerSize
<1>1. /\ n * PemSize \in Nat /\ n * DerSize \in Nat
      /\ n * DerSize < n * PemSize /\ n * PemSize <= 2 * (n * DerSize)
  BY SizeFacts
<1> QED BY <1>1 DEF Saved

LEMMA ShorterFacts ==
  ASSUME NEW ev \in Evidence, NEW n \in 1 .. NumCerts
  PROVE  /\ Shorter(ev, n) \in Evidence
         /\ Shorter(ev, n).cd_size = ev.cd_size /\ Shorter(ev, n).bytes = ev.bytes
         /\ Saved(n) < ev.signature_len => Shorter(ev, n).signature_len = ev.signature_len - Saved(n)
<1>1. CASE Saved(n) < ev.signature_len
  <2>1. PICK s : s = ev.signature_len - Saved(n)
    OBVIOUS
  <2>2. s \in Nat /\ s <= ev.signature_len
    BY <1>1, <2>1, SavedFacts, EvidenceFacts
  <2>3. Shorter(ev, n) = [signature_len |-> s, cd_size |-> ev.cd_size, bytes |-> ev.bytes]
    <3>1. Shorter(ev, n) = [ev EXCEPT !.signature_len = s]
      BY <1>1, <2>1 DEF Shorter
    <3> QED BY <3>1, EvidenceFacts
  <2>4. NumCerts * PemSize \in Nat
    BY SizeFacts, Constants
  <2>5. s \in 0 .. 1 + NumCerts * PemSize
    BY <2>2, <2>4, EvidenceFacts
  <2> QED BY <2>1, <2>3, <2>4, <2>5, EvidenceFacts DEF Evidence
<1>2. CASE ~(Saved(n) < ev.signature_len)
  BY <1>2 DEF Shorter
<1> QED BY <1>1, <1>2

LEMMA ResizeFacts ==
  ASSUME NEW ev \in Evidence, NEW n \in 1 .. NumCerts, NEW b \in BOOLEAN,
         Len(ev.bytes) >= n * DerSize
  PROVE  /\ Resize(ev, n, b) \in Evidence
         /\ Resize(ev, n, b).cd_size = ev.cd_size
         /\ Resize(ev, n, b).signature_len = ev.signature_len
         /\ Len(Resize(ev, n, b).bytes) = IF b THEN Len(ev.bytes) - Saved(n) ELSE Len(ev.bytes)
         /\ \A i \in 1 .. Len(Resize(ev, n, b).bytes) : Resize(ev, n, b).bytes[i] = ev.bytes[i]
<1>1. CASE ~b
  BY <1>1 DEF Resize
<1>2. CASE b
  <2>1. PICK l \in Nat : l = Len(ev.bytes) - Saved(n) /\ l <= Len(ev.bytes)
    <3>1. /\ Saved(n) \in Nat /\ Saved(n) <= n * DerSize /\ n * DerSize \in Nat
          /\ Len(ev.bytes) \in Nat
      BY SavedFacts, EvidenceFacts, SizeFacts
    <3>2. Len(ev.bytes) - Saved(n) \in Nat /\ Len(ev.bytes) - Saved(n) <= Len(ev.bytes)
      BY <3>1
    <3> QED BY <3>2
  <2>2. \A i \in 1 .. l : ev.bytes[i] \in Cells
    BY <2>1, EvidenceFacts
  <2>3. PICK s : s = SubSeq(ev.bytes, 1, l)
    OBVIOUS
  <2>4. /\ s \in Seq(Cells) /\ Len(s) = IF 1 <= l THEN l - 1 + 1 ELSE 0
        /\ \A i \in 1 .. l - 1 + 1 : s[i] = ev.bytes[1 + i - 1]
    BY <2>2, <2>3, SubSeqProperties
  <2>5. s \in Seq(Cells) /\ Len(s) = l /\ \A i \in 1 .. l : s[i] = ev.bytes[i]
    BY <2>4
  <2>6. Resize(ev, n, b) = [signature_len |-> ev.signature_len, cd_size |-> ev.cd_size, bytes |-> s]
    <3>1. Resize(ev, n, b) = [ev EXCEPT !.bytes = s]
      BY <1>2, <2>1, <2>3 DEF Resize
    <3> QED BY <3>1, EvidenceFacts
  <2>7. PICK r : r = Resize(ev, n, b)
    OBVIOUS
  <2>8. r \in Evidence
    BY <2>5, <2>6, <2>7 DEF Evidence
  <2>9. r.cd_size = ev.cd_size /\ r.signature_len = ev.signature_len /\ r.bytes = s
    BY <2>6, <2>7
  <2>10. Len(r.bytes) = IF b THEN Len(ev.bytes) - Saved(n) ELSE Len(ev.bytes)
    BY <1>2, <2>1, <2>5, <2>9
  <2> QED BY <2>5, <2>7, <2>8, <2>9, <2>10
<1> QED BY <1>1, <1>2

LEMMA MovedFacts ==
  ASSUME NEW ev \in Evidence, NEW n \in 1 .. NumCerts, Saved(n) < ev.signature_len
  PROVE  /\ MoveClaims(ev, n) \in Seq(Cells) /\ Len(MoveClaims(ev, n)) = Len(ev.bytes)
         /\ \A i \in 1 .. Len(ev.bytes) :
              MoveClaims(ev, n)[i] =
                IF i \in (2 + ev.signature_len - Saved(n)) .. (Len(ev.bytes) - Saved(n))
                THEN ev.bytes[i + Saved(n)] ELSE ev.bytes[i]
<1>1. PICK l \in Nat : l = Len(ev.bytes) /\ DOMAIN ev.bytes = 1 .. l
  BY EvidenceFacts
<1>2. PICK s \in Nat : s = Saved(n)
  BY SavedFacts
<1>3. PICK from \in Int : from = 2 + ev.signature_len - s
  BY EvidenceFacts
<1>4. PICK m : m = MoveClaims(ev, n)
  OBVIOUS
<1>5. m = [i \in 1 .. l |-> IF i \in from .. l - s THEN ev.bytes[i + s] ELSE ev.bytes[i]]
  BY <1>1, <1>2, <1>3, <1>4 DEF MoveClaims
<1>6. ASSUME NEW i \in 1 .. l PROVE m[i] \in Cells
  <2>1. CASE i \in from .. l - s
    <3>1. i + s \in 1 .. l
      BY <2>1
    <3> QED BY <2>1, <3>1, <1>1, <1>5, EvidenceFacts
  <2>2. CASE i \notin from .. l - s
    BY <2>2, <1>1, <1>5, EvidenceFacts
  <2> QED BY <2>1, <2>2
<1>7. m \in Seq(Cells) /\ Len(m) = l
  BY <1>5, <1>6
<1>8. \A i \in 1 .. l : m[i] = IF i \in from .. l - s THEN ev.bytes[i + s] ELSE ev.bytes[i]
  BY <1>5
<1> QED BY <1>1, <1>2, <1>3, <1>4, <1>7, <1>8

\* The Open Enclave compression in steps: rewrite, move, shorten, resize.
LEMMA CompressOESteps ==
  ASSUME NEW ev \in Evidence, NEW n \in SignatureData(ev), NEW b \in BOOLEAN
  PROVE  \E w, v \in Evidence :
           /\ w = Rewritten(ev, n)
           /\ Saved(n) >= ev.signature_len => CompressOE(ev, n, b) = w
           /\ Saved(n) < ev.signature_len =>
                /\ v.cd_size = w.cd_size /\ v.signature_len = ev.signature_len
                /\ v.bytes = MoveClaims(w, n) /\ Len(v.bytes) = Len(ev.bytes)
                /\ CompressOE(ev, n, b) = Resize(Shorter(v, n), n, b)
<1>1. PICK w \in Evidence : w = Rewritten(ev, n)
  BY RewrittenFacts
<1>2. n \in 1 .. NumCerts /\ w.signature_len = ev.signature_len /\ Len(w.bytes) = Len(ev.bytes)
  BY <1>1, ReadFacts, RewrittenFacts
<1>3. Saved(n) \in Nat /\ ev.signature_len \in Nat
  BY <1>2, SavedFacts, EvidenceFacts
<1>4. CASE Saved(n) < ev.signature_len
  <2>1. PICK m \in Seq(Cells) : m = MoveClaims(w, n) /\ Len(m) = Len(ev.bytes)
    BY <1>2, <1>4, MovedFacts
  <2>2. PICK v : v = [w EXCEPT !.bytes = m]
    OBVIOUS
  <2>3. v = [signature_len |-> w.signature_len, cd_size |-> w.cd_size, bytes |-> m]
    BY <2>2, EvidenceFacts
  <2>4. v \in Evidence
    BY <2>3 DEF Evidence
  <2>5. CompressOE(ev, n, b) = Resize(Shorter(v, n), n, b)
    BY <1>1, <1>3, <1>4, <2>1, <2>2 DEF CompressOE
  <2>6. ~(Saved(n) >= ev.signature_len)
    BY <1>3, <1>4
  <2>7. v.cd_size = w.cd_size /\ v.signature_len = ev.signature_len /\ v.bytes = m
    BY <2>3, <1>2
  <2> QED BY <1>1, <2>1, <2>4, <2>5, <2>6, <2>7
<1>5. CASE ~(Saved(n) < ev.signature_len)
  BY <1>1, <1>3, <1>5 DEF CompressOE
<1> QED BY <1>4, <1>5

\* Compressed evidence, even twice compressed, is evidence.
LEMMA CompressTyped ==
  ASSUME NEW ev \in Evidence, NEW n \in SignatureData(ev), NEW b \in BOOLEAN
  PROVE  CompressSGX(ev, n, b) \in Evidence /\ CompressOE(ev, n, b) \in Evidence
<1>1. /\ n \in 1 .. NumCerts /\ Len(ev.bytes) >= 2 + n * DerSize /\ n * DerSize \in Nat
      /\ Len(ev.bytes) \in Nat /\ Saved(n) \in Nat /\ ev.signature_len \in Nat
  BY ReadFacts, SizeFacts, SavedFacts, EvidenceFacts
<1>2. Len(ev.bytes) >= n * DerSize
  BY <1>1
<1>3. CompressSGX(ev, n, b) \in Evidence
  <2>1. PICK w \in Evidence : w = Rewritten(ev, n) /\ Len(w.bytes) = Len(ev.bytes)
    BY RewrittenFacts
  <2>2. Resize(w, n, b) \in Evidence
    BY <1>1, <1>2, <2>1, ResizeFacts
  <2>3. Shorter(Resize(w, n, b), n) \in Evidence
    BY <1>1, <2>2, ShorterFacts
  <2> QED BY <2>1, <2>3 DEF CompressSGX
<1>4. CompressOE(ev, n, b) \in Evidence
  <2>1. PICK w \in Evidence, v \in Evidence :
           /\ Saved(n) >= ev.signature_len => CompressOE(ev, n, b) = w
           /\ Saved(n) < ev.signature_len =>
                /\ Len(v.bytes) = Len(ev.bytes)
                /\ CompressOE(ev, n, b) = Resize(Shorter(v, n), n, b)
    BY CompressOESteps
  <2>2. CASE Saved(n) >= ev.signature_len
    BY <2>1, <2>2
  <2>3. CASE Saved(n) < ev.signature_len
    <3>1. PICK s \in Evidence : s = Shorter(v, n) /\ s.bytes = v.bytes
      BY <1>1, ShorterFacts
    <3>2. Resize(s, n, b) \in Evidence
      BY <1>1, <1>2, <2>1, <2>3, <3>1, ResizeFacts
    <3> QED BY <2>1, <2>3, <3>1, <3>2
  <2> QED BY <1>1, <2>2, <2>3
<1> QED BY <1>3, <1>4

\* What every compression of a quote starts from: p, d and s are the cells of
\* the chain in PEM, in DER, and the difference; l those of the custom claims.
Compressible(q, c, d, s) ==
  /\ q = Quote(c) /\ s = Saved(NumCerts) /\ d = NumCerts * DerSize
  /\ NumCerts \in 1 .. NumCerts /\ NumCerts \in SignatureData(q)

Sized(q, c, p, d, s, l) ==
  /\ p = d + s /\ s >= 1 /\ d >= 1
  /\ q.signature_len = 1 + p /\ Len(q.bytes) = 2 + p + l /\ l = Len(c)
  /\ q.bytes[1] = QuoteHead[1]
  /\ \A i \in 1 .. l : q.bytes[2 + p + i] = c[i]
  /\ Len(Der(NumCerts)) = d

LEMMA QuoteCompression ==
  ASSUME NEW c, c \in {<<>>, Claims}
  PROVE  /\ Quote(c) \in Evidence /\ NumCerts * PemSize \in Nat /\ NumCerts * DerSize \in Nat
         /\ Saved(NumCerts) \in Nat /\ Len(c) \in Nat
         /\ Compressible(Quote(c), c, NumCerts * DerSize, Saved(NumCerts))
         /\ Sized(Quote(c), c, NumCerts * PemSize, NumCerts * DerSize, Saved(NumCerts), Len(c))
<1>0. NumCerts \in 1 .. NumCerts
  BY Constants
<1>1. PICK p, d, s \in Nat : p = NumCerts * PemSize /\ d = NumCerts * DerSize /\ s = Saved(NumCerts)
  BY <1>0, SizeFacts, SavedFacts
<1>2. p = d + s /\ s >= 1 /\ d >= 1
  <2>1. d >= 1 /\ s >= 1 /\ s = p - d
    BY <1>0, <1>1, SizeFacts, SavedFacts
  <2> QED BY <2>1
<1>3. PICK q \in Evidence : q = Quote(c)
  BY QuoteFacts
<1>4. PICK l \in Nat : l = Len(c)
  BY QuoteFacts
<1>5. /\ q.signature_len = 1 + p /\ Len(q.bytes) = 2 + p + l /\ Laid(q, Pem(NumCerts))
      /\ \A i \in 1 .. l : q.bytes[2 + p + i] = c[i]
  BY <1>1, <1>3, <1>4, QuoteFacts
<1>6. NumCerts \in SignatureData(q)
  BY <1>5, LaidIsRead
<1>7. q.bytes[1] = QuoteHead[1]
  BY <1>5 DEF Laid
<1>8. Len(Der(NumCerts)) = d
  BY <1>0, <1>1, EncodingFacts
<1>9. Compressible(q, c, d, s)
  BY <1>0, <1>1, <1>3, <1>6 DEF Compressible
<1>10. Sized(q, c, p, d, s, l)
  BY <1>2, <1>4, <1>5, <1>7, <1>8 DEF Sized
<1> QED BY <1>1, <1>3, <1>4, <1>9, <1>10

\* SGX: the certification data are in DER, and the sizes fit.
LEMMA CompressedSGXQuote ==
  ASSUME NEW c, c \in {<<>>, Claims}, NEW b \in BOOLEAN
  PROVE  Laid(CompressSGX(Quote(c), NumCerts, b), Der(NumCerts))
<1>0. PICK q \in Evidence : q = Quote(c)
  BY QuoteCompression
<1>20. PICK p, d, s, l \in Nat : /\ p = NumCerts * PemSize /\ d = NumCerts * DerSize
                               /\ s = Saved(NumCerts) /\ l = Len(c)
  BY QuoteCompression
<1>1. Compressible(q, c, d, s) /\ Sized(q, c, p, d, s, l)
  BY <1>0, <1>20, QuoteCompression
<1>2. p = d + s /\ s >= 1 /\ d >= 1
  BY <1>1 DEF Sized
<1>3. PICK w \in Evidence :
        /\ w = Rewritten(q, NumCerts) /\ w.cd_size = d /\ w.signature_len = 1 + p
        /\ Len(w.bytes) = 2 + p + l
        /\ \A i \in 1 .. 2 + p + l :
             w.bytes[i] = IF i \in 3 .. 2 + d THEN Der(NumCerts)[i - 2] ELSE q.bytes[i]
  <2>1. NumCerts \in SignatureData(q) /\ d = NumCerts * DerSize
    BY <1>1 DEF Compressible
  <2>2. q.signature_len = 1 + p /\ Len(q.bytes) = 2 + p + l
    BY <1>1 DEF Sized
  <2>3. PICK w : w = Rewritten(q, NumCerts)
    OBVIOUS
  <2>4. /\ w \in Evidence /\ w.cd_size = NumCerts * DerSize
        /\ w.signature_len = q.signature_len /\ Len(w.bytes) = Len(q.bytes)
        /\ \A i \in 1 .. Len(q.bytes) :
             w.bytes[i] = IF i \in 3 .. 2 + NumCerts * DerSize THEN Der(NumCerts)[i - 2]
                          ELSE q.bytes[i]
    BY <2>1, <2>3, RewrittenFacts
  <2> QED BY <2>1, <2>2, <2>3, <2>4
<1>4. PICK r \in Evidence, m \in Nat :
        /\ r = Resize(w, NumCerts, b) /\ r.cd_size = d /\ r.signature_len = 1 + p
        /\ m = Len(r.bytes) /\ m = (IF b THEN 2 + p + l - s ELSE 2 + p + l)
        /\ \A i \in 1 .. m : r.bytes[i] = w.bytes[i]
  <2>1. 2 + p + l >= d
    BY <1>2
  <2>2. d = NumCerts * DerSize /\ s = Saved(NumCerts) /\ NumCerts \in 1 .. NumCerts
    BY <1>1 DEF Compressible
  <2>3. Len(w.bytes) >= NumCerts * DerSize
    BY <2>1, <2>2, <1>3
  <2>4. PICK r : r = Resize(w, NumCerts, b)
    OBVIOUS
  <2>5. /\ r \in Evidence /\ r.cd_size = w.cd_size /\ r.signature_len = w.signature_len
        /\ Len(r.bytes) = IF b THEN Len(w.bytes) - Saved(NumCerts) ELSE Len(w.bytes)
        /\ \A i \in 1 .. Len(r.bytes) : r.bytes[i] = w.bytes[i]
    BY <2>2, <2>3, <2>4, ResizeFacts
  <2>6. Len(r.bytes) \in Nat
    BY <2>5, EvidenceFacts
  <2>7. Len(r.bytes) = IF b THEN 2 + p + l - s ELSE 2 + p + l
    BY <1>3, <2>2, <2>5
  <2> QED BY <1>3, <2>4, <2>5, <2>6, <2>7
<1>5. PICK v \in Evidence :
        /\ v = CompressSGX(Quote(c), NumCerts, b)
        /\ v.cd_size = d /\ v.bytes = r.bytes /\ v.signature_len = 1 + d
  <2>1. s = Saved(NumCerts) /\ q = Quote(c) /\ NumCerts \in 1 .. NumCerts
    BY <1>1 DEF Compressible
  <2>2. s < 1 + p /\ 1 + p - s = 1 + d
    BY <1>2
  <2>3. PICK v : v = Shorter(r, NumCerts)
    OBVIOUS
  <2>4. /\ v \in Evidence /\ v.cd_size = d /\ v.bytes = r.bytes /\ v.signature_len = 1 + d
    BY <1>4, <2>1, <2>2, <2>3, ShorterFacts
  <2>5. CompressSGX(Quote(c), NumCerts, b) = v
    BY <1>3, <1>4, <2>1, <2>3 DEF CompressSGX
  <2> QED BY <2>4, <2>5
<1>6. m >= 2 + d /\ m <= 2 + p + l
  <2>1. CASE b
    <3>1. m = 2 + p + l - s
      BY <2>1, <1>4
    <3> QED BY <3>1, <1>2
  <2>2. CASE ~b
    BY <2>2, <1>2, <1>4
  <2> QED BY <2>1, <2>2
<1>7. r.bytes[1] = QuoteHead[1]
  <2>1. 1 \in 1 .. m /\ 1 \in 1 .. 2 + p + l /\ 1 \notin 3 .. 2 + d
    BY <1>6
  <2>2. r.bytes[1] = w.bytes[1]
    BY <2>1, <1>4
  <2>3. w.bytes[1] = q.bytes[1]
    BY <2>1, <1>3
  <2> QED BY <2>2, <2>3, <1>1 DEF Sized
<1>8. ASSUME NEW i \in 1 .. d PROVE r.bytes[2 + i] = Der(NumCerts)[i]
  <2>1. PICK j \in Nat : j = 2 + i
    OBVIOUS
  <2>2. j \in 1 .. m /\ j \in 1 .. 2 + p + l /\ j \in 3 .. 2 + d /\ j - 2 = i
    BY <2>1, <1>2, <1>6
  <2>3. r.bytes[j] = w.bytes[j]
    BY <2>2, <1>4
  <2>4. w.bytes[j] = Der(NumCerts)[j - 2]
    BY <2>2, <1>3
  <2> QED BY <2>1, <2>2, <2>3, <2>4
<1>9. v.bytes \in Seq(Cells) /\ Len(v.bytes) >= 2 + d
  BY <1>4, <1>5, <1>6, EvidenceFacts
<1>10. Len(Der(NumCerts)) = d
  BY <1>1 DEF Sized
<1>11. Laid(v, Der(NumCerts))
  BY <1>5, <1>7, <1>8, <1>9, <1>10 DEF Laid
<1> QED BY <1>5, <1>11

\* Open Enclave: the custom claims c follow the signature with the certification
\* data e, and nothing follows it if there are none.
Carries(ev, e, c) ==
  /\ Laid(ev, e)
  /\ Len(ev.bytes) >= 2 + Len(e) + Len(c)
  /\ c = <<>> => Len(ev.bytes) = 2 + Len(e)
  /\ \A i \in 1 .. Len(c) : ev.bytes[2 + Len(e) + i] = c[i]

\* Compression moves the claims, but leaves cells behind them if it does not resize.
LEMMA CompressedOEQuote ==
  ASSUME NEW c, c \in {<<>>, Claims}, NEW b \in BOOLEAN
  PROVE  /\ CompressOE(Quote(c), NumCerts, b) \in Evidence
         /\ c # <<>> \/ b = TRUE => Carries(CompressOE(Quote(c), NumCerts, b), Der(NumCerts), c)
<1>0. PICK q \in Evidence : q = Quote(c)
  BY QuoteCompression
<1>20. PICK p, d, s, l \in Nat : /\ p = NumCerts * PemSize /\ d = NumCerts * DerSize
                               /\ s = Saved(NumCerts) /\ l = Len(c)
  BY QuoteCompression
<1>1. Compressible(q, c, d, s) /\ Sized(q, c, p, d, s, l)
  BY <1>0, <1>20, QuoteCompression
<1>2. p = d + s /\ s >= 1 /\ d >= 1
  BY <1>1 DEF Sized
<1>3. s < 1 + p /\ 1 + p - s = 1 + d /\ 2 + (1 + p) - s = 3 + d /\ 2 + p + l - s = 2 + d + l
  BY <1>2
<1>4. /\ d = NumCerts * DerSize /\ s = Saved(NumCerts) /\ q = Quote(c)
      /\ NumCerts \in 1 .. NumCerts /\ NumCerts \in SignatureData(q)
  BY <1>1 DEF Compressible
<1>5. q.signature_len = 1 + p /\ Len(q.bytes) = 2 + p + l
  BY <1>1 DEF Sized
<1>6. PICK w \in Evidence, u \in Evidence :
        /\ w = Rewritten(q, NumCerts)
        /\ Saved(NumCerts) < q.signature_len =>
             /\ u.cd_size = w.cd_size /\ u.signature_len = q.signature_len
             /\ u.bytes = MoveClaims(w, NumCerts) /\ Len(u.bytes) = Len(q.bytes)
             /\ CompressOE(q, NumCerts, b) = Resize(Shorter(u, NumCerts), NumCerts, b)
  BY <1>4, CompressOESteps
<1>7. /\ w.cd_size = d /\ w.signature_len = 1 + p /\ Len(w.bytes) = 2 + p + l
      /\ \A i \in 1 .. 2 + p + l :
           w.bytes[i] = IF i \in 3 .. 2 + d THEN Der(NumCerts)[i - 2] ELSE q.bytes[i]
  <2>1. /\ w.cd_size = NumCerts * DerSize
        /\ w.signature_len = q.signature_len /\ Len(w.bytes) = Len(q.bytes)
        /\ \A i \in 1 .. Len(q.bytes) :
             w.bytes[i] = IF i \in 3 .. 2 + NumCerts * DerSize THEN Der(NumCerts)[i - 2]
                          ELSE q.bytes[i]
    BY <1>4, <1>6, RewrittenFacts
  <2> QED BY <1>4, <1>5, <2>1
<1>8. /\ u.cd_size = d /\ u.signature_len = 1 + p /\ Len(u.bytes) = 2 + p + l
      /\ u.bytes = MoveClaims(w, NumCerts)
      /\ CompressOE(q, NumCerts, b) = Resize(Shorter(u, NumCerts), NumCerts, b)
  <2>1. Saved(NumCerts) < q.signature_len
    BY <1>3, <1>4, <1>5
  <2> QED BY <2>1, <1>5, <1>6, <1>7
<1>9. \A i \in 1 .. 2 + p + l :
        u.bytes[i] = IF i \in 3 + d .. 2 + d + l THEN w.bytes[i + s] ELSE w.bytes[i]
  <2>1. Saved(NumCerts) < w.signature_len
    BY <1>3, <1>4, <1>7
  <2>2. \A i \in 1 .. Len(w.bytes) :
           MoveClaims(w, NumCerts)[i] =
             IF i \in (2 + w.signature_len - Saved(NumCerts)) .. (Len(w.bytes) - Saved(NumCerts))
             THEN w.bytes[i + Saved(NumCerts)] ELSE w.bytes[i]
    BY <2>1, <1>4, MovedFacts
  <2>3. /\ 2 + w.signature_len - Saved(NumCerts) = 3 + d
        /\ Len(w.bytes) - Saved(NumCerts) = 2 + d + l
    BY <1>3, <1>4, <1>7
  <2> QED BY <1>4, <1>7, <1>8, <2>2, <2>3
<1>10. PICK v \in Evidence, m \in Nat :
        /\ v = CompressOE(Quote(c), NumCerts, b)
        /\ v.cd_size = d /\ v.signature_len = 1 + d /\ m = Len(v.bytes)
        /\ m = (IF b THEN 2 + p + l - s ELSE 2 + p + l)
        /\ \A i \in 1 .. m : v.bytes[i] = u.bytes[i]
  <2>1. PICK t : t = Shorter(u, NumCerts)
    OBVIOUS
  <2>2. t \in Evidence /\ t.cd_size = d /\ t.bytes = u.bytes /\ t.signature_len = 1 + d
    <3>1. Saved(NumCerts) < u.signature_len /\ u.signature_len - Saved(NumCerts) = 1 + d
      BY <1>3, <1>4, <1>8
    <3>2. NumCerts \in 1 .. NumCerts /\ u.cd_size = d
      BY <1>4, <1>8
    <3> QED BY <3>1, <3>2, <2>1, ShorterFacts
  <2>3. 2 + p + l >= d
    BY <1>2
  <2>4. Len(t.bytes) >= NumCerts * DerSize
    BY <1>4, <1>8, <2>2, <2>3
  <2>5. PICK v : v = Resize(t, NumCerts, b)
    OBVIOUS
  <2>6. /\ v \in Evidence /\ v.cd_size = t.cd_size /\ v.signature_len = t.signature_len
        /\ Len(v.bytes) = IF b THEN Len(t.bytes) - Saved(NumCerts) ELSE Len(t.bytes)
        /\ \A i \in 1 .. Len(v.bytes) : v.bytes[i] = t.bytes[i]
    BY <1>4, <2>2, <2>4, <2>5, ResizeFacts
  <2>7. Len(v.bytes) \in Nat
    BY <2>6, EvidenceFacts
  <2>8. Len(v.bytes) = IF b THEN 2 + p + l - s ELSE 2 + p + l
    <3>1. Len(t.bytes) = 2 + p + l /\ Saved(NumCerts) = s
      BY <1>4, <1>8, <2>2
    <3> QED BY <3>1, <2>6
  <2>9. v = CompressOE(Quote(c), NumCerts, b)
    BY <1>4, <1>8, <2>1, <2>5
  <2>10. PICK m \in Nat : m = Len(v.bytes)
    BY <2>7
  <2>11. v.cd_size = d /\ v.signature_len = 1 + d /\ \A i \in 1 .. m : v.bytes[i] = u.bytes[i]
    BY <2>2, <2>6, <2>10
  <2>12. v \in Evidence /\ m = (IF b THEN 2 + p + l - s ELSE 2 + p + l)
    BY <2>6, <2>8, <2>10
  <2> QED BY <2>9, <2>10, <2>11, <2>12
<1>11. m >= 2 + d + l /\ m <= 2 + p + l /\ (b => m = 2 + d + l)
  <2>1. CASE b
    <3>1. m = 2 + p + l - s
      BY <2>1, <1>10
    <3> QED BY <3>1, <1>2
  <2>2. CASE ~b
    <3>1. m = 2 + p + l
      BY <2>2, <1>10
    <3> QED BY <2>2, <3>1, <1>2
  <2> QED BY <2>1, <2>2
<1>12. ASSUME NEW j \in 1 .. 2 + d
       PROVE  v.bytes[j] = IF j \in 3 .. 2 + d THEN Der(NumCerts)[j - 2] ELSE q.bytes[j]
  <2>1. j \in 1 .. m /\ j \in 1 .. 2 + p + l /\ j \notin 3 + d .. 2 + d + l
    BY <1>2, <1>11
  <2>2. v.bytes[j] = u.bytes[j] /\ u.bytes[j] = w.bytes[j]
    BY <2>1, <1>9, <1>10
  <2> QED BY <2>1, <2>2, <1>7
<1>13. v.bytes[1] = QuoteHead[1]
  <2>1. 1 \in 1 .. 2 + d /\ 1 \notin 3 .. 2 + d
    OBVIOUS
  <2> QED BY <2>1, <1>1, <1>12 DEF Sized
<1>14. ASSUME NEW i \in 1 .. d PROVE v.bytes[2 + i] = Der(NumCerts)[i]
  <2>1. PICK j \in Nat : j = 2 + i
    OBVIOUS
  <2>2. j \in 1 .. 2 + d /\ j \in 3 .. 2 + d /\ j - 2 = i
    BY <2>1
  <2> QED BY <2>1, <2>2, <1>12
<1>15. ASSUME NEW i \in 1 .. l PROVE v.bytes[2 + d + i] = c[i]
  <2>1. PICK j, k \in Nat : j = 2 + d + i /\ k = j + s
    OBVIOUS
  <2>2. /\ j \in 1 .. m /\ j \in 1 .. 2 + p + l /\ j \in 3 + d .. 2 + d + l
        /\ k \in 1 .. 2 + p + l /\ k \notin 3 .. 2 + d /\ k = 2 + p + i
    BY <2>1, <1>2, <1>11
  <2>3. v.bytes[j] = u.bytes[j] /\ u.bytes[j] = w.bytes[k]
    BY <2>1, <2>2, <1>9, <1>10
  <2>4. w.bytes[k] = q.bytes[k]
    BY <2>2, <1>7
  <2>5. \A x \in 1 .. l : q.bytes[2 + p + x] = c[x]
    BY <1>1 DEF Sized
  <2> QED BY <2>1, <2>2, <2>3, <2>4, <2>5
<1>16. Laid(v, Der(NumCerts))
  <2>0. m >= 2 + d
    BY <1>11
  <2>1. v.bytes \in Seq(Cells) /\ Len(v.bytes) >= 2 + d
    BY <1>10, <2>0, EvidenceFacts
  <2>2. Len(Der(NumCerts)) = d
    BY <1>1 DEF Sized
  <2> QED BY <2>1, <2>2, <1>10, <1>13, <1>14 DEF Laid
<1>17. l = Len(c)
  BY <1>1 DEF Sized
<1>18. ASSUME c # <<>> \/ b = TRUE PROVE Carries(v, Der(NumCerts), c)
  <2>1. Len(Der(NumCerts)) = d
    BY <1>1 DEF Sized
  <2>2. ASSUME c = <<>> PROVE m = 2 + d
    <3>1. l = 0 /\ b
      BY <2>2, <1>17, <1>18
    <3>2. m = 2 + d + l
      BY <3>1, <1>11
    <3> QED BY <3>1, <3>2
  <2>3. Len(v.bytes) >= 2 + d + l /\ (c = <<>> => Len(v.bytes) = 2 + d)
    BY <1>10, <1>11, <2>2
  <2> QED BY <2>1, <2>3, <1>15, <1>16, <1>17 DEF Carries
<1> QED BY <1>10, <1>18

----------------------------------------------------------------------------
(***************************************************************************)
(* Extraction.                                                             *)
(***************************************************************************)
LEMMA PrefixFacts ==
  ASSUME NEW b \in Seq(Cells), NEW k \in Nat, k <= Len(b)
  PROVE  /\ SubSeq(b, 1, k) \in Seq(Cells) /\ Len(SubSeq(b, 1, k)) = k
         /\ \A i \in 1 .. k : SubSeq(b, 1, k)[i] = b[i]
<1>1. Len(b) \in Nat /\ \A i \in 1 .. k : b[i] \in Cells
  OBVIOUS
<1>2. PICK s : s = SubSeq(b, 1, k)
  OBVIOUS
<1>3. /\ s \in Seq(Cells) /\ Len(s) = IF 1 <= k THEN k - 1 + 1 ELSE 0
      /\ \A i \in 1 .. k - 1 + 1 : s[i] = b[1 + i - 1]
  BY <1>1, <1>2, SubSeqProperties
<1>4. Len(s) = k /\ \A i \in 1 .. k : s[i] = b[i]
  BY <1>3
<1> QED BY <1>2, <1>3, <1>4

LEMMA SuffixFacts ==
  ASSUME NEW b \in Seq(Cells), NEW k \in Nat, k < Len(b)
  PROVE  /\ SubSeq(b, k + 1, Len(b)) \in Seq(Cells)
         /\ Len(SubSeq(b, k + 1, Len(b))) = Len(b) - k
         /\ \A i \in 1 .. Len(b) - k : SubSeq(b, k + 1, Len(b))[i] = b[k + i]
<1>1. PICK m \in Nat : m = Len(b) /\ k < m
  OBVIOUS
<1>2. \A i \in k + 1 .. m : b[i] \in Cells
  BY <1>1
<1>3. PICK s : s = SubSeq(b, k + 1, m)
  OBVIOUS
<1>4. k + 1 <= m /\ m - (k + 1) + 1 = m - k
  BY <1>1
<1>5. /\ s \in Seq(Cells) /\ Len(s) = IF k + 1 <= m THEN m - (k + 1) + 1 ELSE 0
      /\ \A i \in 1 .. m - (k + 1) + 1 : s[i] = b[k + 1 + i - 1]
  BY <1>2, <1>3, SubSeqProperties
<1>6. Len(s) = m - k
  BY <1>4, <1>5
<1>7. ASSUME NEW i \in 1 .. m - k PROVE s[i] = b[k + i]
  <2>1. k + 1 + i - 1 = k + i /\ i \in 1 .. m - (k + 1) + 1
    BY <1>4
  <2> QED BY <2>1, <1>5
<1> QED BY <1>1, <1>3, <1>5, <1>6, <1>7

LEMMA ExtractedTyped ==
  ASSUME NEW a, a.evidence \in Evidence
  PROVE  Extracted(a).evidence \in Evidence
<1>1. PICK ev \in Evidence : ev = a.evidence
  OBVIOUS
<1>2. PICK cut \in Nat : cut = 1 + ev.signature_len
  BY EvidenceFacts
<1>3. CASE Len(ev.bytes) > cut
  <2>1. PICK s : s = SubSeq(ev.bytes, 1, cut)
    OBVIOUS
  <2>2. s \in Seq(Cells)
    <3>1. ev.bytes \in Seq(Cells) /\ cut <= Len(ev.bytes)
      BY <1>3, EvidenceFacts
    <3> QED BY <2>1, <3>1, PrefixFacts
  <2>3. Extracted(a).evidence = [ev EXCEPT !.bytes = s]
    BY <1>1, <1>2, <1>3, <2>1 DEF Extracted
  <2>4. [ev EXCEPT !.bytes = s] =
          [signature_len |-> ev.signature_len, cd_size |-> ev.cd_size, bytes |-> s]
    BY EvidenceFacts
  <2> QED BY <2>2, <2>3, <2>4 DEF Evidence
<1>4. CASE ~(Len(ev.bytes) > cut)
  BY <1>1, <1>2, <1>4 DEF Extracted
<1> QED BY <1>3, <1>4

\* What is extracted has the certificates and the custom claims.
LEMMA ExtractedReads ==
  ASSUME NEW a, NEW e, NEW c, a.evidence \in Evidence,
         e \in {Pem(NumCerts), Der(NumCerts)}, c \in {<<>>, Claims}, Carries(a.evidence, e, c)
  PROVE  /\ SignatureData(Extracted(a).evidence) = {NumCerts}
         /\ CustomClaims(Extracted(a).claims) = {c}
<1>1. PICK ev \in Evidence : ev = a.evidence
  OBVIOUS
<1>2. Carries(ev, e, c) /\ Laid(ev, e)
  BY <1>1 DEF Carries
<1>3. PICK d \in Nat : d = Len(e)
  <2>1. NumCerts \in 1 .. NumCerts
    BY Constants
  <2> QED BY <2>1, EncodingFacts
<1>4. PICK l \in Nat : l = Len(c)
  BY QuoteFacts
<1>5. PICK m \in Nat : m = Len(ev.bytes)
  BY EvidenceFacts
<1>6. m >= 2 + d + l /\ (c = <<>> => m = 2 + d) /\ \A i \in 1 .. l : ev.bytes[2 + d + i] = c[i]
  BY <1>2, <1>3, <1>4, <1>5 DEF Carries
<1>7. 1 + ev.signature_len = 2 + d
  BY <1>2, <1>3 DEF Laid
<1>8. PICK k \in Nat : k = 2 + d /\ k = 1 + ev.signature_len
  BY <1>7
<1>9. m >= k
  BY <1>6, <1>8
<1>10. CASE m > k
  <2>1. PICK s : s = SubSeq(ev.bytes, 1, k)
    OBVIOUS
  <2>2. s \in Seq(Cells) /\ Len(s) = k /\ \A i \in 1 .. k : s[i] = ev.bytes[i]
    <3>1. ev.bytes \in Seq(Cells) /\ k <= Len(ev.bytes)
      BY <1>5, <1>9, EvidenceFacts
    <3> QED BY <2>1, <3>1, PrefixFacts
  <2>3. PICK x : x = [ev EXCEPT !.bytes = s]
    OBVIOUS
  <2>4. x = [signature_len |-> ev.signature_len, cd_size |-> ev.cd_size, bytes |-> s]
    BY <2>3, EvidenceFacts
  <2>5. Laid(x, e)
    <3>1. x.cd_size = d /\ x.signature_len = 1 + d /\ x.bytes = s
      BY <2>4, <1>2, <1>3 DEF Laid
    <3>2. s[1] = QuoteHead[1]
      BY <2>2, <1>8, <1>2 DEF Laid
    <3>3. ASSUME NEW i \in 1 .. d PROVE s[2 + i] = e[i]
      <4>1. 2 + i \in 1 .. k
        BY <1>8
      <4>2. ev.bytes[2 + i] = e[i]
        BY <1>2, <1>3 DEF Laid
      <4> QED BY <4>1, <4>2, <2>2
    <3>4. Len(s) >= 2 + d
      BY <2>2, <1>8
    <3> QED BY <2>2, <3>1, <3>2, <3>3, <3>4, <1>3 DEF Laid
  <2>6. Extracted(a).evidence = x
    BY <1>1, <1>5, <1>8, <1>10, <2>1, <2>3 DEF Extracted
  <2>7. SignatureData(Extracted(a).evidence) = {NumCerts}
    BY <2>5, <2>6, LaidIsRead
  <2>8. c = Claims /\ l = ClaimSize
    <3>1. c # <<>>
      BY <1>6, <1>8, <1>10
    <3>2. Len(Claims) = ClaimSize
      BY Constants DEF Claims
    <3> QED BY <3>1, <3>2, <1>4
  <2>9. PICK t : t = SubSeq(ev.bytes, k + 1, Len(ev.bytes))
    OBVIOUS
  <2>10. t \in Seq(Cells) /\ Len(t) = m - k /\ \A i \in 1 .. m - k : t[i] = ev.bytes[k + i]
    <3>1. ev.bytes \in Seq(Cells) /\ k < Len(ev.bytes)
      BY <1>5, <1>10, EvidenceFacts
    <3> QED BY <2>9, <3>1, <1>5, SuffixFacts
  <2>11. l <= Len(t) /\ l >= 1
    BY <1>6, <1>8, <2>8, <2>10, Constants
  <2>12. PICK y : y = SubSeq(t, 1, l)
    OBVIOUS
  <2>13. y \in Seq(Cells) /\ Len(y) = l /\ \A i \in 1 .. l : y[i] = t[i]
    BY <2>10, <2>11, <2>12, PrefixFacts
  <2>14. ASSUME NEW i \in 1 .. l PROVE y[i] = c[i]
    <3>1. i \in 1 .. m - k
      BY <2>10, <2>11
    <3>2. t[i] = ev.bytes[2 + d + i]
      BY <3>1, <2>10, <1>8
    <3> QED BY <3>2, <2>13, <1>6
  <2>15. y = c
    <3>1. c \in Seq(Cells)
      BY QuoteFacts
    <3> QED BY <3>1, <2>13, <2>14, <1>4
  <2>17. CustomClaims(t) = {c}
    <3>1. Len(t) >= ClaimSize /\ SubSeq(t, 1, ClaimSize) = Claims
      BY <2>8, <2>11, <2>12, <2>15, <2>10
    <3>2. ~(Len(t) < HeaderSize)
      BY <3>1, <2>10, Constants
    <3>3. CustomClaims(t) = {z \in {Claims} : Len(t) >= ClaimSize /\ SubSeq(t, 1, ClaimSize) = z}
      BY <3>2 DEF CustomClaims
    <3> QED BY <3>1, <3>3, <2>8
  <2>18. Extracted(a).claims = t
    BY <1>1, <1>5, <1>8, <1>10, <2>9 DEF Extracted
  <2> QED BY <2>7, <2>17, <2>18
<1>11. CASE m = k
  <2>1. c = <<>>
    <3>1. ASSUME c = Claims PROVE FALSE
      <4>1. l = ClaimSize
        BY <3>1, <1>4, Constants DEF Claims
      <4> QED BY <4>1, <1>6, <1>8, <1>11, Constants
    <3> QED BY <3>1
  <2>2. ~(Len(ev.bytes) > 1 + ev.signature_len)
    BY <1>5, <1>8, <1>11
  <2>3. Extracted(a).evidence = ev /\ Extracted(a).claims = <<>>
    BY <1>1, <2>2 DEF Extracted
  <2>4. SignatureData(ev) = {NumCerts}
    BY <1>2, LaidIsRead
  <2>5. CustomClaims(<<>>) = {<<>>}
    <3>1. Len(<<>>) < HeaderSize
      BY Constants
    <3> QED BY <3>1 DEF CustomClaims
  <2> QED BY <2>1, <2>3, <2>4, <2>5
<1> QED BY <1>9, <1>10, <1>11

----------------------------------------------------------------------------
(***************************************************************************)
(* The collateral: each item is found again under its name.                *)
(***************************************************************************)
Named(e) == [f \in Fields |-> IF f \in Range(e) THEN f ELSE Nothing]

LEMMA FieldNames ==
  Fields = {"pck_crl_issuer_chain", "root_ca_crl", "pck_crl", "tcb_info_issuer_chain",
            "tcb_info", "qe_identity_issuer_chain", "qe_identity"}
BY DEF Fields, QL_QVE_Collateral

\* The items in the order of their indices.
LEMMA ItemIndices ==
  /\ Item("tcb_info") = 2 /\ Item("tcb_info_issuer_chain") = 3 /\ Item("pck_crl") = 4
  /\ Item("root_ca_crl") = 5 /\ Item("pck_crl_issuer_chain") = 6 /\ Item("qe_identity") = 7
  /\ Item("qe_identity_issuer_chain") = 8
BY DEF Item

\* Of items that begin the list, those that are there are in their places.
LEMMA CollateralNamed ==
  ASSUME NEW n \in {6, 9, 10}
  PROVE  LET e == SubSeq(OELayout, 1, n) IN
         /\ e # <<>> /\ Len(e) = n /\ e[1] = "version"
         /\ Collateral(Scollateral(e)) = Named(e)
<1>1. PICK e : e = SubSeq(OELayout, 1, n)
  OBVIOUS
<1>2. PICK S : S = {OELayout[i] : i \in 1 .. 10}
  OBVIOUS
<1>3. Len(e) = n /\ e \in Seq(S) /\ \A i \in 1 .. n : e[i] = OELayout[i]
  <2>1. \A i \in 1 .. n : OELayout[i] \in S
    BY <1>2
  <2>2. /\ e \in Seq(S) /\ Len(e) = IF 1 <= n THEN n - 1 + 1 ELSE 0
        /\ \A i \in 1 .. n - 1 + 1 : e[i] = OELayout[1 + i - 1]
    BY <1>1, <2>1, SubSeqProperties
  <2> QED BY <2>2
<1>4. \A f : f \in Range(e) <=> \E i \in 1 .. n : f = OELayout[i]
  BY <1>3 DEF Range
<1>5. \A f \in Fields : /\ Item(f) \in 2 .. 8 /\ OELayout[Item(f)] = f
                        /\ \A i \in 1 .. 10 : OELayout[i] = f => i = Item(f)
  BY FieldNames, ItemIndices DEF OELayout
<1>6. ASSUME NEW f \in Fields
      PROVE  (IF Item(f) <= Len(e) THEN e[Item(f)] ELSE Nothing) = Named(e)[f]
  <2>1. CASE Item(f) <= n
    <3>1. e[Item(f)] = f /\ f \in Range(e)
      BY <2>1, <1>3, <1>4, <1>5
    <3> QED BY <3>1, <2>1, <1>3 DEF Named
  <2>2. CASE ~(Item(f) <= n)
    <3>1. f \notin Range(e)
      BY <2>2, <1>4, <1>5
    <3> QED BY <3>1, <2>2, <1>3 DEF Named
  <2> QED BY <2>1, <2>2
<1>7. Collateral(Scollateral(e)) =
        [pck_crl_issuer_chain |-> Named(e)["pck_crl_issuer_chain"],
         root_ca_crl |-> Named(e)["root_ca_crl"], pck_crl |-> Named(e)["pck_crl"],
         tcb_info_issuer_chain |-> Named(e)["tcb_info_issuer_chain"],
         tcb_info |-> Named(e)["tcb_info"],
         qe_identity_issuer_chain |-> Named(e)["qe_identity_issuer_chain"],
         qe_identity |-> Named(e)["qe_identity"]]
  <2>1. Scollateral(e) =
          <<Named(e)["pck_crl_issuer_chain"], Named(e)["root_ca_crl"], Named(e)["pck_crl"],
            Named(e)["tcb_info_issuer_chain"], Named(e)["tcb_info"],
            Named(e)["qe_identity_issuer_chain"], Named(e)["qe_identity"]>>
    BY <1>6, FieldNames DEF Scollateral
  <2>2. Scollateral(e) # <<>>
    BY <2>1
  <2> QED BY <2>1, <2>2 DEF Collateral, QL_QVE_Collateral
<1>8. Collateral(Scollateral(e)) = Named(e)
  <2>1. PICK r : r = Collateral(Scollateral(e))
    OBVIOUS
  <2>2. DOMAIN r = Fields /\ r = [f \in DOMAIN r |-> r[f]]
    BY <2>1, <1>7, FieldNames
  <2>3. \A f \in Fields : r[f] = Named(e)[f]
    BY <2>1, <1>7, FieldNames
  <2>4. DOMAIN Named(e) = Fields /\ Named(e) = [f \in Fields |-> Named(e)[f]]
    BY DEF Named
  <2> QED BY <2>1, <2>2, <2>3, <2>4
<1>9. e # <<>> /\ e[1] = "version"
  <2>1. e[1] = OELayout[1] /\ Len(e) >= 1
    BY <1>3
  <2> QED BY <2>1 DEF OELayout
<1> QED BY <1>1, <1>3, <1>8, <1>9

\* A platform's SGX collateral is read back whole.
LEMMA SGXCollateralNamed ==
  /\ Scollateral(OELayout) # <<>> /\ Len(Scollateral(OELayout)) = 7
  /\ Collateral(Scollateral(OELayout)) = Named(Scollateral(OELayout))
<1>1. Scollateral(OELayout) =
        <<"pck_crl_issuer_chain", "root_ca_crl", "pck_crl", "tcb_info_issuer_chain",
          "tcb_info", "qe_identity_issuer_chain", "qe_identity">>
  BY ItemIndices DEF Scollateral, OELayout
<1>2. PICK s : s = Scollateral(OELayout)
  OBVIOUS
<1>3. s # <<>> /\ Len(s) = 7 /\ \A f \in Fields : f \in Range(s)
  <2>1. s # <<>> /\ Len(s) = 7 /\ DOMAIN s = 1 .. 7
    BY <1>1, <1>2
  <2>2. \A i \in 1 .. 7 : s[i] \in Range(s)
    BY <2>1 DEF Range
  <2>3. /\ s[1] = "pck_crl_issuer_chain" /\ s[2] = "root_ca_crl" /\ s[3] = "pck_crl"
        /\ s[4] = "tcb_info_issuer_chain" /\ s[5] = "tcb_info"
        /\ s[6] = "qe_identity_issuer_chain" /\ s[7] = "qe_identity"
    BY <1>1, <1>2
  <2> QED BY <2>1, <2>2, <2>3, FieldNames
<1>4. PICK r : r = Collateral(s)
  OBVIOUS
<1>5. r = [pck_crl_issuer_chain |-> "pck_crl_issuer_chain", root_ca_crl |-> "root_ca_crl",
           pck_crl |-> "pck_crl", tcb_info_issuer_chain |-> "tcb_info_issuer_chain",
           tcb_info |-> "tcb_info", qe_identity_issuer_chain |-> "qe_identity_issuer_chain",
           qe_identity |-> "qe_identity"]
  BY <1>1, <1>2, <1>3, <1>4 DEF Collateral, QL_QVE_Collateral
<1>6. DOMAIN r = Fields /\ r = [f \in DOMAIN r |-> r[f]] /\ \A f \in Fields : r[f] = f
  BY <1>5, FieldNames
<1>7. Named(s) = [f \in Fields |-> f]
  BY <1>3 DEF Named
<1>8. r = Named(s)
  BY <1>6, <1>7
<1> QED BY <1>2, <1>3, <1>4, <1>8

----------------------------------------------------------------------------
(***************************************************************************)
(* What arrives.                                                           *)
(***************************************************************************)
LEMMA ReportFacts == Report \in Evidence /\ SignatureData(Report) = {}
<1>1. Report.signature_len = 0 /\ Report.cd_size = 0 /\ Report.bytes = <<<<"report", 0, 0>>>>
  BY DEF Report
<1>2. NumCerts * PemSize \in Nat
  BY SizeFacts, Constants
<1>3. <<"report", 0, 0>> \in Cells
  BY DEF Cells
<1>4. Report.bytes \in Seq(Cells)
  BY <1>1, <1>3
<1>5. Report \in Evidence
  BY <1>1, <1>2, <1>4 DEF Evidence, Report
<1>6. Report.bytes[1][1] # QuoteHead[1][1]
  BY <1>1 DEF QuoteHead
<1> QED BY <1>5, <1>6 DEF SignatureData

LEMMA QuotesDiffer == Quote(<<>>) # Quote(Claims) /\ Claims # <<>>
<1>1. PICK p \in Nat : p = NumCerts * PemSize
  BY SizeFacts, Constants
<1>2. Len(Claims) = ClaimSize
  BY Constants DEF Claims
<1>3. Len(Quote(<<>>).bytes) = 2 + p + 0 /\ Len(Quote(Claims).bytes) = 2 + p + ClaimSize
  <2>1. Len(Quote(<<>>).bytes) = 2 + p + Len(<<>>)
    BY <1>1, QuoteFacts
  <2>2. Len(Quote(Claims).bytes) = 2 + p + Len(Claims)
    BY <1>1, QuoteFacts
  <2> QED BY <2>1, <2>2, <1>2
<1>4. 2 + p + 0 # 2 + p + ClaimSize
  BY Constants
<1>5. Claims # <<>>
  BY <1>2, Constants
<1> QED BY <1>3, <1>4, <1>5

LEMMA QuoteIsNoReport ==
  ASSUME NEW c \in {<<>>, Claims}
  PROVE  Quote(c) # Report
<1>1. SignatureData(Quote(c)) = {NumCerts}
  BY QuoteFacts, LaidIsRead
<1> QED BY <1>1, ReportFacts

LEMMA ArrivalFacts ==
  ASSUME arrived \in Arrivals
  PROVE  /\ arrived.source \in KnownSources \cup {"other"}
         /\ Quoted => \E c \in {<<>>, Claims} : arrived.evidence = Quote(c)
         /\ ~Quoted => arrived.evidence = Report
         /\ arrived.evidence \in Evidence
         /\ arrived.source = "openenclave" =>
              \E n \in {0, 6, 9, 10} : arrived.endorsements = SubSeq(OELayout, 1, n)
         /\ arrived.source \in {"sgx", "other"} =>
              arrived.endorsements \in {<<>>, Scollateral(OELayout)}
         /\ arrived.source \in {"sevsnp", "aci"} =>
              arrived.endorsements \in {<<>>, <<"vcek_certificate_chain">>}
         /\ arrived.source \in {"sgx", "openenclave"} => Quoted
         /\ arrived.source \in {"sevsnp", "aci"} => ~Quoted
         /\ arrived.uvm_endorsements = IF arrived.source = "aci" THEN "uvm" ELSE Nothing
<1>1. PICK x \in Sources :
        arrived \in [source : {x},
                     evidence : Evidences(x), endorsements : Endorsements(x),
                     uvm_endorsements : IF x = "aci" THEN {"uvm"} ELSE {Nothing}]
  BY DEF Arrivals
<1>2. /\ arrived.source = x /\ arrived.endorsements \in Endorsements(x)
      /\ arrived.evidence \in Evidences(x)
      /\ arrived.uvm_endorsements \in (IF x = "aci" THEN {"uvm"} ELSE {Nothing})
  BY <1>1
<1>3. arrived.source \in KnownSources \cup {"other"}
  BY <1>2, FormatsAssumption
<1>4. /\ Quoted => \E c \in {<<>>, Claims} : arrived.evidence = Quote(c)
      /\ ~Quoted => arrived.evidence = Report
  <2>1. x \in {"sgx", "sevsnp", "openenclave", "aci", "other"}
    BY FormatsAssumption DEF KnownSources
  <2>2. arrived.evidence \in {Quote(<<>>), Quote(Claims), Report}
    BY <2>1, <1>2 DEF Evidences
  <2> QED BY <2>2 DEF Quoted
<1>5. arrived.evidence \in Evidence
  BY <1>4, QuoteFacts, ReportFacts
<1>6. CASE x = "openenclave"
  <2>1. \E n \in {0, 6, 9, 10} : arrived.endorsements = SubSeq(OELayout, 1, n)
    BY <1>2, <1>6 DEF Endorsements
  <2>2. Quoted
    <3>1. arrived.evidence \in {Quote(<<>>), Quote(Claims)}
      BY <1>2, <1>6 DEF Evidences
    <3> QED BY <3>1, QuoteIsNoReport DEF Quoted
  <2> QED BY <2>1, <2>2, <1>2, <1>3, <1>4, <1>5, <1>6
<1>7. CASE x = "sgx"
  <2>1. arrived.endorsements \in {<<>>, Scollateral(OELayout)}
    BY <1>2, <1>7 DEF Endorsements
  <2>2. Quoted
    <3>1. arrived.evidence \in {Quote(<<>>), Quote(Claims)}
      BY <1>2, <1>7 DEF Evidences
    <3> QED BY <3>1, QuoteIsNoReport DEF Quoted
  <2> QED BY <2>1, <2>2, <1>2, <1>3, <1>4, <1>5, <1>7
<1>8. CASE x = "other"
  <2>1. arrived.endorsements \in {<<>>, Scollateral(OELayout)}
    BY <1>2, <1>8 DEF Endorsements
  <2> QED BY <2>1, <1>2, <1>3, <1>4, <1>5, <1>8
<1>9. CASE x \in {"sevsnp", "aci"}
  <2>1. arrived.endorsements \in {<<>>, <<"vcek_certificate_chain">>}
    BY <1>2, <1>9 DEF Endorsements
  <2>2. ~Quoted
    BY <1>2, <1>9 DEF Evidences, Quoted
  <2> QED BY <2>1, <2>2, <1>2, <1>3, <1>4, <1>5, <1>9
<1> QED BY <1>2, <1>3, <1>6, <1>7, <1>8, <1>9 DEF KnownSources

\* Endorsements of Open Enclave: none, or a beginning of the list.
LEMMA OEEndorsements ==
  ASSUME arrived \in Arrivals, arrived.source = "openenclave", arrived.endorsements # <<>>
  PROVE  /\ Collateral(Scollateral(arrived.endorsements)) = Named(arrived.endorsements)
         /\ Len(arrived.endorsements) \in Nat
         /\ ItemsParse(arrived.endorsements) <=> Len(arrived.endorsements) <= 9
<1>1. PICK n \in {0, 6, 9, 10} : arrived.endorsements = SubSeq(OELayout, 1, n)
  BY ArrivalFacts
<1>2. n # 0
  <2>1. SubSeq(OELayout, 1, 0) = <<>>
    BY DEF OELayout
  <2> QED BY <2>1, <1>1
<1>3. /\ Len(arrived.endorsements) = n /\ arrived.endorsements[1] = "version"
      /\ Collateral(Scollateral(arrived.endorsements)) = Named(arrived.endorsements)
  BY <1>1, <1>2, CollateralNamed
<1>4. ItemsParse(arrived.endorsements) <=> Len(arrived.endorsements) <= 9
  BY <1>3 DEF ItemsParse
<1> QED BY <1>3, <1>4

----------------------------------------------------------------------------
(***************************************************************************)
(* What verify sees of evidence that arrived or was compressed once.       *)
(***************************************************************************)
LEMMA OriginalQuoted ==
  ASSUME ReadAs \in {"sgx", "openenclave"}
  PROVE  Original =
           [certs |-> NumCerts,
            collateral |-> IF arrived.endorsements = <<>> THEN Nothing
                           ELSE Named(arrived.endorsements),
            claims |-> IF ReadAs = "openenclave" /\ arrived.evidence = Quote(Claims)
                       THEN Claims ELSE <<>>]
BY DEF Original, Named

LEMMA ViewOf ==
  ASSUME NEW a, NEW c, SignatureData(a.evidence) = {NumCerts}
  PROVE  SGXView(a, {c}) =
           [certs |-> NumCerts, collateral |-> Collateral(a.endorsements), claims |-> c]
<1>1. (CHOOSE n \in {NumCerts} : TRUE) = NumCerts /\ (CHOOSE x \in {c} : TRUE) = c
  OBVIOUS
<1>2. {NumCerts} # {} /\ {c} # {}
  OBVIOUS
<1> QED BY <1>1, <1>2 DEF SGXView

LEMMA SGXForm ==
  ASSUME NEW ev, arrived \in Arrivals, compressed \in Seq(BOOLEAN), ReadAs = "sgx", Quoted, Form(ev)
  PROVE  SignatureData(ev) = {NumCerts}
<1>1. PICK c \in {<<>>, Claims} : arrived.evidence = Quote(c)
  BY ArrivalFacts
<1>4. arrived.source # "openenclave"
  BY DEF ReadAs, SourceOf, KnownSources
<1>2. CASE ev = Quote(c)
  BY <1>2, QuoteFacts, LaidIsRead
<1>3. CASE ev # Quote(c)
  <2>1. PICK i \in DOMAIN compressed : ev = Compacted(compressed[i])
    BY <1>1, <1>3 DEF Form
  <2>2. compressed[i] \in BOOLEAN
    OBVIOUS
  <2>3. ev = CompressSGX(Quote(c), NumCerts, compressed[i])
    BY <1>1, <1>4, <2>1 DEF Compacted
  <2>4. Laid(ev, Der(NumCerts))
    BY <2>2, <2>3, CompressedSGXQuote
  <2> QED BY <2>4, LaidIsRead
<1> QED BY <1>2, <1>3

LEMMA SGXViewOriginal ==
  ASSUME NEW a, arrived \in Arrivals, compressed \in Seq(BOOLEAN), ReadAs = "sgx", Quoted,
         Form(a.evidence), a.endorsements = arrived.endorsements
  PROVE  SGXView(a, {<<>>}) = Original
<1>1. SGXView(a, {<<>>}) =
        [certs |-> NumCerts, collateral |-> Collateral(arrived.endorsements), claims |-> <<>>]
  BY SGXForm, ViewOf
<1>2. Collateral(arrived.endorsements) =
        IF arrived.endorsements = <<>> THEN Nothing ELSE Named(arrived.endorsements)
  <2>1. arrived.source \in {"sgx", "other"}
    BY ArrivalFacts DEF ReadAs, SourceOf, KnownSources
  <2>2. arrived.endorsements \in {<<>>, Scollateral(OELayout)}
    BY <2>1, ArrivalFacts
  <2> QED BY <2>2, SGXCollateralNamed DEF Collateral
<1> QED BY <1>1, <1>2, OriginalQuoted

\* As long as nothing is lost, Open Enclave evidence carries the claims.
LEMMA OEForm ==
  ASSUME NEW ev, arrived \in Arrivals, compressed \in Seq(BOOLEAN),
         arrived.source = "openenclave", ~Damaged, Form(ev)
  PROVE  /\ ev \in Evidence
         /\ \E c \in {<<>>, Claims} : \E e \in {Pem(NumCerts), Der(NumCerts)} :
              arrived.evidence = Quote(c) /\ Carries(ev, e, c)
<1>1. PICK c \in {<<>>, Claims} : arrived.evidence = Quote(c)
  BY ArrivalFacts
<1>2. CASE ev = Quote(c)
  <2>1. PICK l \in Nat : l = Len(c)
    BY QuoteFacts
  <2>2. PICK p \in Nat : p = NumCerts * PemSize /\ p = Len(Pem(NumCerts))
    <3>1. NumCerts \in 1 .. NumCerts
      BY Constants
    <3> QED BY <3>1, SizeFacts, EncodingFacts
  <2>3. /\ ev \in Evidence /\ Laid(ev, Pem(NumCerts)) /\ Len(ev.bytes) = 2 + p + l
        /\ \A i \in 1 .. l : ev.bytes[2 + p + i] = c[i]
    BY <1>2, <2>1, <2>2, QuoteFacts
  <2>4. c = <<>> => l = 0
    BY <2>1
  <2>5. Carries(ev, Pem(NumCerts), c)
    <3>1. 2 + p + l >= 2 + p + l /\ (l = 0 => 2 + p + l = 2 + p)
      OBVIOUS
    <3>2. Len(ev.bytes) >= 2 + Len(Pem(NumCerts)) + Len(c)
      BY <2>1, <2>2, <2>3, <3>1
    <3>3. c = <<>> => Len(ev.bytes) = 2 + Len(Pem(NumCerts))
      BY <2>2, <2>3, <2>4, <3>1
    <3>4. \A i \in 1 .. Len(c) : ev.bytes[2 + Len(Pem(NumCerts)) + i] = c[i]
      BY <2>1, <2>2, <2>3
    <3> QED BY <2>3, <3>2, <3>3, <3>4 DEF Carries
  <2> QED BY <1>1, <2>3, <2>5
<1>3. CASE ev # Quote(c)
  <2>1. PICK i \in DOMAIN compressed : ev = Compacted(compressed[i])
    BY <1>1, <1>3 DEF Form
  <2>2. PICK b \in BOOLEAN : b = compressed[i]
    OBVIOUS
  <2>3. ev = CompressOE(Quote(c), NumCerts, b)
    BY <1>1, <2>1, <2>2 DEF Compacted
  <2>4. c # <<>> \/ b = TRUE
    BY <1>1, <2>1, <2>2 DEF Damaged
  <2>5. ev \in Evidence /\ Carries(ev, Der(NumCerts), c)
    BY <2>3, <2>4, CompressedOEQuote
  <2> QED BY <1>1, <2>5
<1> QED BY <1>2, <1>3

LEMMA OEViewOriginal ==
  ASSUME NEW a, arrived \in Arrivals, compressed \in Seq(BOOLEAN),
         arrived.source = "openenclave", ~Damaged,
         Form(a.evidence), a.endorsements = arrived.endorsements
  PROVE  OEView(Extracted(a)) = Original
<1>1. PICK c \in {<<>>, Claims} : \E e \in {Pem(NumCerts), Der(NumCerts)} :
         arrived.evidence = Quote(c) /\ Carries(a.evidence, e, c)
  BY OEForm
<1>2. PICK e \in {Pem(NumCerts), Der(NumCerts)} :
         arrived.evidence = Quote(c) /\ Carries(a.evidence, e, c)
  BY <1>1
<1>3. a.evidence \in Evidence
  BY OEForm
<1>4. /\ SignatureData(Extracted(a).evidence) = {NumCerts}
      /\ CustomClaims(Extracted(a).claims) = {c}
  BY <1>2, <1>3, ExtractedReads
<1>5. OEView(Extracted(a)) =
        [certs |-> NumCerts, collateral |-> Collateral(Extracted(a).endorsements), claims |-> c]
  BY <1>4, ViewOf DEF OEView
<1>6. Collateral(Extracted(a).endorsements) =
        IF arrived.endorsements = <<>> THEN Nothing ELSE Named(arrived.endorsements)
  <2>1. Extracted(a).endorsements =
          IF arrived.endorsements = <<>> THEN <<>> ELSE Scollateral(arrived.endorsements)
    BY DEF Extracted
  <2> QED BY <2>1, OEEndorsements DEF Collateral
<1>7. c = IF arrived.evidence = Quote(Claims) THEN Claims ELSE <<>>
  BY <1>2, QuotesDiffer
<1>8. ReadAs = "openenclave"
  BY DEF ReadAs, SourceOf, KnownSources
<1> QED BY <1>5, <1>6, <1>7, <1>8, OriginalQuoted

----------------------------------------------------------------------------
(***************************************************************************)
(* The steps.                                                              *)
(***************************************************************************)
Inv == TypeOK /\ FormatInv

\* A call that neither compresses nor parses changes nothing the invariant speaks of.
LEMMA SameFrame ==
  ASSUME arrived' = arrived, compressed' = compressed, parses' = parses
  PROVE  /\ (Damaged' <=> Damaged) /\ (Sound' <=> Sound) /\ (Quoted' <=> Quoted)
         /\ Original' = Original
         /\ \A ev : Form(ev)' <=> Form(ev)
<1>1. (Damaged' <=> Damaged) /\ (Sound' <=> Sound) /\ (Quoted' <=> Quoted)
  BY DEF Damaged, Sound, ReadAs, Quoted
<1>2. Original' = Original
  BY DEF Original, ReadAs
<1>3. \A ev : Form(ev)' <=> Form(ev)
  BY DEF Form, Compacted, Quoted
<1> QED BY <1>1, <1>2, <1>3

\* Any call: what is lost stays lost, and a form stays a form.
LEMMA Later ==
  ASSUME arrived' = arrived, compressed \in Seq(BOOLEAN), parses \in Nat,
         parses' \in {parses, parses + 1},
         compressed' = compressed \/ \E b \in BOOLEAN : compressed' = Append(compressed, b)
  PROVE  /\ Damaged => Damaged'
         /\ (Sound' <=> Sound) /\ (Quoted' <=> Quoted) /\ Original' = Original
         /\ \A ev : Form(ev) => Form(ev)'
<1>1. (Sound' <=> Sound) /\ (Quoted' <=> Quoted) /\ Original' = Original
  BY DEF Sound, Quoted, Original, ReadAs
<1>2. /\ Len(compressed) \in Nat /\ Len(compressed') \in Nat /\ Len(compressed) <= Len(compressed')
      /\ \A i \in DOMAIN compressed : i \in DOMAIN compressed' /\ compressed'[i] = compressed[i]
  <2>1. CASE compressed' = compressed
    BY <2>1
  <2>2. ASSUME NEW b \in BOOLEAN, compressed' = Append(compressed, b)
        PROVE  /\ Len(compressed) \in Nat /\ Len(compressed') \in Nat
               /\ Len(compressed) <= Len(compressed')
               /\ \A i \in DOMAIN compressed :
                    i \in DOMAIN compressed' /\ compressed'[i] = compressed[i]
    BY <2>2
  <2> QED BY <2>1, <2>2
<1>3. Damaged => Damaged'
  <2>1. CASE Len(compressed) > 1
    BY <2>1, <1>2 DEF Damaged
  <2>2. CASE arrived.source = "aci" /\ parses > 1
    BY <2>2 DEF Damaged
  <2>3. CASE /\ arrived.source = "openenclave" /\ arrived.evidence = Quote(<<>>)
             /\ \E i \in DOMAIN compressed : ~compressed[i]
    BY <2>3, <1>2 DEF Damaged
  <2> QED BY <2>1, <2>2, <2>3 DEF Damaged
<1>4. ASSUME NEW ev, Form(ev) PROVE Form(ev)'
  <2>1. CASE ev = arrived.evidence
    BY <2>1 DEF Form
  <2>2. CASE Quoted /\ \E i \in DOMAIN compressed : ev = Compacted(compressed[i])
    <3>1. PICK i \in DOMAIN compressed : ev = Compacted(compressed[i])
      BY <2>2
    <3>2. i \in DOMAIN compressed' /\ compressed'[i] = compressed[i]
      BY <1>2
    <3>3. Compacted(compressed[i])' = Compacted(compressed[i])
      BY <3>2 DEF Compacted
    <3> QED BY <2>2, <3>1, <3>2, <3>3, <1>1 DEF Form
  <2> QED BY <1>4, <2>1, <2>2 DEF Form
<1> QED BY <1>1, <1>3, <1>4

\* VerifiesOriginal survives a call that does not verify.
LEMMA ResultKept ==
  ASSUME result' = result, VerifiesOriginal,
         arrived' = arrived, Damaged => Damaged', Sound' <=> Sound, Original' = Original
  PROVE  VerifiesOriginal'
BY DEF VerifiesOriginal

LEMMA Initially == Init => Inv
<1> SUFFICES ASSUME Init PROVE Inv
  OBVIOUS
<1> USE DEF Init
<1>1. /\ wire.evidence = Encoded("base64", arrived.evidence) /\ wire.source = arrived.source
      /\ wire.endorsements = IF arrived.endorsements = <<>> THEN None
                             ELSE Encoded("base64", arrived.endorsements)
  BY DEF Received, AttestationJson
<1>2. wire.evidence.form = "base64" /\ wire.evidence.of = arrived.evidence
  BY <1>1 DEF Encoded
<1>3. TypeOK
  <2>1. arrived.evidence \in Evidence
    BY ArrivalFacts
  <2>2. steps \in 0 .. MaxSteps /\ compressed \in Seq(BOOLEAN)
    BY Constants
  <2> QED BY <1>2, <2>1, <2>2 DEF TypeOK
<1>4. WireInv
  BY <1>1, <1>2 DEF WireInv
<1>5. ObjectInv /\ CacheInv /\ VerifiesOriginal
  BY DEF ObjectInv, CacheInv, VerifiesOriginal
<1>6. EvidenceInv
  BY <1>2 DEF EvidenceInv, Form
<1> QED BY <1>3, <1>4, <1>5, <1>6 DEF Inv, FormatInv

LEMMA Parses ==
  ASSUME Inv, NEW form \in {"base64", "bytes"}, Parse(form)
  PROVE  Inv'
<1> USE DEF Inv, FormatInv
<1>1. /\ steps' = steps + 1 /\ steps < MaxSteps /\ arrived' = arrived /\ wire' = wire
      /\ result' = result /\ compressed' = compressed /\ cache' = None
      /\ parses' = parses + 1 /\ att' = ParseAttestation(wire)
  BY DEF Parse, Call
<1>2. /\ arrived \in Arrivals /\ wire.evidence.of \in Evidence /\ compressed \in Seq(BOOLEAN)
      /\ parses \in Nat /\ steps \in 0 .. MaxSteps /\ wire.evidence.form \in {"base64", "bytes"}
  BY DEF TypeOK
<1>3. /\ Damaged => Damaged'
      /\ (Sound' <=> Sound) /\ (Quoted' <=> Quoted) /\ Original' = Original
      /\ \A ev : Form(ev) => Form(ev)'
  BY <1>1, <1>2, Later
<1>4. /\ att'.source = SourceOf(wire.source) /\ att'.evidence = wire.evidence.of
      /\ att'.endorsements = Decoded(wire.endorsements, <<>>)
      /\ att'.uvm_endorsements = IF SourceOf(wire.source) = "aci"
                                 THEN Decoded(wire.uvm_endorsements, Nothing) ELSE Nothing
      /\ IsObject(att')
  BY <1>1 DEF ParseAttestation, IsObject
<1>5. SourceOf(wire.source) = SourceOf(arrived.source) /\ SourceOf(wire.source) \in KnownSources
  BY DEF WireInv, SourceOf, KnownSources
<1>6. TypeOK'
  <2>1. steps' \in 0 .. MaxSteps /\ parses' \in Nat
    BY <1>1, <1>2, Constants
  <2> QED BY <1>1, <1>2, <1>4, <1>5, <2>1 DEF TypeOK
<1>7. WireInv'
  <2>1. parses' # 0
    BY <1>1, <1>2
  <2> QED BY <1>1, <2>1 DEF WireInv
<1>8. att'.endorsements = arrived.endorsements
  <2>1. CASE arrived.endorsements = <<>>
    BY <2>1, <1>4 DEF WireInv, Decoded
  <2>2. CASE arrived.endorsements # <<>>
    <3>1. wire.endorsements = Encoded(wire.evidence.form, arrived.endorsements)
      BY <2>2 DEF WireInv
    <3>2. wire.endorsements # None /\ wire.endorsements.of = arrived.endorsements
      BY <3>1 DEF Encoded, None
    <3> QED BY <3>2, <1>4 DEF Decoded
  <2> QED BY <2>1, <2>2
<1>9. ASSUME ~Damaged' PROVE att'.uvm_endorsements = arrived.uvm_endorsements
  <2>1. arrived.uvm_endorsements = IF arrived.source = "aci" THEN "uvm" ELSE Nothing
    BY <1>2, ArrivalFacts
  <2>2. (SourceOf(arrived.source) = "aci") <=> (arrived.source = "aci")
    BY DEF SourceOf, KnownSources
  <2>3. CASE arrived.source # "aci"
    BY <2>1, <2>2, <2>3, <1>4, <1>5
  <2>4. CASE arrived.source = "aci"
    <3>1. parses = 0
      BY <2>4, <1>1, <1>2, <1>9 DEF Damaged
    <3>2. wire.uvm_endorsements = Received(arrived).uvm_endorsements
      BY <3>1 DEF WireInv
    <3>3. arrived.uvm_endorsements = "uvm" /\ "uvm" # Nothing
      BY <2>1, <2>4 DEF Nothing
    <3>4. Received(arrived).uvm_endorsements = Encoded("base64", "uvm")
      BY <3>3 DEF Received, AttestationJson
    <3>5. wire.uvm_endorsements # None /\ wire.uvm_endorsements.of = "uvm"
      BY <3>2, <3>4 DEF Encoded, None
    <3> QED BY <2>2, <2>4, <3>3, <3>5, <1>4, <1>5 DEF Decoded
  <2> QED BY <2>3, <2>4
<1>10. ObjectInv'
  <2>1. parses' > 0
    BY <1>1, <1>2
  <2> QED BY <2>1, <1>1, <1>4, <1>5, <1>8, <1>9 DEF ObjectInv, IsObject
<1>11. EvidenceInv'
  <2>1. ASSUME ~Damaged' PROVE Form(wire.evidence.of)' /\ Form(att.evidence)'
    <3>1. Form(wire.evidence.of)
      BY <2>1, <1>3 DEF EvidenceInv
    <3>2. PICK ev : ev = wire.evidence.of
      OBVIOUS
    <3>3. Form(ev)'
      BY <3>1, <3>2, <1>3
    <3>4. ev = wire.evidence.of' /\ ev = att.evidence'
      BY <3>2, <1>1, <1>4
    <3> QED BY <3>3, <3>4 DEF Form
  <2> QED BY <2>1, <1>1, <1>3 DEF EvidenceInv
<1>12. CacheInv'
  BY <1>1 DEF CacheInv
<1>13. VerifiesOriginal'
  BY <1>1, <1>3, ResultKept
<1> QED BY <1>6, <1>7, <1>10, <1>11, <1>12, <1>13

LEMMA Serialises ==
  ASSUME Inv, NEW form \in {"base64", "bytes"}, Serialise(form)
  PROVE  Inv'
<1> USE DEF Inv, FormatInv
<1>1. /\ steps' = steps + 1 /\ steps < MaxSteps /\ arrived' = arrived /\ att' = att /\ att # None
      /\ result' = result /\ compressed' = compressed /\ cache' = cache
      /\ parses' = parses /\ wire' = AttestationJson(att, form)
  BY DEF Serialise, Call
<1>2. /\ (Damaged' <=> Damaged) /\ (Sound' <=> Sound) /\ (Quoted' <=> Quoted)
      /\ Original' = Original
      /\ \A ev : Form(ev)' <=> Form(ev)
  BY <1>1, SameFrame
<1>3. /\ wire'.evidence.form = form /\ wire'.evidence.of = att.evidence
      /\ wire'.source = att.source
      /\ wire'.endorsements = IF att.endorsements = <<>> THEN None
                              ELSE Encoded(form, att.endorsements)
  BY <1>1 DEF AttestationJson, Encoded
<1>4. TypeOK'
  <2>1. steps' \in 0 .. MaxSteps
    BY <1>1, Constants DEF TypeOK
  <2> QED BY <1>1, <1>3, <2>1 DEF TypeOK
<1>5. WireInv'
  <2>1. att.source = SourceOf(arrived.source) /\ att.endorsements = arrived.endorsements /\ parses > 0
    BY <1>1 DEF ObjectInv
  <2>2. parses' # 0
    BY <1>1, <2>1
  <2> QED BY <1>1, <1>3, <2>1, <2>2 DEF WireInv
<1>6. ObjectInv'
  BY <1>1, <1>2 DEF ObjectInv, IsObject
<1>7. EvidenceInv'
  <2>1. ASSUME ~Damaged' PROVE Form(wire.evidence.of)' /\ Form(att.evidence)'
    <3>1. PICK ev : ev = att.evidence
      OBVIOUS
    <3>2. Form(ev)'
      BY <2>1, <3>1, <1>1, <1>2 DEF EvidenceInv
    <3>3. ev = wire.evidence.of' /\ ev = att.evidence'
      BY <3>1, <1>1, <1>3
    <3> QED BY <3>2, <3>3 DEF Form
  <2> QED BY <2>1, <1>1, <1>2 DEF EvidenceInv
<1>8. CacheInv'
  BY <1>1, <1>2 DEF CacheInv
<1>9. VerifiesOriginal'
  BY <1>1, <1>2, ResultKept
<1> QED BY <1>4, <1>5, <1>6, <1>7, <1>8, <1>9

LEMMA Compresses ==
  ASSUME Inv, NEW b \in BOOLEAN, Compress(b)
  PROVE  Inv'
<1> USE DEF Inv, FormatInv
<1>1. /\ steps' = steps + 1 /\ steps < MaxSteps /\ arrived' = arrived /\ wire' = wire
      /\ result' = result /\ cache' = cache /\ parses' = parses
      /\ compressed' = Append(compressed, b)
      /\ att # None /\ att.source \in {"sgx", "openenclave"}
  BY DEF Compress, Call
<1>2. PICK n \in SignatureData(att.evidence) :
        att' = [att EXCEPT !.evidence = IF att.source = "sgx" THEN CompressSGX(@, n, b)
                                        ELSE CompressOE(@, n, b)]
  BY DEF Compress
<1>3. /\ arrived \in Arrivals /\ att.evidence \in Evidence /\ compressed \in Seq(BOOLEAN)
      /\ parses \in Nat /\ steps \in 0 .. MaxSteps
  BY <1>1 DEF TypeOK
<1>4. /\ Damaged => Damaged'
      /\ (Sound' <=> Sound) /\ (Quoted' <=> Quoted) /\ Original' = Original
      /\ \A ev : Form(ev) => Form(ev)'
  BY <1>1, <1>3, Later
<1>5. PICK v : v = IF att.source = "sgx" THEN CompressSGX(att.evidence, n, b)
                   ELSE CompressOE(att.evidence, n, b)
  OBVIOUS
<1>6. v \in Evidence
  BY <1>3, <1>5, CompressTyped
<1>7. att' = [source |-> att.source, evidence |-> v, endorsements |-> att.endorsements,
              uvm_endorsements |-> att.uvm_endorsements]
  <2>1. att' = [att EXCEPT !.evidence = v]
    BY <1>2, <1>5
  <2>2. IsObject(att)
    BY <1>1 DEF ObjectInv
  <2> QED BY <2>1, <2>2 DEF IsObject
<1>8. /\ IsObject(att') /\ att'.source = att.source /\ att'.evidence = v
      /\ att'.endorsements = att.endorsements /\ att'.uvm_endorsements = att.uvm_endorsements
  BY <1>7 DEF IsObject
<1>9. TypeOK'
  <2>1. steps' \in 0 .. MaxSteps /\ compressed' \in Seq(BOOLEAN)
    BY <1>1, <1>3, Constants
  <2> QED BY <1>1, <1>6, <1>8, <2>1 DEF TypeOK
<1>10. WireInv'
  BY <1>1 DEF WireInv
<1>11. ObjectInv'
  BY <1>1, <1>4, <1>8 DEF ObjectInv, IsObject
<1>12. Quoted
  <2> SUFFICES ASSUME ~Quoted PROVE FALSE
    OBVIOUS
  <2>1. compressed = <<>> /\ arrived.evidence = Report
    BY <1>3, ArrivalFacts DEF EvidenceInv
  <2>2. arrived.source \notin {"openenclave", "aci"}
    <3>1. arrived.source # "openenclave"
      BY <1>3, ArrivalFacts
    <3> QED BY <3>1, <1>1 DEF ObjectInv, SourceOf, KnownSources
  <2>3. ~Damaged
    <3>1. Len(compressed) = 0
      BY <2>1
    <3> QED BY <2>2, <3>1 DEF Damaged
  <2>4. att.evidence = Report
    BY <2>1, <2>3, <1>1 DEF EvidenceInv, Form
  <2> QED BY <2>4, ReportFacts
<1>13. EvidenceInv'
  <2>1. ASSUME ~Damaged' PROVE Form(wire.evidence.of)' /\ Form(att.evidence)'
    <3>1. compressed = <<>>
      <4>1. Len(compressed') = Len(compressed) + 1 /\ Len(compressed) \in Nat
        BY <1>1, <1>3
      <4>2. ~(Len(compressed') > 1)
        BY <2>1 DEF Damaged
      <4>3. Len(compressed) = 0
        BY <4>1, <4>2
      <4> QED BY <4>3, <1>3
    <3>2. Form(wire.evidence.of) /\ Form(att.evidence)
      BY <2>1, <1>1, <1>4 DEF EvidenceInv
    <3>3. att.evidence = arrived.evidence
      BY <3>1, <3>2 DEF Form
    <3>4. n = NumCerts
      <4>1. PICK c \in {<<>>, Claims} : arrived.evidence = Quote(c)
        BY <1>3, <1>12, ArrivalFacts
      <4>2. SignatureData(arrived.evidence) = {NumCerts}
        BY <4>1, QuoteFacts, LaidIsRead
      <4> QED BY <4>2, <3>3
    <3>5. att.source = "sgx" <=> arrived.source # "openenclave"
      BY <1>1 DEF ObjectInv, SourceOf, KnownSources
    <3>6. v = Compacted(b)
      BY <3>3, <3>4, <3>5, <1>5 DEF Compacted
    <3>7. 1 \in DOMAIN compressed' /\ compressed'[1] = b
      BY <3>1, <1>1
    <3>9. Form(v)'
      <4>1. v = Compacted(compressed[1])'
        <5>1. Compacted(compressed[1])' = Compacted(b)
          BY <3>7, <1>1 DEF Compacted
        <5> QED BY <5>1, <3>6
      <4> QED BY <4>1, <3>7, <1>4, <1>12 DEF Form
    <3>10. Form(att.evidence)'
      BY <3>9, <1>8 DEF Form
    <3>11. PICK ev : ev = wire.evidence.of /\ ev = wire.evidence.of'
      BY <1>1
    <3>12. Form(ev)'
      BY <3>2, <3>11, <1>4
    <3>13. Form(wire.evidence.of)'
      BY <3>11, <3>12 DEF Form
    <3> QED BY <3>10, <3>13
  <2> QED BY <2>1, <1>4, <1>12 DEF EvidenceInv
<1>14. CacheInv'
  <2> SUFFICES ASSUME cache # None PROVE CacheInv'
    BY <1>1 DEF CacheInv
  <2>1. att' # None
    BY <1>7 DEF None
  <2>2. arrived.source = "openenclave" /\ ItemsParse(arrived.endorsements)
    BY DEF CacheInv
  <2>3. ASSUME ~Damaged'
        PROVE  \E ev : /\ Form(ev)'
                       /\ cache = Extracted([evidence |-> ev, endorsements |-> arrived.endorsements])
    BY <2>3, <1>4 DEF CacheInv
  <2> QED BY <2>1, <2>2, <2>3, <1>1 DEF CacheInv
<1>15. VerifiesOriginal'
  BY <1>1, <1>4, ResultKept
<1> QED BY <1>9, <1>10, <1>11, <1>13, <1>14, <1>15

\* Extraction reads the evidence and the endorsements only.
LEMMA ExtractedFrom ==
  ASSUME NEW a
  PROVE  Extracted(a) = Extracted([evidence |-> a.evidence, endorsements |-> a.endorsements])
<1>1. PICK r : r = [evidence |-> a.evidence, endorsements |-> a.endorsements]
  OBVIOUS
<1>2. r.evidence = a.evidence /\ r.endorsements = a.endorsements
  BY <1>1
<1>3. Extracted(r) = Extracted(a)
  BY <1>2 DEF Extracted
<1> QED BY <1>1, <1>3

\* The copy after an extraction from the object, or unchanged.
LEMMA CacheKept ==
  ASSUME Inv, att # None, att.source = "openenclave", att' = att,
         arrived' = arrived, compressed' = compressed, parses' = parses,
         \/ cache' = cache
         \/ Extracts(att) /\ cache' = Extracted(att)
  PROVE  /\ CacheInv'
         /\ cache' # None => cache'.evidence \in Evidence
<1> USE DEF Inv, FormatInv
<1>1. /\ (Damaged' <=> Damaged)
      /\ \A ev : Form(ev)' <=> Form(ev)
  BY SameFrame
<1>2. CASE cache' = cache
  <2>1. CacheInv'
    BY <1>1, <1>2 DEF CacheInv
  <2> QED BY <2>1, <1>2 DEF TypeOK
<1>3. CASE Extracts(att) /\ cache' = Extracted(att)
  <2>1. att.source = SourceOf(arrived.source) /\ att.endorsements = arrived.endorsements
    BY DEF ObjectInv
  <2>2. arrived.source = "openenclave"
    BY <2>1 DEF SourceOf, KnownSources
  <2>3. ItemsParse(arrived.endorsements)
    <3>1. CASE arrived.endorsements = <<>>
      BY <3>1 DEF ItemsParse
    <3>2. CASE arrived.endorsements # <<>>
      BY <3>2, <1>3, <2>1 DEF Extracts
    <3> QED BY <3>1, <3>2
  <2>4. ASSUME ~Damaged
        PROVE  \E ev : /\ Form(ev)
                       /\ cache' = Extracted([evidence |-> ev, endorsements |-> arrived.endorsements])
    <3>1. Form(att.evidence)
      BY <2>4 DEF EvidenceInv
    <3>2. cache' = Extracted([evidence |-> att.evidence, endorsements |-> arrived.endorsements])
      BY <1>3, <2>1, ExtractedFrom
    <3> QED BY <3>1, <3>2
  <2>5. CacheInv'
    BY <2>2, <2>3, <2>4, <1>1 DEF CacheInv
  <2>6. cache'.evidence \in Evidence
    BY <1>3, ExtractedTyped DEF TypeOK
  <2> QED BY <2>5, <2>6
<1> QED BY <1>2, <1>3

\* What a call preserves that changes neither the object nor the wire.
LEMMA OthersKept ==
  ASSUME Inv, att' = att, wire' = wire, steps' = steps + 1, steps < MaxSteps,
         arrived' = arrived, compressed' = compressed, parses' = parses,
         CacheInv', VerifiesOriginal',
         cache' # None => att.source = "openenclave" /\ cache'.evidence \in Evidence
  PROVE  Inv'
<1> USE DEF Inv, FormatInv
<1>1. /\ (Damaged' <=> Damaged) /\ (Sound' <=> Sound) /\ (Quoted' <=> Quoted)
      /\ Original' = Original
      /\ \A ev : Form(ev)' <=> Form(ev)
  BY SameFrame
<1>2. TypeOK'
  <2>1. steps' \in 0 .. MaxSteps
    BY Constants DEF TypeOK
  <2> QED BY <2>1 DEF TypeOK
<1>3. WireInv'
  BY DEF WireInv
<1>4. ObjectInv'
  BY <1>1 DEF ObjectInv, IsObject
<1>5. EvidenceInv'
  <2>1. Form(wire.evidence.of)' <=> Form(wire.evidence.of)
    BY DEF Form, Compacted, Quoted
  <2>2. Form(att.evidence)' <=> Form(att.evidence)
    BY DEF Form, Compacted, Quoted
  <2> QED BY <1>1, <2>1, <2>2 DEF EvidenceInv
<1> QED BY <1>2, <1>3, <1>4, <1>5

LEMMA Prepares ==
  ASSUME Inv, Prepare
  PROVE  Inv'
<1>1. /\ steps' = steps + 1 /\ steps < MaxSteps /\ arrived' = arrived /\ wire' = wire
      /\ result' = result /\ compressed' = compressed /\ parses' = parses /\ att' = att
      /\ att # None /\ att.source = "openenclave" /\ Extracts(att) /\ cache' = Extracted(att)
  BY DEF Prepare, Call
<1>2. CacheInv' /\ (cache' # None => cache'.evidence \in Evidence)
  BY <1>1, CacheKept
<1>3. VerifiesOriginal'
  <2>1. (Damaged' <=> Damaged) /\ (Sound' <=> Sound) /\ Original' = Original
    BY <1>1, SameFrame
  <2> QED BY <2>1, <1>1, ResultKept DEF Inv, FormatInv
<1> QED BY <1>1, <1>2, <1>3, OthersKept

\* Only an attestation that arrived without endorsements lacks them.
LEMMA ExtractedLacks ==
  ASSUME NEW a, Extracted(a).endorsements = <<>>
  PROVE  a.endorsements = <<>>
<1>1. Scollateral(a.endorsements) # <<>>
  BY DEF Scollateral
<1> QED BY <1>1 DEF Extracted

LEMMA VerifiesOE ==
  ASSUME Inv, NEW http_responses \in BOOLEAN, VerifyOE(http_responses)
  PROVE  Inv'
<1>1. /\ steps' = steps + 1 /\ steps < MaxSteps /\ arrived' = arrived /\ wire' = wire
      /\ compressed' = compressed /\ parses' = parses /\ att' = att
      /\ att # None /\ att.source = "openenclave"
  BY DEF VerifyOE, Call
<1>2. \/ /\ cache = None /\ att.endorsements = <<>>
         /\ result' = MissingEndorsements /\ cache' = cache
      \/ /\ cache = None /\ att.endorsements # <<>> /\ ~Extracts(att)
         /\ result' = Threw /\ cache' = cache
      \/ /\ cache # None \/ (att.endorsements # <<>> /\ Extracts(att))
         /\ cache' = (IF cache = None THEN Extracted(att) ELSE cache)
         /\ result' = IF LacksEndorsements(cache', http_responses) THEN MissingEndorsements
                      ELSE OEView(cache')
  BY DEF VerifyOE
<1>3. cache' = cache \/ (Extracts(att) /\ cache' = Extracted(att))
  BY <1>2
<1>4. CacheInv' /\ (cache' # None => cache'.evidence \in Evidence)
  BY <1>1, <1>3, CacheKept
<1>5. /\ (Damaged' <=> Damaged) /\ (Sound' <=> Sound) /\ Original' = Original
      /\ \A ev : Form(ev)' <=> Form(ev)
  BY <1>1, SameFrame
<1>6. /\ att.endorsements = arrived.endorsements /\ arrived.source = "openenclave"
      /\ arrived \in Arrivals /\ compressed \in Seq(BOOLEAN)
  BY <1>1 DEF Inv, FormatInv, TypeOK, ObjectInv, SourceOf, KnownSources
<1>7. Sound <=> Len(arrived.endorsements) <= 9
  <2>1. arrived.evidence # Report
    BY <1>6, ArrivalFacts DEF Quoted
  <2> QED BY <2>1 DEF Sound
<1>8. VerifiesOriginal'
  <2>1. CASE /\ cache = None /\ att.endorsements = <<>>
             /\ result' = MissingEndorsements /\ cache' = cache
    BY <2>1, <1>1, <1>6 DEF VerifiesOriginal
  <2>2. CASE /\ cache = None /\ att.endorsements # <<>> /\ ~Extracts(att)
             /\ result' = Threw /\ cache' = cache
    <3>1. CASE ItemsParse(arrived.endorsements)
      <4>1. ~(Len(att.evidence.bytes) >= 1)
        BY <2>2, <3>1, <1>6 DEF Extracts
      <4>2. ASSUME ~Damaged PROVE FALSE
        <5>1. Form(att.evidence)
          BY <4>2, <1>1 DEF Inv, FormatInv, EvidenceInv
        <5>2. Len(att.evidence.bytes) >= 1
          <6>1. att.evidence \in Evidence
            BY <5>1, <4>2, <1>6, OEForm
          <6>2. PICK c \in {<<>>, Claims} : \E e \in {Pem(NumCerts), Der(NumCerts)} :
                   Carries(att.evidence, e, c)
            BY <5>1, <4>2, <1>6, OEForm
          <6>3. PICK e \in {Pem(NumCerts), Der(NumCerts)} : Carries(att.evidence, e, c)
            BY <6>2
          <6>4. Len(e) \in Nat
            BY Constants, EncodingFacts
          <6>5. Len(att.evidence.bytes) >= 2 + Len(e) /\ Len(att.evidence.bytes) \in Nat
            BY <6>1, <6>3, EvidenceFacts DEF Carries, Laid
          <6> QED BY <6>4, <6>5
        <5> QED BY <4>1, <5>2
      <4>3. Sound
        BY <3>1, <1>7 DEF ItemsParse
      <4> QED BY <4>2, <4>3, <1>5 DEF VerifiesOriginal
    <3>2. CASE ~ItemsParse(arrived.endorsements)
      <4>1. ~Sound
        BY <2>2, <3>2, <1>6, <1>7, OEEndorsements
      <4> QED BY <4>1, <2>2, <1>5 DEF VerifiesOriginal
    <3> QED BY <3>1, <3>2
  <2>3. CASE /\ cache # None \/ (att.endorsements # <<>> /\ Extracts(att))
             /\ cache' = (IF cache = None THEN Extracted(att) ELSE cache)
             /\ result' = IF LacksEndorsements(cache', http_responses) THEN MissingEndorsements
                          ELSE OEView(cache')
    <3>1. ItemsParse(arrived.endorsements)
      <4>1. CASE cache = None
        BY <4>1, <2>3, <1>6 DEF Extracts
      <4>2. CASE cache # None
        BY <4>2 DEF Inv, FormatInv, CacheInv
      <4> QED BY <4>1, <4>2
    <3>2. Sound
      BY <3>1, <1>7 DEF ItemsParse
    <3>3. ASSUME ~Damaged
          PROVE  /\ OEView(cache') = Original
                 /\ cache'.endorsements = <<>> => arrived.endorsements = <<>>
      <4>1. PICK ev : /\ Form(ev)
                      /\ cache' = Extracted([evidence |-> ev, endorsements |-> arrived.endorsements])
        <5>1. CASE cache = None
          <6>1. Form(att.evidence)
            BY <3>3, <1>1 DEF Inv, FormatInv, EvidenceInv
          <6>2. cache' = Extracted([evidence |-> att.evidence, endorsements |-> arrived.endorsements])
            BY <5>1, <2>3, <1>6, ExtractedFrom
          <6> QED BY <6>1, <6>2
        <5>2. CASE cache # None
          BY <3>3, <5>2, <2>3 DEF Inv, FormatInv, CacheInv
        <5> QED BY <5>1, <5>2
      <4>2. PICK a : a = [evidence |-> ev, endorsements |-> arrived.endorsements]
        OBVIOUS
      <4>3. Form(a.evidence) /\ a.endorsements = arrived.endorsements
        BY <4>1, <4>2
      <4>4. OEView(Extracted(a)) = Original
        BY <4>3, <3>3, <1>6, OEViewOriginal
      <4>5. Extracted(a).endorsements = <<>> => arrived.endorsements = <<>>
        BY <4>3, ExtractedLacks
      <4> QED BY <4>1, <4>2, <4>4, <4>5
    <3>4. ~Damaged => \/ result' = Original
                      \/ result' = MissingEndorsements /\ arrived.endorsements = <<>>
      BY <2>3, <3>3 DEF LacksEndorsements
    <3> QED BY <3>2, <3>4, <1>1, <1>5 DEF VerifiesOriginal
  <2> QED BY <1>2, <2>1, <2>2, <2>3
<1> QED BY <1>1, <1>4, <1>8, OthersKept

LEMMA VerifiesOthers ==
  ASSUME Inv, NEW http_responses \in BOOLEAN, Verify(http_responses)
  PROVE  Inv'
<1>1. /\ steps' = steps + 1 /\ steps < MaxSteps /\ arrived' = arrived /\ wire' = wire
      /\ compressed' = compressed /\ parses' = parses /\ att' = att /\ cache' = cache
      /\ att # None /\ att.source # "openenclave"
      /\ result' = IF LacksEndorsements(att, http_responses) THEN MissingEndorsements
                   ELSE IF att.source = "sgx" THEN SGXView(att, {<<>>})
                   ELSE SNPView(att)
  BY DEF Verify, Call
<1>2. cache = None
  BY <1>1 DEF Inv, TypeOK
<1>3. CacheInv'
  BY <1>1, <1>2 DEF CacheInv
<1>4. /\ (Damaged' <=> Damaged) /\ (Sound' <=> Sound) /\ Original' = Original
  BY <1>1, SameFrame
<1>5. /\ att.endorsements = arrived.endorsements /\ att.source = ReadAs
      /\ arrived \in Arrivals /\ compressed \in Seq(BOOLEAN)
      /\ ~Damaged => Form(att.evidence) /\ att.uvm_endorsements = arrived.uvm_endorsements
  BY <1>1 DEF Inv, FormatInv, TypeOK, ObjectInv, EvidenceInv, ReadAs
<1>6. \/ ReadAs = "sgx" /\ arrived.source \in {"sgx", "other"}
      \/ ReadAs = arrived.source /\ arrived.source \in {"sevsnp", "aci"}
  BY <1>1, <1>5, ArrivalFacts DEF ReadAs, SourceOf, KnownSources
<1>7. LacksEndorsements(att, http_responses) => arrived.endorsements = <<>>
  BY <1>5 DEF LacksEndorsements
<1>8. Len(arrived.endorsements) <= 9
  <2>1. CASE arrived.endorsements = <<>>
    BY <2>1
  <2>2. CASE arrived.endorsements = Scollateral(OELayout)
    <3>1. Len(arrived.endorsements) = 7
      BY <2>2, SGXCollateralNamed
    <3> QED BY <3>1
  <2>3. CASE arrived.endorsements = <<"vcek_certificate_chain">>
    BY <2>3
  <2> QED BY <1>5, <1>6, <2>1, <2>2, <2>3, ArrivalFacts
<1>9. VerifiesOriginal'
  <2>1. CASE ReadAs = "sgx" /\ Quoted
    <3>1. ~Damaged => SGXView(att, {<<>>}) = Original
      BY <2>1, <1>5, SGXViewOriginal
    <3>2. Sound
      BY <2>1, <1>8 DEF Sound, Quoted
    <3> QED BY <2>1, <3>1, <3>2, <1>1, <1>4, <1>5, <1>7 DEF VerifiesOriginal
  <2>2. CASE ReadAs = "sgx" /\ ~Quoted
    <3>1. arrived.source \notin {"openenclave", "aci"} /\ arrived.evidence = Report
      BY <2>2, <1>6 DEF Quoted
    <3>2. ~Damaged
      <4>1. compressed = <<>>
        BY <2>2 DEF Inv, FormatInv, EvidenceInv
      <4>2. Len(compressed) = 0
        BY <4>1
      <4> QED BY <3>1, <4>2 DEF Damaged
    <3>3. att.evidence = Report
      BY <2>2, <3>1, <3>2, <1>5 DEF Form
    <3>4. result' \in {Threw, MissingEndorsements}
      BY <2>2, <3>3, <1>1, <1>5, ReportFacts DEF SGXView
    <3>5. ~Sound
      BY <2>2, <3>1 DEF Sound
    <3> QED BY <3>4, <3>5, <1>4 DEF VerifiesOriginal
  <2>3. CASE ReadAs # "sgx"
    <3>1. att.source = arrived.source /\ arrived.source \in {"sevsnp", "aci"} /\ ~Quoted
      BY <2>3, <1>5, <1>6, ArrivalFacts
    <3>2. Sound
      BY <2>3, <3>1, <1>6, <1>8 DEF Sound
    <3>3. ASSUME ~Damaged PROVE SNPView(att) = Original
      <4>1. att.evidence = Report
        BY <3>1, <3>3, <1>5, ArrivalFacts DEF Form
      <4>2. att.uvm_endorsements = arrived.uvm_endorsements
        BY <3>3, <1>5
      <4>3. arrived.source = "aci" => arrived.uvm_endorsements # Nothing
        BY <1>5, ArrivalFacts DEF Nothing
      <4>4. SNPView(att) = [report |-> Report.bytes, endorsements |-> arrived.endorsements,
                            uvm_endorsements |-> arrived.uvm_endorsements]
        BY <3>1, <4>1, <4>2, <4>3, <1>5 DEF SNPView
      <4>5. Original = [report |-> Report.bytes, endorsements |-> arrived.endorsements,
                        uvm_endorsements |-> arrived.uvm_endorsements]
        BY <2>3, <3>1, <1>6 DEF Original
      <4> QED BY <4>4, <4>5
    <3>4. ~Damaged => \/ result' = Original
                      \/ result' = MissingEndorsements /\ arrived.endorsements = <<>>
      BY <2>3, <3>3, <1>1, <1>5, <1>7
    <3> QED BY <3>2, <3>4, <1>1, <1>4 DEF VerifiesOriginal
  <2> QED BY <2>1, <2>2, <2>3
<1> QED BY <1>1, <1>2, <1>3, <1>9, OthersKept

LEMMA Stutters ==
  ASSUME Inv, UNCHANGED vars
  PROVE  Inv'
<1> USE DEF Inv, FormatInv, vars
<1>1. /\ arrived' = arrived /\ wire' = wire /\ att' = att /\ cache' = cache /\ result' = result
      /\ compressed' = compressed /\ parses' = parses /\ steps' = steps
  OBVIOUS
<1>2. /\ (Damaged' <=> Damaged) /\ (Sound' <=> Sound) /\ (Quoted' <=> Quoted)
      /\ Original' = Original
      /\ \A ev : Form(ev)' <=> Form(ev)
  BY <1>1, SameFrame
<1>3. TypeOK' /\ WireInv'
  BY <1>1 DEF TypeOK, WireInv
<1>4. ObjectInv' /\ CacheInv'
  BY <1>1, <1>2 DEF ObjectInv, IsObject, CacheInv
<1>5. EvidenceInv'
  <2>1. Form(wire.evidence.of)' <=> Form(wire.evidence.of)
    BY <1>1 DEF Form, Compacted, Quoted
  <2>2. Form(att.evidence)' <=> Form(att.evidence)
    BY <1>1 DEF Form, Compacted, Quoted
  <2> QED BY <1>1, <1>2, <2>1, <2>2 DEF EvidenceInv
<1>6. VerifiesOriginal'
  BY <1>1, <1>2, ResultKept
<1> QED BY <1>3, <1>4, <1>5, <1>6

LEMMA EveryStep == Inv /\ [Next]_vars => Inv'
<1> SUFFICES ASSUME Inv, [Next]_vars PROVE Inv'
  OBVIOUS
<1>1. ASSUME NEW form \in {"base64", "bytes"}, Parse(form) PROVE Inv'
  BY <1>1, Parses
<1>2. ASSUME NEW form \in {"base64", "bytes"}, Serialise(form) PROVE Inv'
  BY <1>2, Serialises
<1>3. ASSUME NEW b \in BOOLEAN, Compress(b) PROVE Inv'
  BY <1>3, Compresses
<1>4. CASE Prepare
  BY <1>4, Prepares
<1>5. ASSUME NEW b \in BOOLEAN, VerifyOE(b) PROVE Inv'
  BY <1>5, VerifiesOE
<1>6. ASSUME NEW b \in BOOLEAN, Verify(b) PROVE Inv'
  BY <1>6, VerifiesOthers
<1>7. CASE UNCHANGED vars
  BY <1>7, Stutters
<1> QED BY <1>1, <1>2, <1>3, <1>4, <1>5, <1>6, <1>7 DEF Next

\* The invariant holds of every behaviour.
LEMMA Invariance == Spec => []Inv
<1>1. Init => Inv
  BY Initially
<1>2. Inv /\ [Next]_vars => Inv'
  BY EveryStep
<1> QED BY <1>1, <1>2, PTL DEF Spec

----------------------------------------------------------------------------
(***************************************************************************)
(* Whatever is parsed, serialised and compressed, and however often, the   *)
(* evidence in the object, on the wire and in the copy is evidence: the    *)
(* sizes that compress_pck_certificate_chain leaves never go below zero,   *)
(* and every cell it moves comes from inside the buffer.                   *)
(***************************************************************************)
THEOREM TypeCorrect == Spec => []TypeOK
<1>1. Inv => TypeOK
  BY DEF Inv
<1> QED BY <1>1, Invariance, PTL

(***************************************************************************)
(* For any number of certificates and any sizes: however the calls of the  *)
(* application follow each other, verify sees the certificates, collateral *)
(* and custom claims that arrived and misses endorsements only if none     *)
(* did; and evidence that is not what its source is read as (SGX for an    *)
(* unknown one) is thrown out.                                             *)
(***************************************************************************)
THEOREM AlwaysVerifiesOriginal == Spec => []VerifiesOriginal
<1>1. Inv => VerifiesOriginal
  BY DEF Inv, FormatInv
<1> QED BY <1>1, Invariance, PTL

(***************************************************************************)
(* The copy that oe::Attestation keeps never shows verify anything but     *)
(* what the evidence in the object would, although compression does not    *)
(* refresh it.                                                             *)
(***************************************************************************)
THEOREM CacheAlwaysCurrent == Spec => []CacheIsCurrent
<1>1. ASSUME Inv PROVE CacheIsCurrent
  <2> SUFFICES ASSUME cache # None, ~Damaged PROVE OEView(cache) = OEView(Extracted(att))
    BY DEF CacheIsCurrent
  <2>1. /\ arrived.source = "openenclave" /\ att # None /\ Form(att.evidence)
        /\ att.endorsements = arrived.endorsements
        /\ arrived \in Arrivals /\ compressed \in Seq(BOOLEAN)
    BY <1>1 DEF Inv, FormatInv, CacheInv, EvidenceInv, ObjectInv, TypeOK
  <2>2. PICK ev : /\ Form(ev)
                  /\ cache = Extracted([evidence |-> ev, endorsements |-> arrived.endorsements])
    BY <1>1 DEF Inv, FormatInv, CacheInv
  <2>3. PICK a : a = [evidence |-> ev, endorsements |-> arrived.endorsements]
    OBVIOUS
  <2>4. Form(a.evidence) /\ a.endorsements = arrived.endorsements
    BY <2>2, <2>3
  <2>5. OEView(Extracted(a)) = Original
    BY <2>1, <2>4, OEViewOriginal
  <2>6. OEView(Extracted(att)) = Original
    BY <2>1, OEViewOriginal
  <2> QED BY <2>2, <2>3, <2>5, <2>6
<1> QED BY <1>1, Invariance, PTL
=============================================================================
