---------------------------- MODULE TCBEvaluation ----------------------------
(***************************************************************************)
(* What an SGX platform and its quoting enclave are measured against: the  *)
(* SGX extension of the PCK certificate (CertificateExtension), the TCB    *)
(* info (verify_tcb_json) and the QE identity (verify_qe_id), sgx_impl.h.  *)
(* SVNs are numbers; JSON numbers are cut down to their C type.            *)
(***************************************************************************)
EXTENDS Naturals, Sequences

CONSTANTS
  Component,      \* the components of comp_svn
  Extensions,     \* SGX extensions of PCK certificates
  TcbInfos,       \* signed TCB infos
  QeIdentities,   \* signed QE identities
  QeReports       \* report bodies of the quoting enclave

----------------------------------------------------------------------------
(***************************************************************************)
(* CertificateExtension.  get_uint16 puts the big-endian bytes of a        *)
(* two-byte integer together in the opposite order.                        *)
(***************************************************************************)
GetUint16(v) == IF v < 256 THEN v ELSE (v \div 256) + 256 * (v % 256)

IsUint8(v) == v < 256

\* The lengths and object ids of the two lists; their integers must fit.
ExtensionParses(ext) ==
  /\ ext.size = 5 \/ (ext.size = 7 /\ ext.config_size = 3)
  /\ \A c \in Component : IsUint8(ext.comp_svn[c])
  /\ ext.pce_svn < 65536

PlatformTCB(ext) == [comp_svn |-> ext.comp_svn, pce_svn |-> GetUint16(ext.pce_svn)]

----------------------------------------------------------------------------
\* Both lists of levels are searched for the first level that is met; one
\* without a status is overwritten by the next.
NoLevel == 0

Matching(levels, met) == {i \in 1 .. Len(levels) : i \in met /\ levels[i].status # ""}

\* Mutant: a later match replaces an earlier one.
LastLevel(levels, met) ==
  LET matching == Matching(levels, met)
  IN IF matching = {} THEN NoLevel
     ELSE CHOOSE i \in matching : \A j \in matching : i >= j

FirstLevel(levels, met) ==
  LET matching == Matching(levels, met)
  IN IF matching = {} THEN NoLevel
     ELSE CHOOSE i \in matching : \A j \in matching : i <= j

LevelMet(platform, level) ==
  /\ \A c \in Component : platform.comp_svn[c] >= level.comp_svn[c] % 256
  /\ platform.pce_svn >= level.pce_svn % 65536

TcbLevel(info, platform) ==
  FirstLevel(info.levels, {i \in 1 .. Len(info.levels) : LevelMet(platform, info.levels[i])})

\* The version stands for the type too, the dates are compared with a fixed
\* earliest one, and fmspc stands for both the FMSPC and the PCE id.  The
\* signature is over the text of tcbInfo.
VerifyTcbJson(info, ext, signer) ==
  /\ info.version = 2 /\ info.dated
  /\ info.fmspc = ext.fmspc
  /\ TcbLevel(info, PlatformTCB(ext)) # NoLevel
  /\ info.signer = signer

----------------------------------------------------------------------------
(***************************************************************************)
(* verify_qe_id after its certificate chain.  miscselect, attribute flags  *)
(* and xfrm are compared bit by bit under their masks: sets of bits here.  *)
(* mrsigner stands for mrsigner and isv_prod_id.                           *)
(***************************************************************************)
QeLevelMet(report, level) == report.isv_svn >= level.isv_svn % 65536

QeLevel(identity, report) ==
  FirstLevel(identity.levels,
             {i \in 1 .. Len(identity.levels) : QeLevelMet(report, identity.levels[i])})

RecentEnough(identity, report, historical) ==
  \/ historical
  \/ identity.levels[QeLevel(identity, report)].isv_svn % 65536 < report.isv_svn

VerifyQeIdentity(identity, report, historical, signer) ==
  /\ identity.version = 2 /\ identity.dated
  /\ QeLevel(identity, report) # NoLevel
  /\ identity.mrsigner = report.mrsigner
  /\ RecentEnough(identity, report, historical)
  /\ report.bits \cap identity.mask = identity.bits
  /\ "debug" \notin report.bits
  /\ identity.signer = signer
=============================================================================
