# Verification of ravl

ravl verifies remote attestations (Intel SGX, Open Enclave, AMD SEV-SNP, ACI).
An application hands an attestation and a set of options to the library; the
library finds out which endorsements (certificates, revocation lists, TCB
information) it lacks, downloads them through one of three HTTP clients, and
then checks signatures, certificate chains and TCB levels. This directory holds
TLA+ models of the tracker, the three HTTP clients, the choice of endorsements,
the verification itself and the formats of attestations, TLC configurations that
check them, and TLAPS proofs.

    tlc -workers 2 -config TrackerImplementsService.cfg TrackerImplementsService
    tlapm RequestTracker_proofs.tla

## Inventory

| component | state it keeps | operations | interacts with |
|---|---|---|---|
| Request tracker (`request_tracker_impl.h`) | map of requests (state, attestation, options, client, callback, claims), map of HTTP responses, two mutexes | `submit`, `state`, `finished`, `completed`, `result`, `erase`, `advance` | calls the attestation (prepare, verify) and the HTTP client; is called by the client's thread through the HTTP callback; calls the user's callback |
| `verify_synchronized`, `verify_synchronous` (`ravl_impl.h`) | a tracker, or nothing | submit, poll, result, erase | tracker; synchronous client |
| Asynchronous client (`http_client_curl.cpp`) | maps of request sets, responses and monitor threads, one mutex; libcurl handles | `submit`, `is_complete`, `erase`; per set a detached monitor thread that polls, retries and calls back | libcurl; the tracker's callback, with the mutex held |
| Synchronous client (`http_client.cpp`) | maps of request sets and responses | `submit` (downloads, retries, calls back before it returns) | libcurl |
| Fetch client (`wasm/http_client_fetch.cpp`) | like the asynchronous client, single-threaded | `submit`, completion callbacks | emscripten fetch |
| SGX / Open Enclave / SEV-SNP / ACI attestations | evidence, endorsements; Open Enclave caches the SGX attestation it unpacked | `prepare_endorsements`, `verify`, `compress_pck_certificate_chain` | options, responses, certificate chains |
| Certificate chains (`crypto.h`, `openssl.hpp`) | certificate store during one verification | load, order and verify chains, CRLs | OpenSSL |
| Attestation parsing (`attestation.cpp`) | none | JSON and CBOR | |
| C API (`capi.cpp`) | last exception message | verify JSON or CBOR | attestation (verify only) |
| Command line tool, helpers | none | | |

What is hard here, and what makes each part correct:

* The tracker runs `advance` on whichever thread calls it, and keeps a reference
  to the request without a lock while it downloads, verifies and calls back.
  Correct means: one decision per request, taken with the endorsements that the
  options ask for; claims never without a verification that justifies them; no
  callback twice; nothing used after `erase`.
* The asynchronous client reuses set ids, releases its mutex between testing for
  completion and collecting the responses, and detaches its threads. Correct
  means: each callback gets the answers to its own requests, once, eventually.
* `prepare_endorsements` and `verify` decide separately which downloads there
  are, and only the position in a list ties an answer to its purpose. Correct
  means: the two agree for every platform and every combination of options, and
  an option that asks for something fresh, or for a certain root, is honoured.
* `verify` shares one certificate store between up to four chains; a root that is
  not given is taken from the first. Correct means: one root of trust for all,
  certificates that are valid, not revoked, and a TCB level that is the highest
  the platform meets.
* UVM endorsements are a signed message with optional headers. Correct means: only
  a root of trust can vouch, for the measurement of this very report.
* An attestation may be sent on, compressed, prepared and verified in any order.
  Correct means: `verify` sees what arrived.

`PROJECT.json` lists the individual hazards with their source lines.

## Modules

**RequestTracker** models the tracker with any number of user threads, and one
thread per request on which an asynchronous client delivers. A thread has a
program counter, the id it works on and a stack of return points, because with
the synchronous client the HTTP callback runs inside `submit`, and a user
callback inside `advance`. A step is what a thread does between two points where
another thread can interfere: `Lookup`, `Switch`, `ToWaiting`,
`PrepareEndorsements`, `SubmitHTTP...`, `StoreResponses`, `AdvanceAgain`,
`ToHave`, `Verify`, `SetClaims`, `Finish`, `InvokeCallback`, `Catch` and
`AdvanceReturns` are the pieces of `advance(id, req)` in source order. An
attestation is abstracted to whether it can be prepared, whether it needs a
download and whether it carries endorsements. `Clients`, `Callbacks` and `Calls`
say how the application uses the tracker: the user callbacks are those of
`verify_synchronized` ("advance") and of the wasm test ("erase").
A thread that reaches its request after it was erased is not followed further
(`UseAfterErase`): what a dangling reference does is not bounded. An exception
that leaves a client's thread ends the process (`terminated`).

**VerificationService** is the abstract promise: a request is pending, then
verified with allowed evidence or rejected, for good, and its listener is told
once of a success. **TrackerImplementsService** is the refinement mapping, and
says what the tracker adds to it: no request is forgotten.

**CurlClient** models the asynchronous client: submissions with their objects
(requests, multi handle, `MonitorThread`), the maps keyed by the reused set id,
the mutex, and the monitor thread's loop (`Loop`, `IsComplete` with
`consume_msgs`, `complete` and `must_retry`, `Wait`, `Finish`, `CallbackReturns`,
`Stop`, `Cleanup`). Code that runs under the mutex is one step, except that the
callback separates what precedes it from what follows. `erase`, which takes no
lock, happens between steps. libcurl (`TransferEnds`, the faults "transport",
"setup" and "multi") is external.

**HttpClients** models the other two clients, one at a time (`client`). The
synchronous client runs the requests of a submission one attempt after the other
(`SyncRetry`, `SyncGivesUp`, `SyncAnswer`, `SyncReturn`); the fetch client leaves
them to the browser, which completes each through `complete` (`CompleteUnknown`,
`CompleteOutOfRange`, `CompleteRetry`, `CompleteStore`), also after its set was
erased and its id given away. Both take the number of sets as the id of a new
one. A callback returns or throws (`Returns`, `Raises`), as the tracker's does for
a request that was erased: then the code after it is skipped, and the set stays
with its responses swapped out. A write past the end of a response vector
(`overrun`), possible in the synchronous client after an erase, is not followed
further.

**Endorsements** models one verification from options to verdict: what
`prepare_endorsements` requests, what comes back, which answer `verify` takes
for what, and which root it puts into the certificate store. Open Enclave
forwards to SGX and ACI to SEV-SNP. Certificates are abstracted to the root
above them, signatures, TCB levels and UVM endorsements to one verdict.
Embedded endorsements are taken to be well-formed; a download is good, junk,
empty (a 200 without a body, which SGX takes for no root) or failed. Both ways
into `verify` are there: through `prepare_endorsements` (tracker, `verify_synchronous`) and
directly (C API).

**Verification** takes up where Endorsements abstracts: `verify` step by step,
for SGX (full and partial), SEV-SNP and ACI, over any material. Each step either
rejects or leaves a verified chain in `chains` and what was evaluated with it in
`tcb`, `qe` and `uvm`; the store changes from step to step as the code's does. It
extends three modules of operators:

* **CertificateChains**: the store, the verification parameters and what happens
  to them (`InitParam`, `SetTime`, `SetParam` in the order of
  `verify_certificate_chain`), and chain verification. `X509_verify_cert` is
  external: it climbs from the target through the stack to a certificate of the
  store, and checks times and CRLs if the parameters say so.
* **TCBEvaluation**: the SGX certificate extension with its integer conversions,
  the choice of a TCB level, the QE identity.
* **UVMEndorsements**: the COSE header with its defaults, the key found through
  the DID, the roots of trust and their SVNs, strings of character codes that are
  compared as strings, numbers or not.

**MCVerification** gives them certificates of two vendors, one expired, one
revoked, and stacks, levels, reports and messages of which each fails one check.

**AttestationFormats** models an attestation object in the hands of an
application that parses, serialises, compresses, prepares and verifies it in any
order. Evidence is a sequence of cells (quote, signature, certificates in PEM or
DER, custom claims) with the two sizes that the code keeps in it, so that moving,
cutting and rewriting have their real effect; endorsements are lists of named
items. The result of `verify` is what it reads from the object, or the exception
it throws, also for missing endorsements, which may come as HTTP responses
instead. What arrives under a source that the library does not know may be
anything, an SGX quote included. Partial verification, which looks at no
endorsements, is left to Verification.

Definitions whose comment begins with "Mutant", or names a mistake ("the size of
a full answer is misjudged by one"), stand in front of the definition they
distort; they document which mistake each property would reveal and are used
nowhere else.

## Runs

| run | checks | bounds |
|---|---|---|
| `tracker` | every interleaving of two polling threads ends in one decision with the required endorsements (`FinishedIsVerified`), one callback (`CallbackOnce`), no leftover responses (`NothingOutstanding`), no exception after FINISHED was seen (`ResultAfterFinished`), states only forward (`StateOnlyAdvances`); refinement of VerificationService (`ImplementsService`); every request whose download the client does not owe is decided, and its listener told of a success (`NeverForgotten`) | 2 users, 2 requests with the callback of `verify_synchronized`, both clients |
| `tracker_any_use` | users that advance and erase at any time, with no callback or one that erases, still never get unjustified claims (`ClaimsJustified`) | 2 users, 1 request, asynchronous client |
| `curl_sets` | answers go to their own submission (`DeliveredOwn`), once, and the two maps stay in step (`SetsPaired`), under collisions of ids, failed submissions, retries and transport errors | 3 sets of 1 request, 1 retry |
| `curl_live` | every accepted set that nobody erases is called back (`EventuallyCalledBack`), and never twice, with erase at any time | 2 sets of 1 request, 1 retry |
| `clients` | synchronous and fetch client: callbacks get their own answers (`DeliveredOwn`), once (`CalledOnce`), the maps stay in step (`SetsPaired`), every submission is called back or meets an exception (`SubmissionsSettle`), with callbacks that return or throw | 3 sets of 0 or 2 requests, 1 attempt, one answer 429 |
| `endorsements_options` | the downloads requested are the ones consumed (`PreparedIsEnough`), fresh means fresh (`FreshIsHonoured`), no missing answer is read (`AnswersPresent`), a custom root is the anchor of SEV-SNP and ACI attestations with embedded endorsements (`CustomRootIsAnchor`) | all platforms and options, 2 roots, every mix of good, empty, junk and failed downloads |
| `verification` | all chains accepted share one root of trust (`AcceptedIsAnchored`) and are valid (`ValidWhenUsed`), the TCB level is the highest met (`LevelIsHighest`), UVM endorsements come from a root of trust (`EndorsedByRootOfTrust`) | 10 certificates of 2 vendors, chains of at most 3, all options, 5 extensions, 5 TCB infos, 4 QE identities and reports, 17 messages |
| `formats` | `verify` sees what arrived (`VerifiesOriginal`), also through the copy that Open Enclave keeps (`CacheIsCurrent`) | 3 certificates of 3 cells (2 in DER), claims of 3 cells with a header of 2, 7 calls, all sources and an unknown one |

Two users and two requests are enough for a request to be advanced by its
client's thread while one user polls it and another submits; requests share no
state but the maps. One request suffices for `tracker_any_use`, where all
interference is on one id. Three sets are the least for which an id collides:
two live sets, of which the older completes first; sets of two requests let one
of them complete for the wrong set, sets of none never complete. The endorsement
model has no bound but the number of roots; a second root is what a wrong root
can be. In `verification` every certificate of the other vendor, every stack that
is short or starts elsewhere, and every faulty level, report and message takes
part; a chain has three certificates on all platforms. Seven calls allow to
parse, verify, compress, serialise, parse, prepare and verify again.

Runs that show a disagreement between code and documentation:

| run | what happens |
|---|---|
| `tracker_verify_synchronized` | `verify_synchronized` with an asynchronous client erases the request as soon as it sees FINISHED, while the client's thread is still in `advance` and uses it |
| `curl_reuse` | a submission that gets the id of a set just completed destroys the `MonitorThread` its thread still runs on |
| `chain_parameters` | `verify_certificate_chain` replaces the parameters it has just set up, and with them the CRL flags of the store and the time that `verification_time` asks for: an SGX attestation is accepted whose PCK certificate is revoked and was not valid at that time. `SomeParameterCounts` is the disjunction of `RevokedIsRejected` and `ValidAtVerificationTime`, so that one counterexample refutes both |
| `endorsements_custom_root` | a custom root, documented to override the fresh ones, never reaches the SGX store and is overwritten by SEV-SNP downloads: an attestation under another root is accepted |

Further behaviour that a user of the library should know, and that the
properties state around:

* `FinishedIsVerified` is stated for applications that leave advancing to the
  HTTP callback: a public `advance` on a waiting request goes on without the
  responses and, if the attestation carries endorsements, verifies with those.
* A request that fails ends in ERROR without its user callback. The wasm program
  waits for nothing but its callback (`wasm/test_main.cpp` 39), and so waits for
  ever when an attestation is rejected.
* Erasing a waiting request does not cancel its download, because the tracker's
  `http_client` is never set; the late callback throws on the client's thread.
* A transfer that libcurl ends for a timeout or another transport error has
  status 0, which `is_complete` of the asynchronous client takes for unanswered:
  its set is polled for ever. `EventuallyCalledBack` leaves such sets out
  (`GivenUp`).
* `PreparedIsEnough` and `FreshIsHonoured` are stated without a custom root: with
  one, SGX rejects attestations without endorsements (four answers arrive, five
  are expected) and ignores four fresh answers. `CustomRootIsAnchor` is about the
  one way in which a custom root is used; `endorsements_custom_root` shows the
  others.
* A fresh SGX root that is answered 200 without a body counts as no root, and the
  root that came with the attestation is trusted (`sgx_impl.h` 422, 1329), although
  `options.h` 25 says "Downloads a new root CA certificate". `FreshIsHonoured`
  leaves out this answer (`EmptyRoot`) and nothing else.
* The C API never downloads: `FreshIsHonoured` is about the other way in. Asked
  for fresh endorsements, it accepts the embedded ones of an SGX attestation.
* `ValidWhenUsed` is about verifications without `verification_time`, which has no
  effect (run `chain_parameters`). The statuses of the TCB and QE levels
  found are not examined. The key of the PCK CRL issuer's root is not compared
  with the manufacturer's; the anchor it shares with the other chains is.
* A quoting enclave exactly at a level of its identity is rejected unless
  `historical` is set. A PCE SVN of 256 or more is read with its bytes swapped
  (`LevelIsHighest` is about smaller ones). An SVN of the UVM endorsements that is
  no number is accepted if it is not below "0" as a string.
* In the fetch client an answer 429 throws in the browser's callback, since the
  header is looked for in a response that is still empty; the set stays for ever.
  A set without requests is never called back. An application that erases sets
  may get the answers of an erased one under a reused id. If a callback throws,
  the synchronous `submit` throws after having called back and keeps an emptied
  response set, whose id no later submission can use; the fetch client keeps the
  set for ever, and the late fetch of an erased set under the same id calls its
  callback again. `CalledOnce` and `SetsPaired` say exactly this.
* Three ways lose an attestation (`Damaged`): a second compression, which shrinks
  the evidence by what the first one saved; a compression without resizing of
  Open Enclave evidence without custom claims, after which leftover bytes are
  read as claims; and the serialisation of an ACI attestation, which leaves out
  the UVM endorsements.
* `parse` means to reject an unknown source ("unsupported attestation source",
  `attestation.cpp` 101-104), but the conversion of its name yields SGX (17-24) and
  that rejection is never reached. `VerifiesOriginal` says what happens instead:
  an SGX quote under such a source is read and verified as SGX, and anything else
  is thrown out for its evidence.

## Fairness

* Tracker: a thread inside `advance` keeps running (a synchronous download ends by
  its timeout). Nobody has to start a call, and a client need not call back for a
  set it accepted: the asynchronous one polls a transfer without an HTTP status
  for ever, and the fetch client throws on an answer 429. `NeverForgotten`
  therefore asks nothing for a request while its download is in flight; what the
  clients guarantee is in `curl_live` and `clients`.
* Asynchronous client: weak fairness for the end of each transfer (libcurl has a timeout),
  strong fairness for each monitor thread, because a thread that waits for `mtx`
  sees it free again and again and eventually gets it; each holder releases it
  after finitely many steps.
* `HttpClients`: a synchronous submission, once begun, runs on in its caller; the
  browser ends every fetch, with an answer, an error or a timeout. Weak fairness
  says so for each.

## Proofs

All theorems hold for arbitrary constants, under the assumptions on them that
the modules name (`ConstantsAssumption`, `ClientAssumption`, `HttpAssumption`,
`RootAssumption`, `SubsetAssumption`, `ChainAssumption`, `MessageAssumption`,
`VerificationAssumption`, `FormatsAssumption`). Where a theorem needs more, it says so in an `ASSUME`
of its own, named below.

`RequestTracker_proofs`, for any use of the tracker:

* `TypeCorrect`: `Spec => []TypeOK`, for any number of threads and requests. The
  lemmas `GotoType` ... `ThrowType` cover the stack discipline, `TypeStep` the
  actions, one step each.
* `ClaimsAlwaysJustified`: `Spec => []ClaimsJustified`. `ClaimsJustified` is not
  inductive: that the claims about to be stored are justified depends on what the
  verifying thread knew when it took the responses. The invariant `ClaimsInv`
  adds, per request, that only requests that need a download ever have one
  outstanding or stored (`IdOK`); per thread, what each program point implies
  (`PointOK`); and that a malformed attestation, which must fail in
  `prepare_endorsements`, is known to its submitting thread only until `submit`
  returns (`SoleOwner`), so that no second thread can push it past the failure.

`TrackerService_proofs`, for the use that the repository's polling tests make of
the tracker (`Disciplined`: users submit, poll and take results; the user
callback is none, or the one of `verify_synchronized`, which advances). The
hypothesis is needed: with a public `advance` or `erase` the properties fail, as
described above. Any number of threads and requests, both kinds of client.

* `FinishedAlwaysVerified`, `CallbackAlwaysOnce`, `NothingStaysOutstanding`,
  `ResultAlwaysAfterFinished`, `NeverDangling`. One invariant carries all five:
  `HandoverInv`. A request is worked on by one thread at a time: its submitter,
  then, while the download is in flight, nobody, then the thread that delivers.
  No lock says so; `HandoverInv` states it through the program points and return
  stacks (`ThreadInv`), at most one holder per request (`OneHolder`), what a
  download in flight excludes (`FlightInv`), what each state of a request implies
  (`RequestInv`) and what a polling user has seen (`UserInv`).
* `AlwaysAdvances`: the action property `StateOnlyAdvances`, from the same
  invariant: `Forward` lists the state changes of each step.
* `TrackerRefinesService`: `Spec => ImplementsService`, the refinement of
  `VerificationService`. Each action is shown to map to a
  submission, a decision, a notification or a stutter; that a decision is made
  once, and with allowed evidence, is what `HandoverInv` and `ClaimsInv` give.

`CurlClient_proofs`:

* `TypeCorrect`, `AlwaysCalledOnce` and `SetsAlwaysPaired` for all faults of
  libcurl and with `erase` at any time. `ClientInv` says that the maps have the
  same ids and name a submission only under the id it was given (`MapInv`), that
  a `MonitorThread` that exists is the one in the map, and that a thread that has
  called back does not poll again (`MonitorInv`), and bounds the retries
  (`RetryInv`). That a new id is in range is a fact about the cardinality of the
  map's domain.
* `AlwaysDeliveredOwn`: `DeliveredOwn` if nobody erases and the multi interface
  does not fail (`Undisturbed`, as in the run `curl_sets`). `OwnInv` adds that the
  set a thread saw complete is still the one in the map when it takes the mutex
  again.

`HttpClients_proofs`: `TypeCorrect`, `AlwaysDeliveredOwn`, `AlwaysCalledOnce`,
`SetsAlwaysPaired`, with `erase` at any time. The invariant `HttpInv`: a set in
the map is under its own id (`SetInv`); the running synchronous submission has
answers to the requests in the map, which are its own unless its id was in use
(`SyncInv`); a set whose callback threw waits for no fetch (`RaisedInv`); each
fetch that a set of the fetch client waits for is with the browser, perhaps as one
of an erased set that was sent again, and if the id was not in use it is the set's
own (`FetchInv`). Without `erase` the synchronous ids
count up and the browser only has fetches of sets in the map, so that no id is
ever shared.

`Endorsements_proofs`, for all platforms, options, roots and download results:

* `TypeCorrect`, `FreshAlwaysHonoured` (with the exception of the empty SGX root,
  which is false of the code), `AnswersAlwaysPresent`,
  `PreparedAlwaysEnough`. The invariant `Tied` says that until `verify` runs, the
  answers answer the wanted requests one by one; `SGXFresh` and `SNPFresh` follow
  each list position into the field it fills, `SGXEnough` and `SNPEnough` show
  that every field that the verification looks at is filled with the kind of
  document it parses.
* `CustomRootAnchors`: `CustomRootIsAnchor`. `SNPEmbeddedCustom` follows the custom
  root into the material, and everything accepted below it.

`Verification_proofs`, for any certificates and issuers, stacks, roots and CRLs:

* `TypeCorrect`: what chain verification returns are certificates of the stack
  or the store, and `verify` indexes no chain beyond its end.
* `AlwaysAnchored`: `AcceptedIsAnchored`. The verdict depends on what was in the
  store when each chain was verified, so the invariant follows the store: it is
  empty, or holds the root of the collateral, or holds the one certificate that
  the first chain brought; and every chain verified so far passes through it.
* `AlwaysValidWhenUsed`: `ValidWhenUsed`, without an explicit verification time,
  from what `verify_certificate_chain` leaves in the parameters.
* `AlwaysHighestLevel`: `LevelIsHighest`, if the SVNs of the levels fit the C types
  they are read into (`SvnsFit`); larger ones wrap around. That the first level
  that is met exists is taken from the well-foundedness of the naturals.
* `AlwaysEndorsed`: `EndorsedByRootOfTrust`. Each default of a missing header has
  a check that it fails, and the string comparison rejects an empty SVN.

`AttestationFormats_proofs`, for any number of certificates in the chain and any
sizes of their encodings and of the custom claims, as long as DER is shorter than
PEM and not shorter than half of it, and for known and unknown sources:

* `TypeCorrect`, `AlwaysVerifiesOriginal`, `CacheAlwaysCurrent`. The invariant
  says that until something is lost (`Damaged`), the evidence in the object, on
  the wire and in the copy of `oe::Attestation` is what arrived or that
  compressed once (`Form`); the rest ties sources, endorsements and UVM
  endorsements to what arrived (`WireInv`, `ObjectInv`).
* That all these forms read the same is a fact about positions in a buffer.
  `Laid` says that evidence has the certification data it declares, `Carries`
  that the custom claims follow the signature. A quote as it arrives satisfies
  both (`QuoteFacts`); compression writes DER over PEM, moves the claims and cuts
  the end, and satisfies both again (`CompressedSGXQuote`, `CompressedOEQuote`);
  and what satisfies them is read, or extracted and then read, as the certificates
  and claims that arrived (`LaidIsRead`, `ExtractedReads`). `CollateralNamed`
  follows each item of the endorsements into its field.

Every inductive invariant was model-checked on the instance of its run before it
was proved. Only model-checked: liveness (`NeverForgotten`, `EventuallyCalledBack`,
`SubmissionsSettle`), which is out of reach of the prover.

## Not modelled

* The data race on the request map (`submit` inserts under `responses_mtx`,
  readers hold `requests_mtx`): a corrupted `std::map` has no bounded set of
  outcomes.
* A null `http_client` (`request_tracker_impl.h` 260), which `submit` accepts and a
  request that needs a download would dereference.
* A callback that throws on the monitor thread of the asynchronous client ends the
  process; the tracker model has that end (`terminated`), CurlClient does not.
* Failing allocations. An `erase` of the asynchronous client in the middle of a
  step that holds the mutex. A user callback that submits to the client that runs
  it: it would wait for a mutex its own thread holds.
* The inside of OpenSSL, libcurl, the browser, and the CBOR, COSE, JSON and DID
  libraries; the wrappers of `openssl.hpp` that only forward to OpenSSL and keep
  no state, which are most of that file.
* Claims: the copying of report fields into the claims of each platform, and
  their output as strings and JSON.
* The build that leaves verification to an installed Open Enclave SDK
  (`RAVL_USE_OE_VERIFIER`), and the branch of `extract_sgx_attestation` for
  evidence with a plugin header, which is switched off. Custom claims buffers with
  more than one claim, of which the code can only read the first.
* Logging, hexadecimal and date helpers (`util.h`), the command line tool.

## Plan

1. *Composition* of tracker and asynchronous client: the callback runs with the
   client's mutex held; one abstract client that all three clients implement.
2. *Claims* of SEV-SNP and SGX, where fields are converted.
