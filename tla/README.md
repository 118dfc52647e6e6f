# BitGoJS in TLA+

TLA+ models of the parts of BitGoJS that keep state across rounds, requests and
restarts, TLC runs that check them on small instances, and TLAPS proofs of their
most important properties for every instance. Paths are relative to the
repository; `core` is `modules/sdk-core/src/bitgo` and `mpc` is
`modules/sdk-lib-mpc/src`.

- [The system](#the-system): inventory of the components
- [The models](#the-models): module by module, state, actions, properties
- [Runs](#runs): what each run asks, its bounds, fairness
- [Proofs](#proofs): what holds for every instance, and why
- [Disagreements found](#disagreements-found)
- [What is only model-checked, and what is not modelled](#limits)
- [Plan](#plan): what comes next

## The system

BitGoJS is a client library (and a server around it, express) for wallets whose
keys are held by several parties: it builds and verifies transactions for many
coins, talks to the BitGo server over HTTP, and takes part in signing and key
generation. Most of its code maps data to data, coin by coin. The state that
outlives a call, and with it the behaviour that is hard to get right, sits in a
few places:

| Component | State | Operations | Hard part | What makes it correct |
|---|---|---|---|---|
| DKLs signing object, `mpc/tss/ecdsa-dkls/dsg.ts` | state field, serialized session, signature | `init`, `handleIncomingMessages`, `getSession`, `setSession`, `endSession` | an await between guard and effect, replayed messages, sessions exported and imported again after a restart | one session signs one hash; rounds in order; a signature has both shares behind it |
| ECDSA MPCv2 flows, `core/utils/tss/ecdsa/ecdsaMPCv2.ts` with `core/tss/common.ts` and `core/utils/tss/baseTSSUtils.ts` | local variables over three rounds, encrypted session state that the caller carries | signing in memory and with an external signer; key generation | the server rebuilds the transaction between rounds; several flows on one request; retries; state that comes back late or mixed up | what is signed is what was fetched and verified; shares taken up once |
| MuSig2 signing, `modules/abstract-utxo/src/transaction/fixedScript/signPsbtWasm.ts`, called through `modules/express` | cache of PSBTs with secret nonces | nonce step and signature step of the external signer | two flows on one cache entry, late requests, restarts, retries | a secret nonce signs once |
| Password change, `modules/sdk-api/src/bitgoAPI.ts`, `core/keychain/keychains.ts` | keychains and login password at the server | list, re-encrypt, pack, send batches, change the login | partial failures and lost answers across many requests, repeated calls, two devices | no keychain is left under a password that is gone |
| EdDSA signing object, `mpc/tss/eddsa-mps/dsg.ts` | state, message, counterpart, state bytes, signature | `initDsg`, `getFirstMessage`, `handleIncomingMessages`, `getSession`, `restoreSession` | initialized again at any time, exports restored twice, three parties of whom two sign | as above; a new signature is of the message that the object was last given |
| Safes and MPCv2 key generation, `core/safe/safes.ts`, `createKeychains` of `core/utils/tss/ecdsa/ecdsaMPCv2.ts` and `core/utils/tss/eddsa/eddsaMPCv2.ts`, `core/keychain/keychains.ts` | the safe and the keys at the server, the ceremonies under way | initialize, one key ceremony per root slot in parallel, finalize or archive | `Promise.all` in every ceremony and `Promise.allSettled` above it, late registrations, lost answers | an active safe has whole key triplets; a failed one never becomes active |
| Wallet shares, `core/wallet/wallets.ts` | shares at the server, batches of a call | accept in bulk, accept and reject in bulk, reshare | a batch refused with 413 is cut again, other calls decide the same shares, partial answers | no entry lost or sent twice, what is reported is what the call decided, override shares reshared |
| Pending approvals, `core/pendingApproval` | state of the approval and of every approver's object, transaction | approve, reject, get | the transaction is built or signed again before or after the approval, by several approvers at once | whoever completes the approval signs or pays, once, and nobody else |
| Key generation objects, `mpc/tss/ecdsa-dkls/dkg.ts`, `mpc/tss/eddsa-mps/dkg.ts` | as the signing objects, without a hash | rounds | as the signing objects | rounds in order, one key |
| Wallets, staking, DeFi, trading, enterprises, lightning, address book, webhooks | none: clients of services | one request per method | | |
| Coin modules, utxo libraries, statics, account-lib, encryption, transport | none | functions on data | | |

How they interact: a wallet call (or an express route) starts a signing flow; the
flow creates a signing object, or calls an external signer that creates one per
round; flow and server exchange signature shares through the transaction request
at the server; the objects exchange messages that the shares carry. The external
signer of MuSig2 is called over HTTP with retries, and keeps its own cache. A
password change uses the keychain listings and the packing function. A safe is
made by key ceremonies that run in parallel, each with its own key generation and
its own registrations. A pending approval of a TSS request starts a signing flow,
before or after the approval.

`PROJECT.json` lists every component with its status, and under `hazards` every
place where this code is hard to test, with the properties that cover it.

## The models

The signing promise is stated once and implemented three times, that of a safe
once:

    SigningAgreement            what two-party signing promises
      ^ Dsg                     the objects of mpc implement it
      ^ MpsDsg                  the EdDSA objects of mpc implement it
      ^ TxSigning               the flows, the external signer and the server
                                implement it
    Musig2Signing               MuSig2 over express
    PasswordChange              changePassword
    KeychainPacking             its packing loop: the batches that
                                PasswordChange takes for granted
    SafePromise                 what the creation of a safe promises
      ^ SafeCreation            generateSafe and its key ceremonies implement it
    WalletShares                bulkAcceptShare, bulkUpdateWalletShare
    PendingApproval             approve, reject and get, with the approvers
                                as concurrent callers (TxSigning is one step)

Data is abstract throughout: a hash, session, nonce, keychain or password is a
model value; a ciphertext is the password or the hash that opens it. The
cryptography, the WASM modules and the BitGo server are external and are
modelled from how the code uses them. Definitions whose comment says "mutant"
are plausible bugs, used to show that each property can fail; nothing else uses
them.

### SigningAgreement

A party releases its final share of a session on one hash only, and a signature
comes only from the two final shares of one pair of sessions on one hash.

### Dsg

Two parties, one `Dsg` object each. `dsg[p]` holds the fields of the object
(`bytes` is `dsgSessionBytes`, `handle` tells whether `dsgSession` is set between
calls); `saved` is what callers exported; `sent` every message ever made, since
the transport may deliver any of them late, again or never.

| Action | Code |
|---|---|
| `InitNow`; `InitBegin`, `InitFinish` | `init`, without and with a pause at `await this.loadDklsWasm()` |
| `HandleRound`, `HandleRound3`, `HandleRound4`, `HandleComplete` | `handleIncomingMessages` by state; round 3 makes the last message at once, round 4 sets `Complete` before `combine()` |
| `GetSession`, `SetSession`, `EndSession` | the methods of these names |
| `Restart` | a new object; the old one, and calls that wait in it, are gone |

A party in `Careless` has a caller that replays messages, restarts, exports,
imports and ends sessions in any state, and calls `init` again while it waits;
another party is driven as `executeTillRound` does. `SetSession` imports a
session only for the hash it was exported under. The object does not check this;
its callers do, by binding the hash to the ciphertext (`validateAdata`). That
the callers really do is what `TxSigning` shows.

Properties: `StateMatchesSession` (state field and session bytes agree),
`NoRoundSkipped`, `SignatureNeedsBothShares`, `ImplementsAgreement` (which
includes that a session signs one hash), and `NobodyWaitsInVain`: of two objects
whose sessions belong together, the one that is not ahead can be handed a message
that it takes, and in the last round one that makes the signature if the hashes
agree, whatever was restarted, imported or replayed before. So a driver that hands
over what is due never gets stuck between two such objects. A session that has
refused a message, or whose counterpart has gone on with another one, can get
stuck, and the property says nothing of it. That the flows built on the objects end
is `EveryFlowEnds` of TxSigning.

### MpsDsg

The EdDSA object, three parties of whom any two sign. It differs from `Dsg` where
the code does: the message and the counterpart are chosen by `initDsg`, which has
no guard on the state and keeps the signature of the session before; the message
is part of the round state that the WASM functions return and check; an export
holds the state, the message and the counterpart, so `restoreSession` continues
only what was exported; a call that throws leaves the object as it was. Both
`initDsg` and `restoreSession` look at the state after their await only, so each
is one action. `Careless` callers do as in `Dsg`.

`GetSignature` is the field as it is: the code looks at no state, and neither
`InitDsg` nor `RestoreSession` clears it.

Properties: `NewSignatureIsOfItsMessage` (what `getSignature` returns changes only
with a new object, or when a session completes, and then it is on the message last
given and the named counterpart has released its share for it; until then the
signature of an earlier session, if there is one, goes on being returned),
`FinalShareNeedsPeer`, `ImplementsAgreement`. `SignatureOnlyInComplete` is what the
comment on `getSignature` claims; it fails, see below. One message per session, as
the agreement has it, does not exclude that a session restored in `WaitMsg1` makes
final shares with two different counterparts.

### TxSigning

One transaction request at the server, several flows. A flow is one run of
`signRequestBase` (its `Dsg` in memory) or, for those in `External`, of
`signEcdsaMPCv2TssUsingExternalSigner`. `flow[f]` holds its local variables:
`pc` says after which call it is, `view` the request as it was last returned,
`hash` what it fetched. `round1` and `round2` are the encrypted sessions that
the external signer gave out; `posts` are shares on their way.

| Action | Code |
|---|---|
| `DeleteSignatureShares`, `GetTxRequest` | the calls of these names; after a deletion the server may rebuild the transaction |
| `Round1` | `createOfflineRound1Share` and the same steps in `signRequestBase` |
| `LocalRound2/3`, `ExternalRound2/3` | the later rounds, in memory or at the external signer, with the checks of `validateAdata` and of the server's messages |
| `RepeatRound2/3` | the external signer called again, with sessions, GPG keys and requests of any time |
| `RateLimited`, `Refuse`, `Answer` | `sendSignatureShareV2`: three retries after status 429, a rejection, an answer or its loss |
| `SendTxRequest`, `Fail` | `sendTxRequest`; any awaited call that throws |
| `ServeRound1/2/3` | the server (external) |

Properties: `SignsWhatItFetched`, `TakenUpOnce`, `DoneMeansSigned`,
`ImplementsAgreement`, `FlowsAdvance` (every step of a flow and every answer to it
takes it to a later stage, takes one of its shares off the network, or uses up an
attempt, and nothing else touches it), `EveryFlowEnds`. `MayBegin` is a bound of
the model only: at most `MaxFlows` of the flows begin.

### Musig2Signing

Flows that sign one of several transactions, in one process or through an
external signer with several instances. `cache` is `PSBT_CACHE_WASM` of every
instance, a map from the unsigned transaction id to the PSBT with its secret
nonce. `requests` are calls on their way; `retryPromise` repeats a call only when
the connection was refused.

Properties: `NonceNeverReused`; `DoneMatchesItsNonce` (a returned PSBT shows the
nonce it was signed with, and if no other flow signs the transaction BitGo's
nonce belongs to that nonce); `StickySessionFindsPsbt` (the doc of
`signingStep` in `abstractUtxoCoin.ts` assumes sticky sessions: `Route[f]` with one
element is such a session, and other flows show what happens without);
`EveryFlowEnds`.

### PasswordChange

Devices of one user call `changePassword`: verify, list v1 keychains, list v2
keychains page by page (`ListV2`; a keychain whose re-encryption throws is
skipped), ask the server for the batching flow, send batches (`SendBatch`, with
retries and partial failures) and change the login (`ChangeLogin`), or send all in
one request (`ChangeAll`), which is also what follows when the batches fail. Any
request or answer may be lost, a failed call may be repeated, and other clients
add keychains meanwhile. `Fits` are the keychain sets that fit in a batch.
`MayBegin` bounds the calls of all devices together (`MaxCalls`).

Properties: `KeysFollowLogin` (when the login password is the one of a device,
every keychain it had to find opens with it, unless another device sent batches
as well), `DoneMeansChanged`, `ForeignKeysUntouched`, `CallsAdvance` (every step
of a call goes on to a later stage, reads a new page, takes keychains off what is
left for the batches, or uses up a retry), `EveryCallEnds`.

### KeychainPacking

One step is one turn of the loop of `packKeychainsFFD` over `Item`s; the order of
equal sizes is open. `Frame` is the overhead of a batch and `Body` the size of its
request. Properties: `Partition`, `WithinCapacity` (the size that a batch counts is
the sum of its keychains, and at most the capacity), `FirstFit` (no keychain could
have gone to an earlier batch; no two batches could be one), `Ends` (with batches
exactly if every keychain fits in one). `ThrowsAtOnce` (nothing is packed before
a keychain that is too large) is proved.

### SafePromise

Keys are registered for a safe that exists, each by the ceremony of its slot; the
safe becomes active once, with the whole triplets of some slots, and keeps these
root keys; the caller gets an active safe or an error; after the error, or once it
is archived, the safe never becomes active.

### SafeCreation

One call of `generateSafe`. A ceremony (one per enabled slot) is `Rounds[s]`
rounds with the server and then three registrations at once.

| Action | Code |
|---|---|
| `InitializeSafe`, `FinalizeSafe`, `ArchiveSafe` | the methods of `Safes`; each may be rejected, or lose its answer after the server has acted |
| `StartCeremony`, `Round` | `createMpc` and the rounds of `createKeychains`, with the comparison of the common keychains (`KeychainsMatch`); EdDSA takes its keychain as `CommonOf` says |
| `StartAdds`, `Encrypt`, `ServeAdd`, `LoseAnswer` | user, backup and BitGo key: encrypted, sent, registered |
| `Settle` | `Promise.all` of the registrations: it rejects on the first rejection and leaves the others running |
| `AllSettled` | `Promise.allSettled` of the ceremonies: only then the safe is finalized or archived |

Properties: `WholeTriplets` (the root keys of an active safe are whole triplets,
one per enabled slot, each of one ceremony and with shares of the keychain that
is registered), `ImplementsPromise` (the refinement of `SafePromise`; it is
about every step, so it includes that root keys never change),
`FailedSafeIsAbandoned` (after a failed ceremony the safe is never
active, is archived or reported as not archived, and no ceremony goes on),
`GenerateSafeEnds`.

### WalletShares

Calls of `bulkAcceptShare` (list, leave out what is not `Acceptable`, encrypt, cut
batches at a payload limit, put a batch back and halve the limit on status 413,
throw on any other error; `Among` filters a list, `Payload` is the size of a
request) and of
`bulkUpdateWalletShare` (prepare each share, one request, reshare the wallets of
accepted override shares) that run at the same time on the same shares. The server
takes what it likes of a request, or fails; a request whose connection breaks may
arrive later (`ServeLate`). A share is `Incoming`, or outgoing for those that the
user offers to others (`Offered`): `bulkAcceptShare` looks among the incoming ones,
`bulkUpdateWalletShare` among both (`Pending`). `Keyless` shares have no keychain
and need none to be made; `bulkAcceptShare` leaves them out and says nothing of
them, `bulkUpdateWalletShare` accepts them without a key.

Properties: `EntriesKept` (nothing is lost, repeated or reordered by the retries;
a share asked for that was in no answered request is reported as failed, or was
left out by `bulkAcceptShare` as not incoming or keyless: the caller is told of
the former and has to find out about the latter), `ReportsItsOwn` (what a call reports
is what its own requests decided), `OverridesReshared`, `CallsComeCloser` (every
step of a call makes a lexicographic measure of limit, queue and answers smaller,
and no step of another changes it), `CallsEnd` (halving ends with batches of one).

### PendingApproval

One approval at the server and one object per approver. `kind` is what is
approved; it decides when the transaction is made: built again or signed again
before the approval (`multisig`, `lite`), signed after it (`full`), paid after it
(`lightning`), nothing (`other`). `CanRecreate` is what the code computes before
`populateWallet`, that is, before an object from the list has its wallet.

| Action | Code |
|---|---|
| `Approve`, `PreApprove` | the start of `approve`, `preApprove` |
| `Rebuild` | `recreateAndSignTransaction` |
| `DeleteSignatureShares`, `SignTxRequest` | `recreateAndSignTSSTransaction`, in its two requests; its signing, also of a full request after the approval |
| `PutApproved`, `Refused`, `Answer` | the request, its rejection, its answer |
| `AfterApproval`, `AddTransfer`, `SendTxRequest` | `postApprove` by kind |
| `RejectApproval`, `Get` | `reject` (which does not update the object), `get` |
| `Fail` | a lost request or answer, or a stopped process, at any await |

Properties: `OnlyTheDeciderActs` (what is done after the approval is done by the
approver who completed it, once), `DeciderActs` (that approver does it, unless a
request of it failed), `ApprovedHasTransaction`, `CallsEnd`.

## Runs

| Run | Instance | Shows |
|---|---|---|
| `dsg` | 3 sessions, 2 hashes of 32 bytes and one of another length, 2 exports per party, 2 waiting `init` calls, one careless caller; symmetry on sessions and hashes; about 113,000 states | safety of the objects, no mutual wait, the refinement |
| `mps` | 3 parties, 2 messages, 3 sessions, 2 exports per party, one careless caller; symmetry; about 185,000 states | safety of the EdDSA objects, the refinement |
| `mps_getter` | the same | disagreement below |
| `signing` | any two of a local flow and two external flows, 2 hashes, 2 server sessions, 1 retry; about 221,000 states | safety, refinement, sessions, GPG keys and requests mixed up at the external signer, and that every flow ends |
| `musig2` | any two of two external flows and a local one, 2 transactions, 2 instances (one flow with and one without a sticky session), 2 attempts; about 206,000 states | nonce safety, and that every flow ends |
| `packing` | 5 keychains of every combination of 6 sizes around a limit of 6; about 64,000 states | the packing loop |
| `packing_json` | the same, with the bytes JSON adds | disagreement below |
| `password` | 2 devices, 2 calls in all, a v1 and 2 v2 keychains, one of them unreadable, pages of 1, batches of up to 2, 2 tries; about 506,000 states | two devices, a repeated call, every partial failure; every call ends |
| `safe` | a multisig root and an ECDSA root with 3 rounds; about 587,000 states | ceremonies that fail, register late or lose answers; the call ends |
| `shares` | 5 shares of 1 or 2 bytes, one of them keyless and one outgoing, an envelope of 1 byte, a limit of 4, a bulk acceptance and a bulk update with 2 override shares; about 482,000 states | 413 at any size, partial and late requests, competing calls, shares left out; both calls end |
| `approval` | 3 approvers, 2 of whom can sign, 2 approvals asked for, 3 calls of `approve`, all five kinds; about 186,000 states | approvals, retries, refetches and rejections in every order; every call ends |
| `approval_listed` | 1 approval asked for, objects from the list | disagreement below |

Why these bounds are enough. A violation of the signing properties takes two
sessions of one party and two hashes; the runs have at least that, and one
session more for the object. A mix-up at the external signer takes two external
flows. A nonce collision takes two flows on one transaction, and a second
transaction to go wrong by clearing too much. Packing can go wrong on sizes
below, at and above the limit, and on a batch that is opened before another one
has room again: five items and three batches reach all of these. A keychain can
be left behind by paging (two pages), by a batch (two batches, which two
keychains can be) or by a repeated call (two calls). Two ceremonies are what it
takes for one to fail while the other goes on, and the three registrations of one
for a late one. A batch that is cut again has at least two entries, and one
entry of another size makes the cut depend on the sizes; the limit goes from 4 to
0. One share of each kind that is treated differently is enough, since shares do
not depend on each other. An approval that takes two of three approvers has one that completes it, one
that does not, and one who repeats or comes late. Bounds in the guards:
`MaxSaved`, `MaxInits` (Dsg, MpsDsg), `MaxFlows` (TxSigning, Musig2Signing: the
flows that begin, of all that could), `MaxCalls` (PasswordChange,
PendingApproval: calls in all), the finite `Sid`, `BitGoSid` and `Nonce`, one
restart per signer instance. `MaxAttempts`, `RetryLimit`, `MaxRetries`,
`PageLimit`, `MaxPayload` and `Rounds` are parameters of the code; smaller values
than the code's reach the same branches.

Deadlock is not checked (`CHECK_DEADLOCK FALSE`): all of these programs end, or
stop when a caller stops.

Fairness. All fairness is weak, and is put on what the program itself schedules:
promises that are settled are resumed, so a flow goes on with what it got; an
HTTP request is answered or its connection breaks (one weak fairness condition
on the disjunction, so neither outcome is promised); a loop without an await
runs to its end. A flow or call that has begun must end; nothing is asked of one
that has not (a leads-to property), since the bound may keep it from beginning.
Nothing is assumed of the user, the server's verdicts or other clients.

## Proofs

Proved with TLAPS for every value of the constants that satisfies the
assumptions of the modules (two parties; special values outside the sets they
extend; bounds that are natural numbers; finitely many keychains of a user):

| Module | About | Theorems |
|---|---|---|
| `DsgProofs` | Dsg | `TypeCorrect`, `Invariance`, `StateAgrees`, `OneHash`, `RoundsInOrder`, `SignatureSound`, `SomeoneGoesOn`, `Refinement` |
| `TxSigningProofs` | TxSigning | `TypeCorrect`, `Invariance`, `FetchedIsSigned`, `OnceTaken`, `DoneSigned`, `FlowsDoAdvance`, `Refinement` |
| `MpsDsgProofs` | MpsDsg | `TypeCorrect`, `Invariance`, `NewSignatureIsOwn`, `PeerFirst`, `Refinement` |
| `Musig2Proofs` | Musig2Signing | `TypeCorrect`, `Invariance`, `NoncesSignOnce`, `FlowInvariance`, `DoneMatches`, `StickyFinds` |
| `PasswordChangeProofs` | PasswordChange | `TypeCorrect`, `Invariance`, `NoKeychainLeftBehind`, `DoneChanged`, `ForeignSafe`, `CallsDoAdvance` |
| `BatchingProofs` | WalletShares | `TypeCorrect`, `Invariance`, `NoEntryLost`, `ReportsOnlyItsOwn`, `OverridesAreReshared`, `CallsDoComeCloser` |
| | KeychainPacking | `PackTypeCorrect`, `PackInvariance`, `PacksEverythingOnce`, `PacksWithinCapacity`, `PacksFirstFit`, `ThrowsBeforeABatch` |
| `SafeCreationProofs` | SafeCreation | `TypeCorrect`, `Invariance`, `TripletsAreWhole`, `FailureAbandons`, `Refinement` |
| `PendingApprovalProofs` | PendingApproval | `TypeCorrect`, `Invariance`, `OneActs`, `TransactionSent`, `DeciderDoes` |

With these every safety invariant, every action property and every refinement
that a run checks is also a theorem; the type invariants are theorems of every
module, so the runs check them only as far as the other properties need them.

Every proof has the same shape: the invariant `IInv` of the component's module
holds initially, every action keeps it (one lemma or step per action, split by
conjunct), and it implies the property. Why the strengthening is needed:

- `Dsg`: `OneHashPerSession` speaks of messages only, but a second final share
  could come from any object or exported copy of the session. `HashBound` ties a
  session to one hash wherever it is; `SidOwned` keeps the sessions of the two
  parties apart; `SessionsBacked` says that the messages which brought a session
  to its round are out, which is what `NoRoundSkipped` and `NobodyWaitsInVain` need.
- `TxSigning`: `BoundToFetched` says that every session, share and final share
  of a flow is on the hash that the flow fetched; `ServerBound` that the server
  makes its own share once; `PostedOnce` that a share is in flight or was taken
  up, never both.
- `Musig2Signing`: `OnePlace` says that a nonce is in the cache, in a local flow
  or in a signature, and only once; `NoncesKnown` that a request for a signature
  carries nonces. `FlowInv` adds what the other two properties need: a flow has
  one request on its way at most, and it carries what the flow has
  (`RequestsMatch`); while a flow is alone with its transaction the signer's
  entry is empty or its own, and with a sticky session it stays there between the
  two calls (`CacheMatches`).
- `MpsDsg`: `SidOwned` gives a session one party and one message, wherever it is;
  `ObjectBacked` says that the message behind an object's or an export's state
  was sent. A complete object has signed its message (`Signed`), which is what the
  one step to `Complete` needs for `NewSignatureIsOfItsMessage`.
- `SafeCreation`: `CeremonyBound` follows a ceremony from its rounds to its
  registrations, `MadeBy` says that every key sent or registered is of its own
  ceremony, and `CallBound` that the safe is finalized only when all ceremonies
  were fulfilled, that it exists before any ceremony runs, and that it has a slot.
- `PendingApproval`: `CallBound` says what an object knows at each await,
  `ServerBound` that a request on which something is done after the approval is
  untouched before it. `DeciderDoes` assumes `Listed = {}`; without that the
  property fails, see below.
- `WalletShares`: `Listing` says that what a call has offered, has on its way and
  has left make up its list again, in order, whatever was cut and put back;
  `Reporting` that its results are the shares that it decided (`DecidedOnce`), which
  needs that a request that arrives late is of a call that has failed
  (`LateRequests`); `HasKeys` and the set `reshare` follow an override share from its
  keychain to its resharing.
- `KeychainPacking`: `Decreasing` (a later item is not larger than a packed one)
  is what makes a batch that two items share more than half full, and so gives
  `FirstFit` for pairs of batches; and it makes an item that is too large the
  first one, hence `ThrowsAtOnce`.
- `PasswordChange`: `KeysFollowLogin` speaks of the end of a call only.
  `KeysCollected` follows a keychain from the page that shows it to the batch
  that updates it, as long as the device is the only one with a batch;
  `UpdatesMatch` says that no update is for a foreign keychain or for one that
  does not exist; `CallState` ties pages, batches and retries to the phase of the
  call.

The refinement theorems (`Refinement`) prove that initial states map to initial
states and each step to a step of the abstract specification or a stutter, under
the mapping given in the module: for `SigningAgreement`, `FinalShares` in Dsg and
MpsDsg and the history variables of the same names in TxSigning; for `SafePromise`,
the safe at the server and `Outcome`, what the caller of SafeCreation was told.

Termination. That a call ends is liveness, and stays with TLC. What the code itself
contributes to it is an action property, and proved: `CallsComeCloser`,
`CallsAdvance` and `FlowsAdvance` say that no step of a call, and no answer that it
gets, leads it back, and that other calls do not touch it. Each such step goes
down in an order that has no infinite descent (stages; then sets of keychains,
pages or shares, which are finite; then retries below their bound). What is left for
fairness is that a call which is not over has a step that is taken.

Induction over data. TLAPS cannot use the induction rules of its library here (they
have an operator as a parameter). `BatchingProofs` goes another way: `LeastElement`
says that a set of natural numbers that is not empty has a least one, and
a property of a recursive function is proved by taking the least length, or the
smallest finite set, for which it would fail (`InductionOnSets`, `Recursion`). So
`Among` and `Payload`, which walk over a queue, and `Total`, the sum over a set of
keychains in whatever order they are taken, are proved about for every length;
`TotalAdds` (the sum over a set and one more) is what `WithinCapacity` rests on.

The two signing models rest on each other: `Dsg` assumes that a session is
imported for its own hash, and `TxSigning`, which checks `validateAdata`, proves
it; `TxSigning` takes the object for the session that it holds, and `Dsg` proves
what that session does under replays.

## Disagreements found

- `packing_json`: `packKeychainsFFD` counts the bytes of id and value only, so
  a full batch is a request body above `maxBatchSizeKB`, although the comment of
  `processKeychainPasswordUpdatesInBatches` says that no batch exceeds it
  (`modules/sdk-api/src/bitgoAPI.ts:2375`).
- `mps_getter`: the comment on `getSignature` of the EdDSA object says that the
  signature is "Only available once the protocol reaches `Complete`"
  (`mpc/tss/eddsa-mps/dsg.ts:239`). The code tests only that there is one (242), and
  neither `initDsg` nor `restoreSession` clears it: an object that has signed and is
  given another message returns the signature of the old one in `Init` and in every
  waiting state, until the new session completes.
- `approval_listed`: the comments of `pendingApproval.ts` say that `postApprove`
  signs a full request "if possible" (line 451) and that `populateWallet` is there
  "to ensure that self.wallet is set" (490). The TSS utilities are made by the
  constructor with the wallet it is given, and `PendingApprovals.list` gives none;
  `populateWallet` sets the wallet of the object, not that of the utilities. An
  approval from the list is then accepted by the server, and `approve` throws
  "Wallet not defined" (`core/utils/tss/baseTSSUtils.ts:66`) before it signs. Of
  the same kind: whether the transaction can be recreated is computed before
  `populateWallet` (lines 180 and 183).

Noted while modelling, and part of the models (no run is about them):

- `Dsg.init` throws "DSG session already initialized"
  (`mpc/tss/ecdsa-dkls/dsg.ts:117`), but checks this before `await
  this.loadDklsWasm()` and not after it: of two calls made before the module is
  loaded both create a session, and the second replaces the session whose first
  message the caller already has. No hash is signed twice by this (`dsg` has the
  interleaving, `InitBegin` and `InitFinish`).
- `Dsg.setSession` does not reset the signature. After a signing, the getter
  returns the old signature while the imported session is still running, and
  `endSession` refuses to end it ("Session already ended because combined
  signature was produced", line 167).
- `bulkAcceptShare` says nothing of the shares that it leaves out
  (`core/wallet/wallets.ts:1294`): a caller that asks for a pending share without a
  keychain among others gets an answer that does not mention it.
- An entry of `PSBT_CACHE_WASM` whose signature is never asked for stays for the
  life of the process (`signPsbtWasm.ts:113`).
- A v1 keychain that does not open is sent back as it was read
  (`modules/sdk-api/src/v1/keychains.ts:206`), over whatever another client has
  stored meanwhile.

## Limits

Only model-checked: liveness (`EveryFlowEnds`, `EveryCallEnds`,
`GenerateSafeEnds`, `CallsEnd`, `Ends`), since TLAPS does not reason about
fairness and ENABLED here; what is proved towards it is said above. `ThrowsAtOnce`
of KeychainPacking is proved and not part of a run.

Abstracted: the cryptography inside the WASM modules (a session accepts the
messages that were made for it, and may be left as it was or failed by one that
it refuses), message formats and PGP (a message is from its sender or refused),
the server (any answer that the code distinguishes), wall-clock pauses.

Not modelled: see the components with status `not_modelled` in `PROJECT.json`,
each with its reason. The largest are the coin modules, the utxo libraries and
`statics` (functions and tables), the older TSS flows, and the clients of
services whose methods are one request each. Most of the repository's lines are
of these kinds: tables of coins, generated protocol code, builders and parsers,
about which a model checker has nothing to say that a unit test does not. The key
generation objects (`Dkg`) are seen through their results only. In the flows that
are modelled, retrofits, passphrase changes and message formats are left out.
`DeFi` deposits are not modelled: `resumeDeposit` of
`core/defi/defiVault.ts` may race with a deposit that is still under way, and the
check for an active operation is commented out there, so there is no promise of
the code to state yet.

## Plan

Done, in this order: `SigningAgreement`, `Dsg`, `TxSigning`, `Musig2Signing`,
`KeychainPacking`, `PasswordChange` with their proofs; then `SafeCreation`,
`MpsDsg`, `WalletShares`, `PendingApproval` with theirs, the remaining invariants
of `Musig2Signing`, `SafePromise`, and the termination measures of the calls with
retries.

Next:

1. Measures for `Musig2Signing`, `SafeCreation` and `PendingApproval`, as for the
   other calls.
2. An abstract specification of an approval (decided once, acted on once, by the
   one who completed it) that `PendingApproval` implements.
3. `DklsDkg`: `mpc/tss/ecdsa-dkls/dkg.ts`, same structure as `Dsg`, with key
   refresh, under the rounds of `SafeCreation`.
4. The signing flow of `core/utils/tss/eddsa/eddsaMPCv2.ts` over `MpsDsg`.
5. `core/defi/defiVault.ts`: a deposit, its polling and its resumption.
