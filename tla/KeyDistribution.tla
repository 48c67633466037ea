-------------------------- MODULE KeyDistribution --------------------------
(***************************************************************************)
(* Devices and the public keys they publish: DevicesService.register and   *)
(* revoke, E2eeService.publish, publishMlsKeyPackages and                  *)
(* getKeyBundleForUser, and the statements of their repositories.          *)
(*                                                                         *)
(* Only register runs in a transaction.  Every other call is a sequence of *)
(* autocommitted statements, one action each, so that calls interleave     *)
(* between any two of them and a call may fail after any of them.  Of a    *)
(* statement that claims a key, the row lock and the commit are two        *)
(* actions: what FOR UPDATE SKIP LOCKED is for lies between them.          *)
(*                                                                         *)
(* Devices are numbered in the order their rows become visible.  A signed  *)
(* prekey is named by the call that publishes it and carries the identity  *)
(* key its signature verifies under; a one-time prekey or MLS KeyPackage   *)
(* is <<kind, call, index in the batch>>.  created_at orders signed        *)
(* prekeys as their inserts commit.                                        *)
(***************************************************************************)
EXTENDS Naturals, FiniteSets

CONSTANTS
    Person,           \* people, by id
    Registration,     \* calls of POST /devices
    Revocation,       \* calls of DELETE /devices/:id
    Publication,      \* calls of POST /keys/prekeys
    MlsPublication,   \* calls of POST /keys/mls-key-packages
    Fetch,            \* calls of GET /keys/:userId
    IdentityKey,      \* identity public keys a client may publish
    MaxBatch,         \* MAX_ONE_TIME_PREKEYS_PER_BATCH = MAX_MLS_KEY_PACKAGES_PER_BATCH
    Nobody, NoCall, NoKey   \* the SQL NULLs

Call == Registration \cup Revocation \cup Publication \cup MlsPublication \cup Fetch

ASSUME KeyDistributionAssumption ==
    /\ MaxBatch \in Nat \ {0}
    /\ IsFiniteSet(Registration) /\ IsFiniteSet(Publication)
    /\ Nobody \notin Person
    /\ NoCall \notin Call
    /\ NoKey \notin IdentityKey

Kind   == {"oneTime", "mls"}
Item   == Kind \X Call \X (1..MaxBatch)
NoItem == <<"none", NoCall, 0>>
Device == 1..Cardinality(Registration)
NoDevice == 0

VARIABLES
    devices,       \* messaging_devices: [owner, status] of each device
    registerLock,  \* holder of pg_advisory_xact_lock(hashtext(person))
    identity,      \* e2ee_identity_keys: the identity key of each device
    everIdentity,  \* history: the identity keys each device has had
    signed,        \* e2ee_signed_prekeys, by the call that inserts the row
    stock,         \* e2ee_one_time_prekeys and e2ee_mls_key_packages
    rowLock,       \* the stock row a claim has locked and not yet committed
    pc,            \* the next statement of each call
    arg,           \* the request of each call
    todo,          \* the devices a call has read and not yet dealt with
    readKey,       \* the identity key publish has read for its check
    bundle,        \* the bundle a fetch is putting together
    answer,        \* the bundles a fetch has finished
    since,         \* history: the target's devices when a fetch began
    crossed        \* history: the publications of its device that a publication overlapped

tables == <<devices, registerLock, identity, everIdentity, signed, stock, rowLock>>
locals == <<arg, todo, readKey, bundle, answer, since, crossed>>
vars == <<tables, pc, locals>>

NoBundle == [device |-> NoDevice, identity |-> NoKey, signed |-> NoCall,
             oneTime |-> NoItem, mls |-> NoItem]

NoArg == [person |-> Nobody, device |-> NoDevice, identity |-> NoKey,
          signedBy |-> NoKey, batch |-> 0]

-----------------------------------------------------------------------------
(* What the repositories' queries return.                                  *)

\* messaging_devices rows that exist
Registered == {d \in Device : devices[d].status # "ABSENT"}

DevicesOf(p) == {d \in Registered : devices[d].owner = p}

\* (Mutant of ActiveDevices: the query does not look at the status.)
DevicesAnyStatus(p) == DevicesOf(p)

\* findActiveForPerson
ActiveDevices(p) ==
    {d \in DevicesOf(p) : devices[d].status = "ACTIVE"}

\* id the next inserted device row gets here
NextDevice == Cardinality(Registered) + 1

\* signed prekeys of a device that status = 'ACTIVE' selects
ActivePrekeys(d) == {s \in Publication : signed[s].device = d /\ signed[s].status = "ACTIVE"}

\* findActiveSignedPrekey: ORDER BY created_at DESC LIMIT 1, as the set of what it returns
NewestPrekey(d) ==
    {s \in ActivePrekeys(d) : \A t \in ActivePrekeys(d) : signed[t].createdAt <= signed[s].createdAt}

PrekeysCreated == Cardinality({s \in Publication : signed[s].status # "ABSENT"})

\* (Mutants of Claimable: a SELECT without FOR UPDATE SKIP LOCKED; one that does not
\* look at the device.)
ClaimableUnlocked(kind, d) ==
    {i \in Item : i[1] = kind /\ stock[i].device = d /\ stock[i].status = "AVAILABLE"}
ClaimableAnywhere(kind, d) ==
    {i \in Item : /\ i[1] = kind
                  /\ stock[i].status = "AVAILABLE"
                  /\ \A c \in Call : rowLock[c] # i}

\* the subquery of a claim: available rows of the device, locked ones skipped
Claimable(kind, d) ==
    {i \in Item : /\ i[1] = kind
                  /\ stock[i].device = d
                  /\ stock[i].status = "AVAILABLE"
                  /\ \A c \in Call : rowLock[c] # i}

\* findById and the checks of owner and status in both publish calls and in revoke
OwnsActive(p, d) == /\ d \in Registered
                    /\ devices[d].owner = p
                    /\ devices[d].status = "ACTIVE"

Ended == {"done", "refused", "failed"}
Running(c) == pc[c] \notin Ended \cup {"idle"}

Goto(c, label) == pc' = [pc EXCEPT ![c] = label]

-----------------------------------------------------------------------------
(* DevicesService.register                                                 *)

RegisterBegin(c, p) ==
    /\ pc[c] = "idle"
    /\ arg' = [arg EXCEPT ![c].person = p]
    /\ Goto(c, "lock")
    /\ UNCHANGED <<tables, todo, readKey, bundle, answer, since, crossed>>

\* (Mutant of LockFree: the transaction takes no advisory lock.)
NoLockNeeded(p) == p \in Person

LockFree(p) == registerLock[p] = NoCall

\* pg_advisory_xact_lock blocks until the holder's transaction has ended
RegisterLock(c) ==
    /\ pc[c] = "lock"
    /\ LockFree(arg[c].person)
    /\ registerLock' = [registerLock EXCEPT ![arg[c].person] = c]
    /\ Goto(c, "readActive")
    /\ UNCHANGED <<devices, identity, everIdentity, signed, stock, rowLock, locals>>

RegisterRead(c) ==
    /\ pc[c] = "readActive"
    /\ todo' = [todo EXCEPT ![c] = ActiveDevices(arg[c].person)]
    /\ Goto(c, "commit")
    /\ UNCHANGED <<tables, arg, readKey, bundle, answer, since, crossed>>

\* revoke every prior device, insert the new one, commit, which frees the lock
RegisterCommit(c) ==
    /\ pc[c] = "commit"
    /\ devices' = [d \in Device |->
                     IF d \in todo[c] THEN [devices[d] EXCEPT !.status = "REVOKED"]
                     ELSE IF d = NextDevice THEN [owner |-> arg[c].person, status |-> "ACTIVE"]
                     ELSE devices[d]]
    /\ registerLock' = [registerLock EXCEPT ![arg[c].person] = NoCall]
    /\ Goto(c, "done")
    /\ UNCHANGED <<identity, everIdentity, signed, stock, rowLock, locals>>

-----------------------------------------------------------------------------
(* DevicesService.revoke: a read, then a write by id, with no transaction. *)

RevokeRead(c, p, d) ==
    /\ pc[c] = "idle"
    /\ IF OwnsActive(p, d)
       THEN todo' = [todo EXCEPT ![c] = {d}] /\ Goto(c, "revoke")
       ELSE Goto(c, "refused") /\ UNCHANGED todo
    /\ UNCHANGED <<tables, arg, readKey, bundle, answer, since, crossed>>

RevokeWrite(c) ==
    /\ pc[c] = "revoke"
    /\ devices' = [d \in Device |->
                     IF d \in todo[c] THEN [devices[d] EXCEPT !.status = "REVOKED"]
                     ELSE devices[d]]
    /\ Goto(c, "done")
    /\ UNCHANGED <<registerLock, identity, everIdentity, signed, stock, rowLock, locals>>

-----------------------------------------------------------------------------
(* E2eeService.publish: up to five statements, each committed by itself.   *)

PublishRequest(d) ==
    [person : Person, device : {d}, identity : IdentityKey \cup {NoKey},
     signedBy : IdentityKey \cup {NoKey}, batch : 0..(MaxBatch + 1)]

\* where a publication goes once its optional parts so far are dealt with
AfterSigned(r)   == IF r.batch > 0 THEN "oneTime" ELSE "done"
AfterIdentity(r) == IF r.signedBy # NoKey THEN "readIdentity" ELSE AfterSigned(r)
AfterCheck(r)    == IF r.identity # NoKey THEN "identity" ELSE AfterIdentity(r)

\* the publications that run for device d when c begins
Rivals(c, d) == {o \in Publication \ {c} : Running(o) /\ arg[o].device = d}

\* c begins: it and each of its rivals overlap
Crossing(c, d) ==
    [o \in Publication |-> IF o = c THEN Rivals(c, d)
                            ELSE IF o \in Rivals(c, d) THEN crossed[o] \cup {c}
                            ELSE crossed[o]]

PublishCheck(c, r) ==
    /\ pc[c] = "idle"
    /\ arg' = [arg EXCEPT ![c] = r]
    /\ IF OwnsActive(r.person, r.device)
       THEN Goto(c, AfterCheck(r)) /\ crossed' = Crossing(c, r.device)
       ELSE Goto(c, "refused") /\ UNCHANGED crossed
    /\ UNCHANGED <<tables, todo, readKey, bundle, answer, since>>

\* upsertIdentityKey
PublishIdentity(c) ==
    LET d == arg[c].device
        k == arg[c].identity
    IN  /\ pc[c] = "identity"
        /\ identity' = [identity EXCEPT ![d] = k]
        /\ everIdentity' = [everIdentity EXCEPT ![d] = @ \cup {k}]
        /\ Goto(c, AfterIdentity(arg[c]))
        /\ UNCHANGED <<devices, registerLock, signed, stock, rowLock, locals>>

PublishReadIdentity(c) ==
    /\ pc[c] = "readIdentity"
    /\ readKey' = [readKey EXCEPT ![c] = identity[arg[c].device]]
    /\ Goto(c, "verify")
    /\ UNCHANGED <<tables, arg, todo, bundle, answer, since, crossed>>

\* (Mutants of SignatureVerifies: an identity key is enough; any that the device has
\* had will do.)
IdentityPresent(c) == readKey[c] # NoKey
VerifiesUnderAny(c) == readKey[c] # NoKey /\ arg[c].signedBy \in everIdentity[arg[c].device]

\* verifyEd25519Signature against the identity key that was read
SignatureVerifies(c) == readKey[c] # NoKey /\ arg[c].signedBy = readKey[c]

\* (Mutant of Retired: only the prekeys of the present identity key are retired.)
RetiredOfIdentity(d) ==
    [s \in Publication |->
        IF s \in ActivePrekeys(d) /\ signed[s].signedBy = identity[d]
        THEN [signed[s] EXCEPT !.status = "EXPIRED"] ELSE signed[s]]

\* retireActiveSignedPrekeys
Retired(d) ==
    [s \in Publication |->
        IF s \in ActivePrekeys(d) THEN [signed[s] EXCEPT !.status = "EXPIRED"]
        ELSE signed[s]]

PublishRetire(c) ==
    /\ pc[c] = "verify"
    /\ IF SignatureVerifies(c)
       THEN signed' = Retired(arg[c].device) /\ Goto(c, "create")
       ELSE Goto(c, "refused") /\ UNCHANGED signed
    /\ UNCHANGED <<devices, registerLock, identity, everIdentity, stock, rowLock, locals>>

\* createSignedPrekey
PublishCreate(c) ==
    /\ pc[c] = "create"
    /\ signed' = [signed EXCEPT ![c] =
                    [device |-> arg[c].device, signedBy |-> arg[c].signedBy,
                     status |-> "ACTIVE", createdAt |-> PrekeysCreated + 1]]
    /\ Goto(c, AfterSigned(arg[c]))
    /\ UNCHANGED <<devices, registerLock, identity, everIdentity, stock, rowLock, locals>>

\* the rows one multi-row INSERT of a batch adds
Stocked(kind, c) ==
    [i \in Item |->
        IF i[1] = kind /\ i[2] = c /\ i[3] <= arg[c].batch
        THEN [device |-> arg[c].device, status |-> "AVAILABLE"]
        ELSE stock[i]]

\* bulkCreateOneTimePrekeys, behind a size check the parts above have passed by
PublishOneTime(c) ==
    /\ pc[c] = "oneTime"
    /\ IF arg[c].batch <= MaxBatch
       THEN stock' = Stocked("oneTime", c) /\ Goto(c, "done")
       ELSE Goto(c, "refused") /\ UNCHANGED stock
    /\ UNCHANGED <<devices, registerLock, identity, everIdentity, signed, rowLock, locals>>

-----------------------------------------------------------------------------
(* E2eeService.publishMlsKeyPackages                                       *)

MlsCheck(c, p, d, n) ==
    /\ pc[c] = "idle"
    /\ arg' = [arg EXCEPT ![c] = [NoArg EXCEPT !.person = p, !.device = d, !.batch = n]]
    /\ Goto(c, IF OwnsActive(p, d) /\ n <= MaxBatch THEN "storeMls" ELSE "refused")
    /\ UNCHANGED <<tables, todo, readKey, bundle, answer, since, crossed>>

MlsStore(c) ==
    /\ pc[c] = "storeMls"
    /\ stock' = Stocked("mls", c)
    /\ Goto(c, "done")
    /\ UNCHANGED <<devices, registerLock, identity, everIdentity, signed, rowLock, locals>>

-----------------------------------------------------------------------------
(* E2eeService.getKeyBundleForUser                                         *)

\* the actor is not the target; authorizeMessaging then says DENY or not
FetchAuthorize(c, p, denied) ==
    /\ pc[c] = "idle"
    /\ arg' = [arg EXCEPT ![c].person = p]
    /\ since' = [since EXCEPT ![c] = DevicesOf(p)]
    /\ Goto(c, IF denied THEN "refused" ELSE "devices")
    /\ UNCHANGED <<tables, todo, readKey, bundle, answer, crossed>>

FetchDevices(c) ==
    /\ pc[c] = "devices"
    /\ todo' = [todo EXCEPT ![c] = ActiveDevices(arg[c].person)]
    /\ Goto(c, IF ActiveDevices(arg[c].person) = {} THEN "refused" ELSE "bundle")
    /\ UNCHANGED <<tables, arg, readKey, bundle, answer, since, crossed>>

\* findIdentityKey of the loop's next device
FetchIdentity(c, d) ==
    /\ pc[c] = "bundle"
    /\ d \in todo[c]
    /\ todo' = [todo EXCEPT ![c] = @ \ {d}]
    /\ bundle' = [bundle EXCEPT ![c] =
                    [NoBundle EXCEPT !.device = d, !.identity = identity[d]]]
    /\ Goto(c, "signed")
    /\ UNCHANGED <<tables, arg, readKey, answer, since, crossed>>

FetchSigned(c) ==
    /\ pc[c] = "signed"
    /\ \/ \E s \in NewestPrekey(bundle[c].device) :
            bundle' = [bundle EXCEPT ![c].signed = s]
       \/ NewestPrekey(bundle[c].device) = {} /\ UNCHANGED bundle
    /\ Goto(c, "claimOneTime")
    /\ UNCHANGED <<tables, arg, todo, readKey, answer, since, crossed>>

\* the subquery of a claim locks a row, or finds none and the claim returns null
ClaimLock(c, kind, here, commit, next) ==
    /\ pc[c] = here
    /\ \/ \E i \in Claimable(kind, bundle[c].device) :
            /\ rowLock' = [rowLock EXCEPT ![c] = i]
            /\ Goto(c, commit)
       \/ /\ Claimable(kind, bundle[c].device) = {}
          /\ Goto(c, next)
          /\ UNCHANGED rowLock
    /\ UNCHANGED <<devices, registerLock, identity, everIdentity, signed, stock, locals>>

\* the UPDATE's commit: the row is CONSUMED and unlocked, and returned
ClaimCommitted(c) ==
    /\ stock' = [stock EXCEPT ![rowLock[c]].status = "CONSUMED"]
    /\ rowLock' = [rowLock EXCEPT ![c] = NoItem]
    /\ UNCHANGED <<devices, registerLock, identity, everIdentity, signed,
                   arg, todo, readKey, answer, since, crossed>>

FetchClaimOneTime(c) == ClaimLock(c, "oneTime", "claimOneTime", "commitOneTime", "claimMls")

FetchCommitOneTime(c) ==
    /\ pc[c] = "commitOneTime"
    /\ bundle' = [bundle EXCEPT ![c].oneTime = rowLock[c]]
    /\ Goto(c, "claimMls")
    /\ ClaimCommitted(c)

FetchClaimMls(c) == ClaimLock(c, "mls", "claimMls", "commitMls", "push")

FetchCommitMls(c) ==
    /\ pc[c] = "commitMls"
    /\ bundle' = [bundle EXCEPT ![c].mls = rowLock[c]]
    /\ Goto(c, "push")
    /\ ClaimCommitted(c)

\* bundles.push, then the loop's next device or the reply
FetchPush(c) ==
    /\ pc[c] = "push"
    /\ answer' = [answer EXCEPT ![c] = @ \cup {bundle[c]}]
    /\ bundle' = [bundle EXCEPT ![c] = NoBundle]
    /\ Goto(c, IF todo[c] = {} THEN "done" ELSE "bundle")
    /\ UNCHANGED <<tables, arg, todo, readKey, since, crossed>>

-----------------------------------------------------------------------------
(* A call may fail between any two statements: a lost connection, a         *)
(* statement's error, the end of its process.  PostgreSQL then rolls its   *)
(* open transaction back, which frees what it had locked.                  *)

\* the advisory locks once the call's transaction is rolled back
Unlocked(c) == [p \in Person |-> IF registerLock[p] = c THEN NoCall ELSE registerLock[p]]

Fail(c) ==
    /\ Running(c)
    /\ registerLock' = Unlocked(c)
    /\ rowLock' = [rowLock EXCEPT ![c] = NoItem]
    /\ Goto(c, "failed")
    /\ UNCHANGED <<devices, identity, everIdentity, signed, stock, locals>>

-----------------------------------------------------------------------------
NoDeviceRow == [owner |-> Nobody, status |-> "ABSENT"]
NoPrekeyRow == [device |-> NoDevice, signedBy |-> NoKey, status |-> "ABSENT", createdAt |-> 0]
NoStockRow  == [device |-> NoDevice, status |-> "ABSENT"]

Init ==
    /\ devices = [d \in Device |-> NoDeviceRow]
    /\ registerLock = [p \in Person |-> NoCall]
    /\ identity = [d \in Device |-> NoKey]
    /\ everIdentity = [d \in Device |-> {}]
    /\ signed = [s \in Publication |-> NoPrekeyRow]
    /\ stock = [i \in Item |-> NoStockRow]
    /\ rowLock = [c \in Call |-> NoItem]
    /\ pc = [c \in Call |-> "idle"]
    /\ arg = [c \in Call |-> NoArg]
    /\ todo = [c \in Call |-> {}]
    /\ readKey = [c \in Call |-> NoKey]
    /\ bundle = [c \in Call |-> NoBundle]
    /\ answer = [c \in Call |-> {}]
    /\ since = [c \in Call |-> {}]
    /\ crossed = [c \in Publication |-> {}]

RegisterStep(c) == RegisterLock(c) \/ RegisterRead(c) \/ RegisterCommit(c)
PublishStep(c) == \/ PublishIdentity(c) \/ PublishReadIdentity(c) \/ PublishRetire(c)
                  \/ PublishCreate(c) \/ PublishOneTime(c)
FetchStep(c) == \/ FetchDevices(c) \/ (\E d \in Device : FetchIdentity(c, d)) \/ FetchSigned(c)
                \/ FetchClaimOneTime(c) \/ FetchCommitOneTime(c)
                \/ FetchClaimMls(c) \/ FetchCommitMls(c) \/ FetchPush(c)

\* requests that arrive
Begin ==
    \/ \E c \in Registration, p \in Person : RegisterBegin(c, p)
    \/ \E c \in Revocation, p \in Person, d \in Device : RevokeRead(c, p, d)
    \/ \E c \in Publication, d \in Device : \E r \in PublishRequest(d) : PublishCheck(c, r)
    \/ \E c \in MlsPublication, p \in Person, d \in Device, n \in 0..(MaxBatch + 1) :
          MlsCheck(c, p, d, n)
    \/ \E c \in Fetch, p \in Person, denied \in BOOLEAN : FetchAuthorize(c, p, denied)

\* the next statement of a call that has begun
Proceed(c) ==
    \/ c \in Registration /\ RegisterStep(c)
    \/ c \in Revocation /\ RevokeWrite(c)
    \/ c \in Publication /\ PublishStep(c)
    \/ c \in MlsPublication /\ MlsStore(c)
    \/ c \in Fetch /\ FetchStep(c)

AllEnded == (\A c \in Call : pc[c] \in Ended) /\ UNCHANGED vars

Next ==
    \/ Begin
    \/ \E c \in Call : Proceed(c) \/ Fail(c)
    \/ AllEnded

Spec == Init /\ [][Next]_vars

-----------------------------------------------------------------------------
(* Properties                                                              *)

Label == {"idle", "lock", "readActive", "commit", "revoke", "identity", "readIdentity",
          "verify", "create", "oneTime", "storeMls", "devices", "bundle", "signed",
          "claimOneTime", "commitOneTime", "claimMls", "commitMls", "push"} \cup Ended

AnyDevice == Device \cup {NoDevice}
AnyKey    == IdentityKey \cup {NoKey}
Bundles   == [device : AnyDevice, identity : AnyKey, signed : Publication \cup {NoCall},
              oneTime : Item \cup {NoItem}, mls : Item \cup {NoItem}]

\* Every variable stays in its domain: rows, statuses and requests as the schema and
\* the DTOs allow them.
KeyTypeOK ==
    /\ devices \in [Device -> [owner : Person \cup {Nobody},
                               status : {"ABSENT", "ACTIVE", "REVOKED"}]]
    /\ registerLock \in [Person -> Call \cup {NoCall}]
    /\ identity \in [Device -> AnyKey]
    /\ everIdentity \in [Device -> SUBSET IdentityKey]
    /\ signed \in [Publication -> [device : AnyDevice, signedBy : AnyKey,
                                   status : {"ABSENT", "ACTIVE", "EXPIRED"},
                                   createdAt : Nat]]
    /\ stock \in [Item -> [device : AnyDevice, status : {"ABSENT", "AVAILABLE", "CONSUMED"}]]
    /\ rowLock \in [Call -> Item \cup {NoItem}]
    /\ pc \in [Call -> Label]
    /\ arg \in [Call -> [person : Person \cup {Nobody}, device : AnyDevice,
                         identity : AnyKey, signedBy : AnyKey, batch : 0..(MaxBatch + 1)]]
    /\ todo \in [Call -> SUBSET Device]
    /\ readKey \in [Call -> AnyKey]
    /\ bundle \in [Call -> Bundles]
    /\ answer \in [Call -> SUBSET Bundles]
    /\ since \in [Call -> SUBSET Device]
    /\ crossed \in [Publication -> SUBSET Publication]

\* devices.service.ts:38-39: revoking every prior device "keeps 'this person's active
\* device' unambiguous, always".  However registrations, revocations and failures
\* interleave, an ACTIVE device is the last its owner registered.
NewestDeviceOnly ==
    \A p \in Person : \A d \in ActiveDevices(p), e \in DevicesOf(p) : e <= d

\* devices.service.ts:34-37: a sender is never handed "a stale device whose private key
\* material no longer exists anywhere".  A fetch hands out no device older than the newest
\* one its target had registered before the fetch began, and none of another person.
NoStaleDeviceServed ==
    \A c \in Fetch : \A b \in answer[c] :
        /\ b.device \in DevicesOf(arg[c].person)
        /\ \A d \in since[c] : d <= b.device

\* A bundle in the hands of a fetch, finished or being put together
Held(c) == answer[c] \cup {bundle[c]}
Holds(b, i) == i # NoItem /\ (b.oneTime = i \/ b.mls = i)

\* e2ee-keys.repository.ts:154-159 and 218-221: "two concurrent callers never receive the
\* same prekey".  No key row is in two bundles, of one fetch or of two, even when a
\* claim fails between its row lock and its commit.
HandedOutOnce ==
    \A c, e \in Fetch : \A b \in Held(c), h \in Held(e) : \A i \in Item :
        Holds(b, i) /\ Holds(h, i) => c = e /\ b = h

\* A bundle is of one device: each of its keys was published for the bundle's device, by
\* that device's owner, and its row is CONSUMED.  It is what lets the device find the
\* private key that matches.
BundleOfOneDevice ==
    \A c \in Fetch : \A b \in Held(c) :
        /\ b.signed # NoCall => signed[b.signed].device = b.device
        /\ \A i \in Item : Holds(b, i) =>
              /\ stock[i] = [device |-> b.device, status |-> "CONSUMED"]
              /\ arg[i[2]].person = devices[b.device].owner

\* e2ee.service.ts:78-80: a signed prekey is "never accepted on trust".  Every row verifies
\* under an identity key its device has had.
PrekeyWasVerified ==
    \A s \in Publication :
        signed[s].status # "ABSENT" => signed[s].signedBy \in everIdentity[signed[s].device]

\* What e2ee-keys.repository.ts:114-116 says of retiring before creating holds as far as this:
\* two ACTIVE signed prekeys of a device were published by calls that overlapped.  Of two
\* that did not, the later has retired the earlier one's prekey before it inserts its own,
\* at whichever statements publications fail.
TwoActiveOnlyIfCrossed ==
    \A d \in Device : \A s, t \in ActivePrekeys(d) : s # t => s \in crossed[t]

\* e2ee.service.ts:78-80: the signature "must actually verify against this device's own
\* identity public key".  A signed prekey is inserted while it verifies under the identity
\* key its device has, or that key is one that a publication which overlapped this one has
\* put in its place; nothing else gets between the check and the insert.
AcceptedUnlessCrossed ==
    [][\A c \in Publication :
          PublishCreate(c) =>
             \/ arg[c].signedBy = identity[arg[c].device]
             \/ \E o \in crossed[c] : arg[o].identity = identity[arg[c].device]]_vars

-----------------------------------------------------------------------------
(* What a comment says and the code does not do.                           *)

\* e2ee-keys.repository.ts:114-116: "a device never has more than one ACTIVE signed prekey
\* at a time".
OneActiveSignedPrekey ==
    \A d \in Device : Cardinality(ActivePrekeys(d)) <= 1
=============================================================================
