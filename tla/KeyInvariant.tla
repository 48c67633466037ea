---------------------------- MODULE KeyInvariant ----------------------------
(* The inductive invariants of KeyDistribution.                            *)
EXTENDS KeyDistribution

\* A publication past its check is of a device, with an identity key if it writes one.
RequestIsWhole ==
    \A c \in Call :
        /\ pc[c] \in {"identity", "readIdentity", "verify", "create", "oneTime", "storeMls"} =>
              arg[c].device \in Device
        /\ pc[c] = "identity" => arg[c].identity \in IdentityKey

\* Device rows are numbered without a gap.
DevicesNumbered == \E n \in 0..Cardinality(Registration) : Registered = 1..n

Registering == {"readActive", "commit"}

\* Between its lock and its commit a registration holds its person's lock.
RegistrationHoldsLock ==
    \A c \in Call :
        /\ pc[c] \in Registering \cup {"lock"} => arg[c].person \in Person
        /\ pc[c] \in Registering => registerLock[arg[c].person] = c

\* What a registration has read stays complete: a device that is ACTIVE at its commit is
\* among those it revokes.
RegistrationSawAll ==
    \A c \in Call : pc[c] = "commit" => ActiveDevices(arg[c].person) \subseteq todo[c]

\* Only rows that exist are about to be revoked.
RevokedExist == \A c \in Call : pc[c] \in {"commit", "revoke"} => todo[c] \subseteq Registered

\* Key rows appear only with the last statement of the call that publishes them.
StoredByEnded == \A i \in Item : stock[i].status # "ABSENT" => pc[i[2]] \in Ended

\* A locked row is still AVAILABLE, and locked by one call, which is about to commit.
RowLocks ==
    /\ \A c \in Call : rowLock[c] # NoItem =>
          /\ pc[c] \in {"commitOneTime", "commitMls"}
          /\ stock[rowLock[c]].status = "AVAILABLE"
    /\ \A c, e \in Call : rowLock[c] # NoItem /\ rowLock[c] = rowLock[e] => c = e
    /\ \A c \in Call : pc[c] \in {"commitOneTime", "commitMls"} => rowLock[c] \in Item

\* A key in a bundle is CONSUMED, so that no later claim finds it.
HeldIsConsumed ==
    \A c \in Call : \A b \in Held(c) : \A i \in Item :
        Holds(b, i) => stock[i].status = "CONSUMED"

Assembling == {"signed", "claimOneTime", "commitOneTime", "claimMls", "commitMls", "push"}

\* A fetch works through its devices once each, and its bundle fills field by field.
ProgressOf(c) ==
    /\ pc[c] \in {"idle", "devices"} => answer[c] = {} /\ bundle[c] = NoBundle
    /\ pc[c] = "bundle" => bundle[c] = NoBundle
    /\ pc[c] \in Assembling => bundle[c].device \in Device \ todo[c]
    /\ pc[c] \in Assembling \cup {"bundle"} =>
          \A b \in answer[c] : b.device \in Device \ (todo[c] \cup {bundle[c].device})
    /\ pc[c] \in {"signed", "claimOneTime", "commitOneTime"} => bundle[c].oneTime = NoItem
    /\ pc[c] \in Assembling \ {"push"} => bundle[c].mls = NoItem

FetchProgress == \A c \in Call : ProgressOf(c)

\* HandedOutOnce, of every call.
HeldOnce ==
    \A c, e \in Call : \A b \in Held(c), h \in Held(e) : \A i \in Item :
        Holds(b, i) /\ Holds(h, i) => c = e /\ b = h

\* A fetch serves devices of its target that are as new as any it had when the fetch began.
IsFresh(c, d) == d \in DevicesOf(arg[c].person) /\ \A e \in since[c] : e <= d

FreshOf(c) ==
    /\ pc[c] = "idle" => since[c] = {}
    /\ pc[c] = "devices" => arg[c].person \in Person
    /\ since[c] \subseteq DevicesOf(arg[c].person)
    /\ pc[c] \in Assembling \cup {"bundle"} =>
          \A d \in todo[c] \cup {bundle[c].device} : d # NoDevice => IsFresh(c, d)
    /\ \A b \in answer[c] : IsFresh(c, b.device)

FetchIsFresh == \A c \in Call : FreshOf(c)

DeviceInv == /\ KeyTypeOK /\ RequestIsWhole /\ DevicesNumbered /\ RegistrationHoldsLock
             /\ RegistrationSawAll /\ RevokedExist /\ NewestDeviceOnly

ClaimInv == StoredByEnded /\ RowLocks /\ HeldIsConsumed /\ FetchProgress /\ HeldOnce

KeyInv == DeviceInv /\ ClaimInv /\ FetchIsFresh

-----------------------------------------------------------------------------
(* Where keys come from: what BundleOfOneDevice rests on.                  *)

Publishing == {"identity", "readIdentity", "verify", "create", "oneTime", "storeMls"}

\* A publication past its check is of a device of the person who asked, and stays so: a
\* device row never changes its owner.
PublisherOwns ==
    \A c \in Call : pc[c] \in Publishing => arg[c].device \in DevicesOf(arg[c].person)

\* A key row is of a device of the person who published it.
StockOrigin ==
    \A i \in Item : stock[i].status # "ABSENT" => stock[i].device \in DevicesOf(arg[i[2]].person)

\* The row a claim has locked, and every key in a bundle, is of the bundle's device.
ClaimedOfDevice ==
    \A c \in Call : rowLock[c] # NoItem => stock[rowLock[c]].device = bundle[c].device

KeysOf(b) ==
    /\ b.signed # NoCall => signed[b.signed].status # "ABSENT" /\ signed[b.signed].device = b.device
    /\ \A i \in Item : Holds(b, i) => stock[i].device = b.device

HeldOfDevice == \A c \in Call : \A b \in Held(c) : KeysOf(b)

OriginInv == PublisherOwns /\ StockOrigin /\ ClaimedOfDevice /\ HeldOfDevice

-----------------------------------------------------------------------------
(* Signed prekeys and the identity keys they verify under.                 *)

\* The history of a device's identity keys holds the present one.
IdentityIsKept == \A d \in Device : identity[d] # NoKey => identity[d] \in everIdentity[d]

\* What a publication checks its signature against was an identity key of its device.
CheckedKey ==
    \A c \in Call :
        /\ pc[c] = "verify" /\ readKey[c] # NoKey => readKey[c] \in everIdentity[arg[c].device]
        /\ pc[c] = "create" => arg[c].signedBy \in everIdentity[arg[c].device]

\* A publication inserts its signed prekey once, and of a device.
PrekeyOnce ==
    \A s \in Publication : signed[s].status # "ABSENT" =>
        pc[s] \in Ended \cup {"oneTime"} /\ signed[s].device \in Device

PrekeyInv == IdentityIsKept /\ CheckedKey /\ PrekeyOnce /\ PrekeyWasVerified

-----------------------------------------------------------------------------
(* Publications of one device that overlap, and those that do not.         *)

OfPrekeys == Publishing \ {"storeMls"}

\* Overlapping is mutual, only publications that have begun do it, and those that run for
\* one device have it on record.
CrossedOK ==
    \A c, e \in Publication :
        /\ e \in crossed[c] => c \in crossed[e] /\ pc[e] # "idle"
        /\ c # e /\ pc[c] \in OfPrekeys /\ pc[e] \in OfPrekeys /\ arg[c].device = arg[e].device
             => e \in crossed[c]

\* The identity key k is the device's, or a publication that overlapped c replaced it.
StillOrReplaced(c, k) ==
    LET now == identity[arg[c].device]
    IN  k = now \/ \E o \in crossed[c] : arg[o].identity = now

\* What a publication has checked still holds when it inserts, but for what those that
\* overlapped it did: the identity key is the one it read, and the prekeys it retired have
\* no successor.
CheckStillHolds ==
    \A c \in Publication :
        /\ pc[c] = "verify" => StillOrReplaced(c, readKey[c])
        /\ pc[c] = "create" => /\ StillOrReplaced(c, arg[c].signedBy)
                               /\ ActivePrekeys(arg[c].device) \subseteq crossed[c]

CrossInv == CrossedOK /\ CheckStillHolds /\ TwoActiveOnlyIfCrossed
=============================================================================
