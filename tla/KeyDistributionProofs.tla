----------------------- MODULE KeyDistributionProofs -----------------------
(***************************************************************************)
(* Proofs about KeyDistribution, for every number of people, calls, keys   *)
(* and batches: the inductive invariant KeyInv, and from it that only a    *)
(* person's newest device is active, that no key is handed out twice and   *)
(* that a fetch serves no stale device; OriginInv and PrekeyInv, and from  *)
(* them that a bundle is of one device and every signed prekey verified;   *)
(* CrossInv, of publications of one device, overlapping or not.            *)
(***************************************************************************)
EXTENDS KeyInvariant, FiniteSetTheorems, TLAPS

-----------------------------------------------------------------------------
(* The steps of the specification.                                         *)

\* The actions of Next, one disjunct each, with their parameters in their sets.
Steps ==
    \/ \E c \in Registration, p \in Person : RegisterBegin(c, p)
    \/ \E c \in Revocation, p \in Person, d \in Device : RevokeRead(c, p, d)
    \/ \E c \in Publication, d \in Device : \E r \in PublishRequest(d) : PublishCheck(c, r)
    \/ \E c \in MlsPublication, p \in Person, d \in Device, n \in 0..(MaxBatch + 1) :
          MlsCheck(c, p, d, n)
    \/ \E c \in Fetch, p \in Person, denied \in BOOLEAN : FetchAuthorize(c, p, denied)
    \/ \E c \in Call : RegisterStep(c) \/ RevokeWrite(c) \/ MlsStore(c) \/ FetchStep(c)
    \/ \E c \in Publication : PublishStep(c)
    \/ \E c \in Call : Fail(c)
    \/ UNCHANGED vars

\* Each step of the specification is one of the disjuncts of Steps.
LEMMA NextIsSteps == [Next]_vars => Steps
BY DEF Next, Steps, Begin, Proceed, AllEnded, Call

\* The calls that publish prekeys are calls.
LEMMA CallParts == /\ Registration \subseteq Call /\ Revocation \subseteq Call
                   /\ Publication \subseteq Call /\ MlsPublication \subseteq Call
                   /\ Fetch \subseteq Call
BY DEF Call

-----------------------------------------------------------------------------
(* Type correctness.                                                       *)

PrekeyRow == [device : AnyDevice, signedBy : AnyKey, status : {"ABSENT", "ACTIVE", "EXPIRED"},
              createdAt : Nat]
StockRow  == [device : AnyDevice, status : {"ABSENT", "AVAILABLE", "CONSUMED"}]

\* Retiring the prekeys of a device leaves a table of prekeys.
LEMMA RetiredType ==
  ASSUME signed \in [Publication -> PrekeyRow], NEW d
  PROVE  Retired(d) \in [Publication -> PrekeyRow]
<1>1. ASSUME NEW s \in Publication
      PROVE  [signed[s] EXCEPT !.status = "EXPIRED"] \in PrekeyRow
  <2>1. signed[s] \in PrekeyRow OBVIOUS
  <2> QED BY <2>1 DEF PrekeyRow
<1>2. \A s \in Publication : signed[s] \in PrekeyRow OBVIOUS
<1> QED BY <1>1, <1>2 DEF Retired

\* A claim that commits leaves a table of keys and one of row locks.
LEMMA CommitType ==
  ASSUME NEW c \in Call, stock \in [Item -> StockRow], rowLock \in [Call -> Item \cup {NoItem}],
         ClaimCommitted(c)
  PROVE  stock' \in [Item -> StockRow] /\ rowLock' \in [Call -> Item \cup {NoItem}]
<1>1. ASSUME NEW i \in Item PROVE [stock[i] EXCEPT !.status = "CONSUMED"] \in StockRow
  <2>1. stock[i] \in StockRow OBVIOUS
  <2> QED BY <2>1 DEF StockRow
<1>2. stock' \in [Item -> StockRow] BY <1>1 DEF ClaimCommitted
<1>3. rowLock' \in [Call -> Item \cup {NoItem}] BY DEF ClaimCommitted
<1> QED BY <1>2, <1>3

\* A bundle stays one when a field is filled in.
LEMMA BundleFields ==
  ASSUME NEW b \in Bundles
  PROVE  /\ \A s \in Publication : [b EXCEPT !.signed = s] \in Bundles
         /\ \A i \in Item \cup {NoItem} : [b EXCEPT !.oneTime = i] \in Bundles
         /\ \A i \in Item \cup {NoItem} : [b EXCEPT !.mls = i] \in Bundles
BY DEF Bundles

\* Every step keeps every variable in its domain, and a publication that goes on to its
\* identity key has one.
LEMMA TypeStep ==
  ASSUME KeyTypeOK, RequestIsWhole, [Next]_vars
  PROVE  KeyTypeOK' /\ RequestIsWhole'
<1> USE CallParts DEF KeyTypeOK, RequestIsWhole, Goto, tables, locals, Ended, Label
<1>1. Steps BY NextIsSteps
<1>2. ASSUME NEW c \in Registration, NEW p \in Person, RegisterBegin(c, p)
      PROVE  KeyTypeOK' /\ RequestIsWhole'
  BY ZenonT(60), <1>2 DEF RegisterBegin
<1>3. ASSUME NEW c \in Revocation, NEW p \in Person, NEW d \in Device, RevokeRead(c, p, d)
      PROVE  KeyTypeOK' /\ RequestIsWhole'
  <2>1. CASE OwnsActive(p, d)
    <3>1. todo' \in [Call -> SUBSET Device]
      <4>1. todo' = [todo EXCEPT ![c] = {d}] BY ONLY <1>3, <2>1 DEF RevokeRead
      <4>2. todo \in [Call -> SUBSET Device] OBVIOUS
      <4> QED BY ONLY <4>1, <4>2
    <3>2. pc' \in [Call -> Label] /\ RequestIsWhole' BY <1>3, <2>1 DEF RevokeRead
    <3> QED BY <1>3, <3>1, <3>2 DEF RevokeRead
  <2>2. CASE ~OwnsActive(p, d) BY <1>3, <2>2 DEF RevokeRead
  <2> QED BY <2>1, <2>2
<1>4. ASSUME NEW c \in Publication, NEW d \in Device, NEW r \in PublishRequest(d),
             PublishCheck(c, r)
      PROVE  KeyTypeOK' /\ RequestIsWhole'
  <2>1. /\ pc' \in [Call -> Label] /\ pc'[c] \notin {"verify", "create", "storeMls"}
        /\ pc'[c] = "identity" => r.identity # NoKey
        /\ \A e \in Call : e # c => pc'[e] = pc[e]
    <3>1. CASE OwnsActive(r.person, r.device)
      BY <1>4, <3>1 DEF PublishCheck, AfterCheck, AfterIdentity, AfterSigned
    <3>2. CASE ~OwnsActive(r.person, r.device) BY <1>4, <3>2 DEF PublishCheck
    <3> QED BY <3>1, <3>2
  <2>2. /\ arg' \in [Call -> [person : Person \cup {Nobody}, device : AnyDevice,
                              identity : AnyKey, signedBy : AnyKey, batch : 0..(MaxBatch + 1)]]
        /\ arg'[c] = r /\ \A e \in Call : e # c => arg'[e] = arg[e]
    BY <1>4 DEF PublishCheck, PublishRequest, AnyDevice, AnyKey
  <2>3. r.device \in Device /\ r.identity \in AnyKey BY DEF PublishRequest, AnyKey
  <2>4. RequestIsWhole' BY <2>1, <2>2, <2>3 DEF AnyKey
  <2>5. crossed' \in [Publication -> SUBSET Publication]
    <3>1. Crossing(c, r.device) \in [Publication -> SUBSET Publication]
      BY DEF Crossing, Rivals
    <3> QED BY <1>4, <3>1 DEF PublishCheck
  <2> QED BY <1>4, <2>1, <2>2, <2>4, <2>5 DEF PublishCheck
<1>5. ASSUME NEW c \in MlsPublication, NEW p \in Person, NEW d \in Device,
             NEW n \in 0..(MaxBatch + 1), MlsCheck(c, p, d, n)
      PROVE  KeyTypeOK' /\ RequestIsWhole'
  BY <1>5 DEF MlsCheck, NoArg, AnyDevice, AnyKey
<1>6. ASSUME NEW c \in Fetch, NEW p \in Person, NEW denied \in BOOLEAN,
             FetchAuthorize(c, p, denied)
      PROVE  KeyTypeOK' /\ RequestIsWhole'
  BY ZenonT(60), <1>6 DEF FetchAuthorize, DevicesOf, Registered
<1>7. ASSUME NEW c \in Call, RegisterStep(c) PROVE KeyTypeOK' /\ RequestIsWhole'
  <2>1. CASE RegisterLock(c) BY <2>1 DEF RegisterLock
  <2>2. CASE RegisterRead(c) BY <2>2 DEF RegisterRead, ActiveDevices, DevicesOf, Registered
  <2>3. CASE RegisterCommit(c) 
    <3>1. pc' \in [Call -> Label] BY <2>3 DEF RegisterCommit
    <3>2. devices' \in [Device -> [owner : Person \cup {Nobody},
                                   status : {"ABSENT", "ACTIVE", "REVOKED"}]]
      BY <2>3 DEF RegisterCommit, NextDevice
    <3>3. registerLock' \in [Person -> Call \cup {NoCall}] BY <2>3 DEF RegisterCommit
    <3> QED BY <2>3, <3>1, <3>2, <3>3 DEF RegisterCommit
  <2> QED BY <1>7, <2>1, <2>2, <2>3 DEF RegisterStep
<1>8. ASSUME NEW c \in Call, RevokeWrite(c) PROVE KeyTypeOK' /\ RequestIsWhole'
  <2>1. devices' \in [Device -> [owner : Person \cup {Nobody},
                                 status : {"ABSENT", "ACTIVE", "REVOKED"}]]
    <3> DEFINE Rows == [owner : Person \cup {Nobody}, status : {"ABSENT", "ACTIVE", "REVOKED"}]
    <3>1. ASSUME NEW d \in Device
          PROVE  devices[d] \in Rows /\ [devices[d] EXCEPT !.status = "REVOKED"] \in Rows
      <4>1. devices[d] \in Rows OBVIOUS
      <4> QED BY ONLY <4>1
    <3>2. devices' = [d \in Device |->
                        IF d \in todo[c] THEN [devices[d] EXCEPT !.status = "REVOKED"]
                        ELSE devices[d]]
      BY ONLY <1>8 DEF RevokeWrite
    <3> HIDE DEF Rows
    <3>3. devices' \in [Device -> Rows] BY ONLY <3>1, <3>2
    <3> QED BY ONLY <3>3 DEF Rows
  <2> QED BY <1>8, <2>1 DEF RevokeWrite
<1>9. ASSUME NEW c \in Call, MlsStore(c) PROVE KeyTypeOK' /\ RequestIsWhole'
  BY <1>9 DEF MlsStore, Stocked
<1>10. ASSUME NEW c \in Publication, PublishStep(c) PROVE KeyTypeOK' /\ RequestIsWhole'
  <2>1. CASE PublishIdentity(c)
    <3>1. /\ pc' \in [Call -> Label] /\ RequestIsWhole'
      BY <1>10, <2>1 DEF PublishIdentity, AfterIdentity, AfterSigned
    <3>2. identity' \in [Device -> AnyKey] BY <1>10, <2>1 DEF PublishIdentity, AnyKey
    <3>3. everIdentity' \in [Device -> SUBSET IdentityKey]
      <4>1. arg[c].identity \in IdentityKey BY <1>10, <2>1 DEF PublishIdentity
      <4> QED BY <2>1, <4>1 DEF PublishIdentity
    <3> QED BY <2>1, <3>1, <3>2, <3>3 DEF PublishIdentity
  <2>2. CASE PublishReadIdentity(c) 
    <3>1. readKey' \in [Call -> AnyKey]
      <4>1. arg[c].device \in Device BY <1>10, <2>2 DEF PublishReadIdentity
      <4> QED BY <2>2, <4>1 DEF PublishReadIdentity
    <3> QED BY <1>10, <2>2, <3>1 DEF PublishReadIdentity
  <2>3. CASE PublishRetire(c) 
    <3>1. Retired(arg[c].device) \in [Publication -> PrekeyRow] BY RetiredType DEF PrekeyRow
    <3>2. CASE SignatureVerifies(c) BY <1>10, <2>3, <3>1, <3>2 DEF PublishRetire, PrekeyRow
    <3>3. CASE ~SignatureVerifies(c) BY <1>10, <2>3, <3>3 DEF PublishRetire
    <3> QED BY <3>2, <3>3
  <2>4. CASE PublishCreate(c)
    <3>1. PrekeysCreated + 1 \in Nat
      <4>1. IsFiniteSet({s \in Publication : signed[s].status # "ABSENT"})
        BY KeyDistributionAssumption, FS_Subset
      <4>2. PrekeysCreated \in Nat BY <4>1, FS_CardinalityType DEF PrekeysCreated
      <4> QED BY <4>2
    <3>2. signed' \in [Publication -> [device : AnyDevice, signedBy : AnyKey,
                                       status : {"ABSENT", "ACTIVE", "EXPIRED"},
                                       createdAt : Nat]]
      <4>1. arg[c].device \in AnyDevice /\ arg[c].signedBy \in AnyKey BY <1>10
      <4> QED BY <1>10, <2>4, <3>1, <4>1 DEF PublishCreate
    <3>3. pc' \in [Call -> Label] /\ RequestIsWhole'
      BY <1>10, <2>4 DEF PublishCreate, AfterSigned
    <3> QED BY <2>4, <3>2, <3>3 DEF PublishCreate
  <2>5. CASE PublishOneTime(c) 
    <3>1. arg[c].device \in AnyDevice BY <1>10
    <3>2. Stocked("oneTime", c) \in
            [Item -> [device : AnyDevice, status : {"ABSENT", "AVAILABLE", "CONSUMED"}]]
      BY <3>1 DEF Stocked
    <3>3. CASE arg[c].batch <= MaxBatch BY <1>10, <2>5, <3>2, <3>3 DEF PublishOneTime
    <3>4. CASE ~(arg[c].batch <= MaxBatch) BY <1>10, <2>5, <3>4 DEF PublishOneTime
    <3> QED BY <3>3, <3>4
  <2> QED BY <1>10, <2>1, <2>2, <2>3, <2>4, <2>5 DEF PublishStep
<1>11. ASSUME NEW c \in Call, FetchStep(c) PROVE KeyTypeOK' /\ RequestIsWhole'
  <2>1. CASE FetchDevices(c) BY <2>1 DEF FetchDevices, ActiveDevices, DevicesOf, Registered
  <2>2. ASSUME NEW d \in Device, FetchIdentity(c, d) PROVE KeyTypeOK' /\ RequestIsWhole'
    BY <2>2 DEF FetchIdentity, Bundles, NoBundle, AnyDevice, AnyKey
  <2>3. CASE FetchSigned(c) 
    <3>1. pc' \in [Call -> Label] /\ RequestIsWhole' BY <2>3 DEF FetchSigned
    <3>2. bundle' \in [Call -> Bundles]
      <4>1. ASSUME NEW s \in Publication, bundle' = [bundle EXCEPT ![c].signed = s]
            PROVE  bundle' \in [Call -> Bundles]
        BY <4>1, BundleFields
      <4> QED BY <2>3, <4>1 DEF FetchSigned, NewestPrekey, ActivePrekeys
    <3> QED BY <2>3, <3>1, <3>2 DEF FetchSigned
  <2>4. CASE FetchClaimOneTime(c) 
    <3>1. rowLock' \in [Call -> Item \cup {NoItem}]
      <4>1. Claimable("oneTime", bundle[c].device) \subseteq Item BY DEF Claimable
      <4> QED BY <2>4, <4>1 DEF FetchClaimOneTime, ClaimLock
    <3>2. pc' \in [Call -> Label] /\ RequestIsWhole' BY <2>4 DEF FetchClaimOneTime, ClaimLock
    <3> QED BY <2>4, <3>1, <3>2 DEF FetchClaimOneTime, ClaimLock
  <2>5. CASE FetchCommitOneTime(c) 
    <3>1. rowLock[c] \in Item \cup {NoItem} /\ bundle[c] \in Bundles OBVIOUS
    <3>2. bundle' \in [Call -> Bundles] BY <2>5, <3>1, BundleFields DEF FetchCommitOneTime
    <3>3. pc' \in [Call -> Label] BY <2>5 DEF FetchCommitOneTime
    <3>4. RequestIsWhole' BY <2>5 DEF FetchCommitOneTime, ClaimCommitted
    <3>5. stock' \in [Item -> StockRow] /\ rowLock' \in [Call -> Item \cup {NoItem}]
      BY <2>5, CommitType DEF FetchCommitOneTime, StockRow
    <3> QED BY <2>5, <3>2, <3>3, <3>4, <3>5 DEF FetchCommitOneTime, ClaimCommitted, StockRow
  <2>6. CASE FetchClaimMls(c) 
    <3>1. rowLock' \in [Call -> Item \cup {NoItem}]
      <4>1. Claimable("mls", bundle[c].device) \subseteq Item BY DEF Claimable
      <4> QED BY <2>6, <4>1 DEF FetchClaimMls, ClaimLock
    <3>2. pc' \in [Call -> Label] /\ RequestIsWhole'
      BY ZenonT(60), <2>6 DEF FetchClaimMls, ClaimLock
    <3> QED BY <2>6, <3>1, <3>2 DEF FetchClaimMls, ClaimLock
  <2>7. CASE FetchCommitMls(c) 
    <3>1. rowLock[c] \in Item \cup {NoItem} /\ bundle[c] \in Bundles OBVIOUS
    <3>2. bundle' \in [Call -> Bundles] BY <2>7, <3>1, BundleFields DEF FetchCommitMls
    <3>3. pc' \in [Call -> Label] BY <2>7 DEF FetchCommitMls
    <3>4. RequestIsWhole' BY <2>7 DEF FetchCommitMls, ClaimCommitted
    <3>5. stock' \in [Item -> StockRow] /\ rowLock' \in [Call -> Item \cup {NoItem}]
      BY <2>7, CommitType DEF FetchCommitMls, StockRow
    <3> QED BY <2>7, <3>2, <3>3, <3>4, <3>5 DEF FetchCommitMls, ClaimCommitted, StockRow
  <2>8. CASE FetchPush(c) BY <2>8 DEF FetchPush, Bundles, NoBundle, AnyDevice, AnyKey
  <2> QED BY <1>11, <2>1, <2>2, <2>3, <2>4, <2>5, <2>6, <2>7, <2>8 DEF FetchStep
<1>12. ASSUME NEW c \in Call, Fail(c) PROVE KeyTypeOK' /\ RequestIsWhole'
  BY <1>12 DEF Fail, Unlocked
<1>13. CASE UNCHANGED vars BY <1>13 DEF vars
<1> QED BY <1>1, <1>2, <1>3, <1>4, <1>5, <1>6, <1>7, <1>8, <1>9, <1>10, <1>11, <1>12, <1>13
        DEF Steps

-----------------------------------------------------------------------------
(* The device table.                                                       *)

DeviceFacts == /\ DevicesNumbered /\ RegistrationHoldsLock /\ RegistrationSawAll
               /\ RevokedExist /\ NewestDeviceOnly

OfDevices == Registering \cup {"lock", "revoke"}

\* A step of a call that is not registering or revoking a device and writes neither the devices nor
\* the advisory locks.
Quiet(c) ==
    /\ UNCHANGED <<devices, registerLock>>
    /\ pc[c] \notin OfDevices /\ pc'[c] \notin OfDevices
    /\ \A e \in Call : e # c => pc'[e] = pc[e] /\ arg'[e] = arg[e] /\ todo'[e] = todo[e]

\* Such a step disturbs nothing that is claimed of the devices.
LEMMA QuietKeeps ==
  ASSUME DeviceFacts, NEW c \in Call, Quiet(c)
  PROVE  DeviceFacts'
<1> USE DEF Quiet, OfDevices
<1>1. Registered' = Registered BY DEF Registered
<1>2. \A p : DevicesOf(p)' = DevicesOf(p) BY <1>1 DEF DevicesOf
<1>3. \A p : ActiveDevices(p)' = ActiveDevices(p) BY <1>2 DEF ActiveDevices
<1>4. DevicesNumbered' BY <1>1 DEF DeviceFacts, DevicesNumbered
<1>5. RegistrationHoldsLock' BY DEF DeviceFacts, RegistrationHoldsLock, Registering
<1>6. RegistrationSawAll' BY <1>3 DEF DeviceFacts, RegistrationSawAll, Registering
<1>7. NewestDeviceOnly' BY <1>2, <1>3 DEF DeviceFacts, NewestDeviceOnly
<1>8. RevokedExist' BY <1>1 DEF DeviceFacts, RevokedExist, Registering
<1> QED BY <1>4, <1>5, <1>6, <1>7, <1>8 DEF DeviceFacts

\* The number after the last is free.
LEMMA NextIsFree ==
  ASSUME KeyTypeOK, DevicesNumbered
  PROVE  \E n \in 0..Cardinality(Registration) :
            Registered = 1..n /\ NextDevice = n + 1 /\ n \in Nat
<1>1. PICK n \in 0..Cardinality(Registration) : Registered = 1..n BY DEF DevicesNumbered
<1>2. Cardinality(Registration) \in Nat BY KeyDistributionAssumption, FS_CardinalityType
<1>3. n \in Nat BY <1>2
<1>4. Cardinality(1..n) = n BY <1>3, FS_Interval
<1> QED BY <1>1, <1>3, <1>4 DEF NextDevice

\* A registration's commit adds a device after all others, and revokes what it read.
LEMMA CommitDevices ==
  ASSUME KeyTypeOK, DeviceFacts, NEW c \in Call, RegisterCommit(c)
  PROVE  /\ DevicesNumbered' /\ NewestDeviceOnly'
         /\ Registered \subseteq Registered'
         /\ \A q : DevicesOf(q) \subseteq DevicesOf(q)'
         /\ \A q : q # arg[c].person => ActiveDevices(q)' \subseteq ActiveDevices(q)
<1>2. PICK p \in Person : p = arg[c].person
  BY DEF DeviceFacts, RegistrationHoldsLock, RegisterCommit, Registering
<1>1. PICK n \in 0..Cardinality(Registration) :
         Registered = 1..n /\ NextDevice = n + 1 /\ n \in Nat
  BY NextIsFree DEF DeviceFacts
<1>3. ActiveDevices(p) \subseteq todo[c] BY <1>2 DEF DeviceFacts, RegistrationSawAll, RegisterCommit
<1>4. ASSUME NEW d \in Device
      PROVE  devices'[d] = IF d \in todo[c] THEN [devices[d] EXCEPT !.status = "REVOKED"]
                           ELSE IF d = n + 1 THEN [owner |-> p, status |-> "ACTIVE"]
                           ELSE devices[d]
  BY <1>1, <1>2 DEF RegisterCommit
<1>5. ASSUME NEW d \in Device
      PROVE  /\ d \in todo[c] => devices'[d].status = "REVOKED" /\ devices'[d].owner = devices[d].owner
             /\ d \notin todo[c] /\ d = n + 1 => devices'[d].owner = p /\ devices'[d].status = "ACTIVE"
             /\ d \notin todo[c] /\ d # n + 1 => devices'[d] = devices[d]
  <2>1. devices[d] \in [owner : Person \cup {Nobody}, status : {"ABSENT", "ACTIVE", "REVOKED"}]
    BY DEF KeyTypeOK
  <2>2. [devices[d] EXCEPT !.status = "REVOKED"].status = "REVOKED" BY <2>1
  <2>3. [devices[d] EXCEPT !.status = "REVOKED"].owner = devices[d].owner BY <2>1
  <2>4. CASE d \in todo[c] BY <1>4, <2>2, <2>3, <2>4
  <2>5. CASE d \notin todo[c] /\ d = n + 1
    <3>1. devices'[d] = [owner |-> p, status |-> "ACTIVE"] BY <1>4, <2>5
    <3> QED BY <3>1, <2>5
  <2>6. CASE d \notin todo[c] /\ d # n + 1
    <3>1. devices'[d] = devices[d] BY <1>4, <2>6
    <3> QED BY <3>1, <2>6
  <2> QED BY <2>4, <2>5, <2>6
<1>6. todo[c] \subseteq Registered BY DEF DeviceFacts, RevokedExist, RegisterCommit
<1>7. \A d \in todo[c] : d # n + 1 BY <1>1, <1>6
<1>8. Registered' = IF n + 1 \in Device THEN 1..(n + 1) ELSE 1..n
  <2>1. \A d \in Device : d \in Registered' <=> d \in Registered \/ d = n + 1
    BY <1>5, <1>6, <1>7 DEF Registered
  <2> QED BY <2>1, <1>1 DEF Registered, Device
<1>9. DevicesNumbered'
  <2>1. Cardinality(Registration) \in Nat BY KeyDistributionAssumption, FS_CardinalityType
  <2>2. CASE n + 1 \in Device
    <3>1. n + 1 \in 0..Cardinality(Registration) BY <2>1, <2>2 DEF Device
    <3> QED BY <3>1, <2>2, <1>8 DEF DevicesNumbered
  <2>3. CASE n + 1 \notin Device BY <2>3, <1>8 DEF DevicesNumbered
  <2> QED BY <2>2, <2>3
<1>10. \A q : DevicesOf(q) \subseteq DevicesOf(q)'
  <2>1. \A d \in Registered : d # n + 1 BY <1>1
  <2> QED BY <1>1, <1>5, <1>8, <2>1 DEF DevicesOf, Registered
<1>11. \A q : q # p => /\ DevicesOf(q)' \subseteq DevicesOf(q)
                      /\ ActiveDevices(q)' \subseteq ActiveDevices(q)
  <2>1. \A d \in Registered' : d \in Registered \/ d = n + 1 BY <1>1, <1>8
  <2> QED BY <1>5, <1>7, <2>1 DEF DevicesOf, ActiveDevices, Registered
<1>12. ActiveDevices(p)' \subseteq {n + 1}
  <2> SUFFICES ASSUME NEW d \in ActiveDevices(p)' PROVE d = n + 1
    OBVIOUS
  <2>1. d \in Device /\ devices'[d].status = "ACTIVE" /\ devices'[d].owner = p
    BY DEF ActiveDevices, DevicesOf, Registered
  <2>2. CASE d \in todo[c] BY <1>5, <2>1, <2>2
  <2>3. CASE d \notin todo[c] /\ d # n + 1
    <3>1. devices'[d] = devices[d] BY <1>5, <2>1, <2>3
    <3>2. d \in ActiveDevices(p) BY <2>1, <3>1 DEF ActiveDevices, DevicesOf, Registered
    <3> QED BY <1>3, <3>2, <2>3
  <2> QED BY <2>2, <2>3
<1>13. \A q : \A e \in DevicesOf(q)' : e <= n + 1 BY <1>1, <1>8 DEF DevicesOf, Device
<1>14. NewestDeviceOnly'
  <2> SUFFICES ASSUME NEW q \in Person, NEW d \in ActiveDevices(q)', NEW e \in DevicesOf(q)'
               PROVE  e <= d
    BY DEF NewestDeviceOnly
  <2>1. CASE q = p BY <2>1, <1>12, <1>13
  <2>2. CASE q # p BY <2>2, <1>11 DEF DeviceFacts, NewestDeviceOnly
  <2> QED BY <2>1, <2>2
<1>15. Registered \subseteq Registered' BY <1>1, <1>8
<1> QED BY <1>2, <1>9, <1>10, <1>11, <1>14, <1>15

\* A revocation takes no device away from its owner and makes none active.
LEMMA RevokeDevices ==
  ASSUME KeyTypeOK, DeviceFacts, NEW c \in Call, RevokeWrite(c)
  PROVE  /\ Registered' = Registered
         /\ \A q : DevicesOf(q)' = DevicesOf(q)
         /\ \A q : ActiveDevices(q)' \subseteq ActiveDevices(q)
<1>1. ASSUME NEW d \in Device
      PROVE  /\ d \in todo[c] => devices'[d].status = "REVOKED" /\ devices'[d].owner = devices[d].owner
             /\ d \notin todo[c] => devices'[d] = devices[d]
  <2>1. devices[d] \in [owner : Person \cup {Nobody}, status : {"ABSENT", "ACTIVE", "REVOKED"}]
    BY DEF KeyTypeOK
  <2>2. [devices[d] EXCEPT !.status = "REVOKED"].status = "REVOKED" BY <2>1
  <2>3. [devices[d] EXCEPT !.status = "REVOKED"].owner = devices[d].owner BY <2>1
  <2>4. devices'[d] = IF d \in todo[c] THEN [devices[d] EXCEPT !.status = "REVOKED"]
                      ELSE devices[d]
    BY DEF RevokeWrite
  <2> QED BY <2>2, <2>3, <2>4
<1>2. todo[c] \subseteq Registered BY DEF DeviceFacts, RevokedExist, RevokeWrite
<1>3. Registered' = Registered BY <1>1, <1>2 DEF Registered
<1>4. \A q : DevicesOf(q)' = DevicesOf(q) BY <1>1, <1>3 DEF DevicesOf, Registered
<1>5. \A q : ActiveDevices(q)' \subseteq ActiveDevices(q)
  BY <1>1, <1>4 DEF ActiveDevices, DevicesOf, Registered
<1> QED BY <1>3, <1>4, <1>5

\* Every step keeps what is claimed of the devices.
LEMMA DeviceStep ==
  ASSUME KeyTypeOK, DeviceFacts, [Next]_vars
  PROVE  DeviceFacts'
<1> USE CallParts DEF Goto, tables, locals, Ended
<1>1. Steps BY NextIsSteps
<1> DEFINE Only(c) == \A e \in Call : e # c => pc'[e] = pc[e] /\ arg'[e] = arg[e] /\ todo'[e] = todo[e]
<1>2. ASSUME NEW c \in Call, NEW p \in Person, RegisterBegin(c, p) PROVE DeviceFacts'
  <2>1. UNCHANGED <<devices, registerLock, todo>> BY <1>2 DEF RegisterBegin
  <2>2. pc'[c] = "lock" /\ arg'[c].person = p /\ Only(c) BY <1>2 DEF RegisterBegin, KeyTypeOK
  <2>3. DevicesNumbered' /\ NewestDeviceOnly'
    BY <2>1 DEF DeviceFacts, DevicesNumbered, NewestDeviceOnly, DevicesOf, ActiveDevices, Registered
  <2>4. RegistrationHoldsLock' BY <2>1, <2>2 DEF DeviceFacts, RegistrationHoldsLock, Registering
  <2>5. RegistrationSawAll' /\ RevokedExist'
    BY <2>1, <2>2 DEF DeviceFacts, RegistrationSawAll, RevokedExist, DevicesOf, ActiveDevices, Registered
  <2> QED BY <2>3, <2>4, <2>5 DEF DeviceFacts
<1>3. ASSUME NEW c \in Revocation, NEW p \in Person, NEW d \in Device, RevokeRead(c, p, d)
      PROVE  DeviceFacts'
  <2>1. CASE OwnsActive(p, d)
    <3>1. UNCHANGED <<devices, registerLock, arg>> BY <1>3 DEF RevokeRead
    <3>2. pc'[c] = "revoke" /\ todo'[c] = {d} /\ Only(c) BY <1>3, <2>1 DEF RevokeRead, KeyTypeOK
    <3>3. DevicesNumbered' /\ NewestDeviceOnly'
      BY <3>1 DEF DeviceFacts, DevicesNumbered, NewestDeviceOnly, DevicesOf, ActiveDevices, Registered
    <3>4. RegistrationHoldsLock' BY <3>1, <3>2 DEF DeviceFacts, RegistrationHoldsLock, Registering
    <3>5. RegistrationSawAll'
      BY <3>1, <3>2 DEF DeviceFacts, RegistrationSawAll, DevicesOf, ActiveDevices, Registered
    <3>6. RevokedExist'
      BY <2>1, <3>1, <3>2 DEF DeviceFacts, RevokedExist, Registered, OwnsActive
    <3> QED BY <3>3, <3>4, <3>5, <3>6 DEF DeviceFacts
  <2>2. CASE ~OwnsActive(p, d)
    <3>1. Quiet(c) BY <1>3, <2>2 DEF RevokeRead, Quiet, OfDevices, Registering, KeyTypeOK
    <3> QED BY <3>1, QuietKeeps
  <2> QED BY <2>1, <2>2
<1>4. ASSUME NEW c \in Publication, NEW d \in Device, NEW r \in PublishRequest(d),
             PublishCheck(c, r)
      PROVE  DeviceFacts'
  <2>1. Quiet(c)
    BY <1>4 DEF PublishCheck, AfterCheck, AfterIdentity, AfterSigned, Quiet, OfDevices,
                Registering, KeyTypeOK
  <2> QED BY <2>1, QuietKeeps
<1>5. ASSUME NEW c \in MlsPublication, NEW p \in Person, NEW d \in Device,
             NEW n \in 0..(MaxBatch + 1), MlsCheck(c, p, d, n)
      PROVE  DeviceFacts'
  <2>1. Quiet(c) BY <1>5 DEF MlsCheck, Quiet, OfDevices, Registering, KeyTypeOK
  <2> QED BY <2>1, QuietKeeps
<1>6. ASSUME NEW c \in Fetch, NEW p \in Person, NEW denied \in BOOLEAN,
             FetchAuthorize(c, p, denied)
      PROVE  DeviceFacts'
  <2>1. Quiet(c) BY <1>6 DEF FetchAuthorize, Quiet, OfDevices, Registering, KeyTypeOK
  <2> QED BY <2>1, QuietKeeps
<1>7. ASSUME NEW c \in Call, RegisterLock(c) PROVE DeviceFacts'
  <2>1. UNCHANGED <<devices, todo, arg>> BY <1>7 DEF RegisterLock
  <2>2. pc[c] = "lock" /\ pc'[c] = "readActive" /\ Only(c) BY <1>7 DEF RegisterLock, KeyTypeOK
  <2>3. DevicesNumbered' /\ NewestDeviceOnly'
    BY <2>1 DEF DeviceFacts, DevicesNumbered, NewestDeviceOnly, DevicesOf, ActiveDevices, Registered
  <2>4. RegistrationHoldsLock'
    <3>1. arg[c].person \in Person BY <2>2 DEF DeviceFacts, RegistrationHoldsLock
    <3>2. registerLock[arg[c].person] = NoCall BY <1>7 DEF RegisterLock, LockFree
    <3>3. registerLock' = [registerLock EXCEPT ![arg[c].person] = c] BY <1>7 DEF RegisterLock
    <3>4. \A e \in Call : e # NoCall BY KeyDistributionAssumption
    <3>5. registerLock'[arg[c].person] = c BY <3>1, <3>3 DEF KeyTypeOK
    <3>6. \A e \in Call : e # c /\ pc[e] \in Registering => arg[e].person # arg[c].person
      BY <3>2, <3>4 DEF DeviceFacts, RegistrationHoldsLock
    <3> QED BY <2>1, <2>2, <3>1, <3>3, <3>5, <3>6
            DEF DeviceFacts, RegistrationHoldsLock, Registering, KeyTypeOK
  <2>5. RegistrationSawAll' /\ RevokedExist'
    BY <2>1, <2>2 DEF DeviceFacts, RegistrationSawAll, RevokedExist, DevicesOf, ActiveDevices, Registered
  <2> QED BY <2>3, <2>4, <2>5 DEF DeviceFacts
<1>8. ASSUME NEW c \in Call, RegisterRead(c) PROVE DeviceFacts'
  <2>1. UNCHANGED <<devices, registerLock, arg>> BY <1>8 DEF RegisterRead
  <2>2. /\ pc[c] = "readActive" /\ pc'[c] = "commit" /\ Only(c)
        /\ todo'[c] = ActiveDevices(arg[c].person)
    BY <1>8 DEF RegisterRead, KeyTypeOK
  <2>3. DevicesNumbered' /\ NewestDeviceOnly'
    BY <2>1 DEF DeviceFacts, DevicesNumbered, NewestDeviceOnly, DevicesOf, ActiveDevices, Registered
  <2>4. RegistrationHoldsLock' BY <2>1, <2>2 DEF DeviceFacts, RegistrationHoldsLock, Registering
  <2>5. RegistrationSawAll'
    BY <2>1, <2>2 DEF DeviceFacts, RegistrationSawAll, DevicesOf, ActiveDevices, Registered
  <2>6. RevokedExist'
    BY <2>1, <2>2 DEF DeviceFacts, RevokedExist, DevicesOf, ActiveDevices, Registered
  <2> QED BY <2>3, <2>4, <2>5, <2>6 DEF DeviceFacts
<1>9. ASSUME NEW c \in Call, RegisterCommit(c) PROVE DeviceFacts'
  <2>1. UNCHANGED <<arg, todo>> BY <1>9 DEF RegisterCommit
  <2>2. pc[c] = "commit" /\ pc'[c] = "done" /\ Only(c) BY <1>9, <2>1 DEF RegisterCommit, KeyTypeOK
  <2>3. arg[c].person \in Person /\ registerLock[arg[c].person] = c
    BY <2>2 DEF DeviceFacts, RegistrationHoldsLock, Registering
  <2>4. \A e \in Call : e # c /\ pc[e] \in Registering => arg[e].person # arg[c].person
    BY <2>3 DEF DeviceFacts, RegistrationHoldsLock
  <2>5. RegistrationHoldsLock'
    <3>1. registerLock' = [registerLock EXCEPT ![arg[c].person] = NoCall] BY <1>9 DEF RegisterCommit
    <3> QED BY <2>1, <2>2, <2>4, <3>1 DEF DeviceFacts, RegistrationHoldsLock, Registering, KeyTypeOK
  <2>6. RegistrationSawAll'
    <3> SUFFICES ASSUME NEW e \in Call, pc'[e] = "commit"
                 PROVE  ActiveDevices(arg[e].person)' \subseteq todo[e]
      BY <2>1 DEF RegistrationSawAll
    <3>1. e # c /\ pc[e] = "commit" BY <2>2
    <3>2. PICK q \in Person : q = arg[e].person
      BY <3>1 DEF DeviceFacts, RegistrationHoldsLock, Registering
    <3>3. q # arg[c].person BY <2>4, <3>1, <3>2 DEF Registering
    <3>4. ActiveDevices(q)' \subseteq ActiveDevices(q) BY <1>9, <3>3, CommitDevices
    <3>5. ActiveDevices(q) \subseteq todo[e] BY <3>1, <3>2 DEF DeviceFacts, RegistrationSawAll
    <3>6. ActiveDevices(arg[e].person)' = ActiveDevices(q)'
      BY <2>1, <3>2 DEF ActiveDevices, DevicesOf
    <3> QED BY <3>4, <3>5, <3>6
  <2>7. Registered \subseteq Registered' BY <1>9, CommitDevices
  <2>8. RevokedExist' BY <2>1, <2>2, <2>7 DEF DeviceFacts, RevokedExist
  <2> QED BY <1>9, CommitDevices, <2>5, <2>6, <2>8 DEF DeviceFacts
<1>10. ASSUME NEW c \in Call, RevokeWrite(c) PROVE DeviceFacts'
  <2>1. UNCHANGED <<registerLock, arg, todo>> BY <1>10 DEF RevokeWrite
  <2>2. pc[c] = "revoke" /\ pc'[c] = "done" /\ Only(c) BY <1>10, <2>1 DEF RevokeWrite, KeyTypeOK
  <2>3. DevicesNumbered' BY <1>10, RevokeDevices DEF DeviceFacts, DevicesNumbered
  <2>4. NewestDeviceOnly' BY <1>10, RevokeDevices DEF DeviceFacts, NewestDeviceOnly
  <2>5. RegistrationHoldsLock' BY <2>1, <2>2 DEF DeviceFacts, RegistrationHoldsLock, Registering
  <2>6. RegistrationSawAll'
    <3> SUFFICES ASSUME NEW e \in Call, pc'[e] = "commit"
                 PROVE  ActiveDevices(arg[e].person)' \subseteq todo[e]
      BY <2>1 DEF RegistrationSawAll
    <3>1. pc[e] = "commit" BY <2>2
    <3>2. PICK q \in Person : q = arg[e].person
      BY <3>1 DEF DeviceFacts, RegistrationHoldsLock, Registering
    <3>3. ActiveDevices(q)' \subseteq ActiveDevices(q) BY <1>10, RevokeDevices
    <3>4. ActiveDevices(q) \subseteq todo[e] BY <3>1, <3>2 DEF DeviceFacts, RegistrationSawAll
    <3>5. ActiveDevices(arg[e].person)' = ActiveDevices(q)'
      BY <2>1, <3>2 DEF ActiveDevices, DevicesOf
    <3> QED BY <3>3, <3>4, <3>5
  <2>7. RevokedExist' BY <1>10, RevokeDevices, <2>1, <2>2 DEF DeviceFacts, RevokedExist
  <2> QED BY <2>3, <2>4, <2>5, <2>6, <2>7 DEF DeviceFacts
<1>11. ASSUME NEW c \in Call, MlsStore(c) PROVE DeviceFacts'
  <2>1. Quiet(c) BY <1>11 DEF MlsStore, Quiet, OfDevices, Registering, KeyTypeOK
  <2> QED BY <2>1, QuietKeeps
<1>12. ASSUME NEW c \in Publication, PublishStep(c) PROVE DeviceFacts'
  <2> USE DEF Quiet, OfDevices, Registering, KeyTypeOK
  <2>1. CASE PublishIdentity(c)
    BY <2>1, QuietKeeps DEF PublishIdentity, AfterIdentity, AfterSigned
  <2>2. CASE PublishReadIdentity(c) BY <2>2, QuietKeeps DEF PublishReadIdentity
  <2>3. CASE PublishRetire(c)
    <3>1. pc'[c] \in {"create", "refused"}
      <4>1. CASE SignatureVerifies(c) BY <2>3, <4>1 DEF PublishRetire
      <4>2. CASE ~SignatureVerifies(c) BY <2>3, <4>2 DEF PublishRetire
      <4> QED BY <4>1, <4>2
    <3>2. Only(c)
      <4>1. CASE SignatureVerifies(c) BY <2>3, <4>1 DEF PublishRetire
      <4>2. CASE ~SignatureVerifies(c) BY <2>3, <4>2 DEF PublishRetire
      <4> QED BY <4>1, <4>2
    <3> QED BY <2>3, <3>1, <3>2, QuietKeeps DEF PublishRetire
  <2>4. CASE PublishCreate(c) BY <2>4, QuietKeeps DEF PublishCreate, AfterSigned
  <2>5. CASE PublishOneTime(c) BY ZenonT(60), <2>5, QuietKeeps DEF PublishOneTime
  <2> QED BY <1>12, <2>1, <2>2, <2>3, <2>4, <2>5 DEF PublishStep
<1>13. ASSUME NEW c \in Call, FetchStep(c) PROVE DeviceFacts'
  <2> USE DEF Quiet, OfDevices, Registering, KeyTypeOK
  <2>1. CASE FetchDevices(c) BY <2>1, QuietKeeps DEF FetchDevices
  <2>2. ASSUME NEW d \in Device, FetchIdentity(c, d) PROVE DeviceFacts'
    BY <2>2, QuietKeeps DEF FetchIdentity
  <2>3. CASE FetchSigned(c) BY <2>3, QuietKeeps DEF FetchSigned
  <2>4. CASE FetchClaimOneTime(c) BY <2>4, QuietKeeps DEF FetchClaimOneTime, ClaimLock
  <2>5. CASE FetchCommitOneTime(c) BY <2>5, QuietKeeps DEF FetchCommitOneTime, ClaimCommitted
  <2>6. CASE FetchClaimMls(c) BY <2>6, QuietKeeps DEF FetchClaimMls, ClaimLock
  <2>7. CASE FetchCommitMls(c) BY <2>7, QuietKeeps DEF FetchCommitMls, ClaimCommitted
  <2>8. CASE FetchPush(c) BY <2>8, QuietKeeps DEF FetchPush
  <2> QED BY <1>13, <2>1, <2>2, <2>3, <2>4, <2>5, <2>6, <2>7, <2>8 DEF FetchStep
<1>14. ASSUME NEW c \in Call, Fail(c) PROVE DeviceFacts'
  <2>1. UNCHANGED <<devices, arg, todo>> BY <1>14 DEF Fail
  <2>2. pc'[c] = "failed" /\ Only(c) BY <1>14 DEF Fail, KeyTypeOK
  <2>3. DevicesNumbered' /\ NewestDeviceOnly'
    BY <2>1 DEF DeviceFacts, DevicesNumbered, NewestDeviceOnly, DevicesOf, ActiveDevices, Registered
  <2>4. RegistrationHoldsLock'
    <3>1. registerLock' = Unlocked(c) BY <1>14 DEF Fail
    <3> QED BY <2>1, <2>2, <3>1 DEF DeviceFacts, RegistrationHoldsLock, Registering, Unlocked
  <2>5. RegistrationSawAll' /\ RevokedExist'
    BY <2>1, <2>2 DEF DeviceFacts, RegistrationSawAll, RevokedExist, DevicesOf, ActiveDevices, Registered
  <2> QED BY <2>3, <2>4, <2>5 DEF DeviceFacts
<1>15. CASE UNCHANGED vars
  BY <1>15 DEF vars, DeviceFacts, DevicesNumbered, RegistrationHoldsLock, RegistrationSawAll,
               RevokedExist, NewestDeviceOnly, DevicesOf, ActiveDevices, Registered
<1> QED BY <1>1, <1>2, <1>3, <1>4, <1>5, <1>6, <1>7, <1>8, <1>9, <1>10, <1>11, <1>12, <1>13,
           <1>14, <1>15 DEF Steps, RegisterStep

-----------------------------------------------------------------------------
(* The keys that are handed out.                                           *)

OfFetch == Assembling \cup {"idle", "devices", "bundle"}

\* A step of a call that is not, and does not start, fetching, which writes no key.
Away(c) ==
    /\ UNCHANGED <<stock, rowLock, bundle, answer>>
    /\ pc[c] \notin Ended \cup Assembling /\ pc'[c] \notin OfFetch
    /\ \A e \in Call : e # c => pc'[e] = pc[e] /\ todo'[e] = todo[e]

\* Such a step disturbs nothing that is claimed of the keys.
LEMMA AwayKeeps ==
  ASSUME ClaimInv, NEW c \in Call, Away(c)
  PROVE  ClaimInv'
<1> USE DEF Away, OfFetch, Assembling, Ended
<1>1. StoredByEnded' BY DEF ClaimInv, StoredByEnded, Item
<1>2. RowLocks' BY DEF ClaimInv, RowLocks
<1>3. HeldIsConsumed' BY DEF ClaimInv, HeldIsConsumed, Held
<1>4. FetchProgress' BY DEF ClaimInv, FetchProgress, ProgressOf
<1>5. HeldOnce' BY DEF ClaimInv, HeldOnce, Held
<1> QED BY <1>1, <1>2, <1>3, <1>4, <1>5 DEF ClaimInv

\* The last statement of a publication: the keys that appear are of no bundle and no lock.
LEMMA StoreKeeps ==
  ASSUME KeyTypeOK, ClaimInv, NEW c \in Call, NEW kind, stock' = Stocked(kind, c),
         UNCHANGED <<rowLock, bundle, answer, todo>>, pc[c] \in {"oneTime", "storeMls"},
         pc'[c] = "done", \A e \in Call : e # c => pc'[e] = pc[e]
  PROVE  ClaimInv'
<1> USE DEF Ended
<1>1. ASSUME NEW i \in Item, stock[i].status # "ABSENT" PROVE i[2] # c /\ stock'[i] = stock[i]
  <2>1. i[2] # c BY <1>1 DEF ClaimInv, StoredByEnded
  <2> QED BY <2>1 DEF Stocked
<1>2. ASSUME NEW i \in Item, stock'[i].status # "ABSENT" PROVE i[2] = c \/ stock'[i] = stock[i]
  BY DEF Stocked
<1>3. StoredByEnded' BY <1>2 DEF ClaimInv, StoredByEnded, Item
<1>4. RowLocks'
  <2>1. \A e \in Call : rowLock[e] # NoItem => rowLock[e] \in Item BY DEF KeyTypeOK
  <2> QED BY <1>1, <2>1 DEF ClaimInv, RowLocks
<1>5. HeldIsConsumed' BY <1>1 DEF ClaimInv, HeldIsConsumed, Held
<1>6. FetchProgress' BY DEF ClaimInv, FetchProgress, ProgressOf, Assembling
<1>7. HeldOnce' BY DEF ClaimInv, HeldOnce, Held
<1> QED BY <1>3, <1>4, <1>5, <1>6, <1>7 DEF ClaimInv

\* A fetch's bundle changes: it may gain one key, which was AVAILABLE and is CONSUMED now.
LEMMA BundleChange ==
  ASSUME HeldIsConsumed, HeldOnce, UNCHANGED answer, NEW c \in Call, NEW got,
         \A e \in Call : e # c => bundle'[e] = bundle[e],
         \A j \in Item : Holds(bundle'[c], j) => Holds(bundle[c], j) \/ j = got,
         got \in Item => stock[got].status = "AVAILABLE" /\ stock'[got].status = "CONSUMED",
         \A j \in Item : stock[j].status = "CONSUMED" => stock'[j].status = "CONSUMED",
         \A b \in answer[c] : b # bundle[c]
  PROVE  HeldIsConsumed' /\ HeldOnce'
<1>1. HeldIsConsumed'
  <2> SUFFICES ASSUME NEW e \in Call, NEW b \in Held(e)', NEW j \in Item, Holds(b, j)
               PROVE  stock'[j].status = "CONSUMED"
    BY DEF HeldIsConsumed
  <2>1. CASE b \in Held(e) BY <2>1 DEF HeldIsConsumed
  <2>2. CASE b \notin Held(e)
    <3>1. e = c /\ b = bundle'[c] BY <2>2 DEF Held
    <3>2. Holds(bundle[c], j) \/ j = got BY <3>1
    <3>3. bundle[c] \in Held(c) BY DEF Held
    <3> QED BY <3>2, <3>3 DEF HeldIsConsumed
  <2> QED BY <2>1, <2>2
<1>2. ASSUME NEW j \in Item, NEW e \in Call, NEW b \in Held(e), Holds(b, j) PROVE j # got
  BY <1>2 DEF HeldIsConsumed
<1>3. ASSUME NEW e \in Call, NEW b \in Held(e)', NEW j \in Item, Holds(b, j)
      PROVE  \/ b \in answer[e]
             \/ e # c /\ b = bundle[e]
             \/ e = c /\ b = bundle'[c] /\ (Holds(bundle[c], j) \/ j = got)
  BY <1>3 DEF Held
<1>4. ASSUME NEW e \in Call PROVE bundle[e] \in Held(e) /\ answer[e] \subseteq Held(e)
  BY DEF Held
<1>5. HeldOnce'
  <2> SUFFICES ASSUME NEW e \in Call, NEW f \in Call, NEW b \in Held(e)', NEW h \in Held(f)',
                      NEW j \in Item, Holds(b, j), Holds(h, j)
               PROVE  e = f /\ b = h
    BY DEF HeldOnce
  <2>1. CASE j = got
    <3>1. e = c /\ b = bundle'[c] BY <1>2, <1>3, <1>4, <2>1
    <3>2. f = c /\ h = bundle'[c] BY <1>2, <1>3, <1>4, <2>1
    <3> QED BY <3>1, <3>2
  <2>2. CASE j # got
    <3>1. CASE e = c /\ b = bundle'[c] /\ Holds(bundle[c], j)
      <4>1. CASE f = c /\ h = bundle'[c] BY <3>1, <4>1
      <4>2. CASE ~(f = c /\ h = bundle'[c])
        <5>1. h \in Held(f) /\ (h \in answer[f] \/ f # c) BY <1>3, <1>4, <4>2
        <5>2. c = f /\ bundle[c] = h BY <3>1, <5>1, <1>4 DEF HeldOnce
        <5> QED BY <5>1, <5>2
      <4> QED BY <4>1, <4>2
    <3>2. CASE f = c /\ h = bundle'[c] /\ Holds(bundle[c], j)
      <4>1. CASE e = c /\ b = bundle'[c] BY <3>2, <4>1
      <4>2. CASE ~(e = c /\ b = bundle'[c])
        <5>1. b \in Held(e) /\ (b \in answer[e] \/ e # c) BY <1>3, <1>4, <4>2
        <5>2. c = e /\ bundle[c] = b BY <3>2, <5>1, <1>4 DEF HeldOnce
        <5> QED BY <5>1, <5>2
      <4> QED BY <4>1, <4>2
    <3>3. CASE b \in Held(e) /\ h \in Held(f) BY <3>3 DEF HeldOnce
    <3> QED BY <1>3, <1>4, <2>2, <3>1, <3>2, <3>3
  <2> QED BY <2>1, <2>2
<1> QED BY <1>1, <1>5

\* The null is no key.
LEMMA NoItemIsNone == NoItem \notin Item
BY DEF NoItem, Item, Kind

\* A claim locks a row nobody has locked.
LEMMA LockKeeps ==
  ASSUME KeyTypeOK, ClaimInv, NEW c \in Call, NEW i \in Item, UNCHANGED <<stock, bundle, answer, todo>>,
         stock[i].status = "AVAILABLE", \A e \in Call : rowLock[e] # i,
         rowLock' = [rowLock EXCEPT ![c] = i],
         \/ pc[c] = "claimOneTime" /\ pc'[c] = "commitOneTime"
         \/ pc[c] = "claimMls" /\ pc'[c] = "commitMls",
         \A e \in Call : e # c => pc'[e] = pc[e]
  PROVE  ClaimInv'
<1> USE DEF Ended
<1>1. StoredByEnded' BY DEF ClaimInv, StoredByEnded, Item
<1>2. RowLocks' BY DEF ClaimInv, RowLocks, KeyTypeOK
<1>3. HeldIsConsumed' BY DEF ClaimInv, HeldIsConsumed, Held
<1>4. FetchProgress' BY DEF ClaimInv, FetchProgress, ProgressOf, Assembling
<1>5. HeldOnce' BY DEF ClaimInv, HeldOnce, Held
<1> QED BY <1>1, <1>2, <1>3, <1>4, <1>5 DEF ClaimInv

\* A claim that finds no row passes on.
LEMMA PassKeeps ==
  ASSUME ClaimInv, NEW c \in Call, UNCHANGED <<stock, rowLock, bundle, answer, todo>>,
         \/ pc[c] = "claimOneTime" /\ pc'[c] = "claimMls"
         \/ pc[c] = "claimMls" /\ pc'[c] = "push",
         \A e \in Call : e # c => pc'[e] = pc[e]
  PROVE  ClaimInv'
<1> USE DEF Ended
<1>1. StoredByEnded' BY DEF ClaimInv, StoredByEnded, Item
<1>2. RowLocks' BY DEF ClaimInv, RowLocks
<1>3. HeldIsConsumed' BY DEF ClaimInv, HeldIsConsumed, Held
<1>4. FetchProgress' BY DEF ClaimInv, FetchProgress, ProgressOf, Assembling
<1>5. HeldOnce' BY DEF ClaimInv, HeldOnce, Held
<1> QED BY <1>1, <1>2, <1>3, <1>4, <1>5 DEF ClaimInv

\* Every step of a fetch keeps what is claimed of the keys.
LEMMA FetchKeeps ==
  ASSUME KeyTypeOK, ClaimInv, NEW c \in Call, FetchStep(c)
  PROVE  ClaimInv'
<1> USE DEF Goto, tables, locals
<1> DEFINE Only(d) == \A e \in Call : e # d => pc'[e] = pc[e]
<1> QED
  <2>1. CASE FetchDevices(c)
    <3>1. /\ pc[c] = "devices" /\ pc'[c] \in {"refused", "bundle"} /\ Only(c)
          /\ UNCHANGED <<stock, rowLock, bundle, answer>>
          /\ \A e \in Call : e # c => todo'[e] = todo[e]
      BY <2>1 DEF FetchDevices, KeyTypeOK
    <3>2. StoredByEnded' BY <3>1 DEF ClaimInv, StoredByEnded, Item, Ended
    <3>3. RowLocks' BY <3>1 DEF ClaimInv, RowLocks
    <3>4. FetchProgress' BY <3>1 DEF ClaimInv, FetchProgress, ProgressOf, Assembling
    <3>5. HeldIsConsumed' /\ HeldOnce' BY <3>1 DEF ClaimInv, HeldIsConsumed, HeldOnce, Held
    <3> QED BY <3>2, <3>3, <3>4, <3>5 DEF ClaimInv
  <2>2. ASSUME NEW d \in Device, FetchIdentity(c, d) PROVE ClaimInv'
    <3>1. /\ pc[c] = "bundle" /\ pc'[c] = "signed" /\ Only(c) /\ d \in todo[c]
          /\ UNCHANGED <<stock, rowLock, answer>> /\ todo'[c] = todo[c] \ {d}
          /\ \A e \in Call : e # c => todo'[e] = todo[e] /\ bundle'[e] = bundle[e]
      BY <2>2 DEF FetchIdentity, KeyTypeOK
    <3>2. bundle'[c] = [NoBundle EXCEPT !.device = d, !.identity = identity[d]]
      BY <2>2 DEF FetchIdentity, KeyTypeOK
    <3>3. bundle'[c].device = d /\ bundle'[c].oneTime = NoItem /\ bundle'[c].mls = NoItem
      BY <3>2 DEF NoBundle
    <3>4. bundle[c] = NoBundle BY <3>1 DEF ClaimInv, FetchProgress, ProgressOf
    <3>5. \A b \in answer[c] : b # bundle[c] BY <3>1 DEF ClaimInv, FetchProgress, ProgressOf
    <3>6. \A j \in Item : Holds(bundle'[c], j) => Holds(bundle[c], j) \/ j = NoItem
      BY <3>3 DEF Holds
    <3>7. HeldIsConsumed' /\ HeldOnce'
      BY <3>1, <3>5, <3>6, BundleChange, NoItemIsNone DEF ClaimInv
    <3>8. StoredByEnded' BY <3>1 DEF ClaimInv, StoredByEnded, Item, Ended
    <3>9. RowLocks' BY <3>1 DEF ClaimInv, RowLocks
    <3>10. FetchProgress'
      <4>1. \A b \in answer[c] : b.device \in Device \ todo[c]
        BY <3>1 DEF ClaimInv, FetchProgress, ProgressOf
      <4> QED BY <3>1, <3>3, <4>1 DEF ClaimInv, FetchProgress, ProgressOf, Assembling
    <3> QED BY <3>7, <3>8, <3>9, <3>10 DEF ClaimInv
  <2>3. CASE FetchSigned(c)
    <3>1. /\ pc[c] = "signed" /\ pc'[c] = "claimOneTime" /\ Only(c)
          /\ UNCHANGED <<stock, rowLock, answer, todo>>
          /\ \A e \in Call : e # c => bundle'[e] = bundle[e]
      BY <2>3 DEF FetchSigned, KeyTypeOK
    <3>2. /\ bundle'[c].device = bundle[c].device
          /\ bundle'[c].oneTime = bundle[c].oneTime /\ bundle'[c].mls = bundle[c].mls
      <4>1. bundle[c] \in Bundles BY DEF KeyTypeOK
      <4>2. ASSUME NEW s, bundle' = [bundle EXCEPT ![c].signed = s]
            PROVE  bundle'[c] = [bundle[c] EXCEPT !.signed = s]
        BY <4>2 DEF KeyTypeOK
      <4> QED BY <2>3, <4>1, <4>2 DEF FetchSigned, Bundles
    <3>3. \A b \in answer[c] : b # bundle[c] BY <3>1 DEF ClaimInv, FetchProgress, ProgressOf, Assembling
    <3>4. \A j \in Item : Holds(bundle'[c], j) => Holds(bundle[c], j) \/ j = NoItem
      BY <3>2 DEF Holds
    <3>5. HeldIsConsumed' /\ HeldOnce'
      BY <3>1, <3>3, <3>4, BundleChange, NoItemIsNone DEF ClaimInv
    <3>6. StoredByEnded' BY <3>1 DEF ClaimInv, StoredByEnded, Item, Ended
    <3>7. RowLocks' BY <3>1 DEF ClaimInv, RowLocks
    <3>8. FetchProgress' BY <3>1, <3>2 DEF ClaimInv, FetchProgress, ProgressOf, Assembling
    <3> QED BY <3>5, <3>6, <3>7, <3>8 DEF ClaimInv
  <2>4. CASE FetchClaimOneTime(c)
    <3>1. pc[c] = "claimOneTime" /\ UNCHANGED <<stock, bundle, answer, todo>> /\ Only(c)
      BY <2>4 DEF FetchClaimOneTime, ClaimLock, KeyTypeOK
    <3>2. ASSUME NEW i \in Claimable("oneTime", bundle[c].device),
                 rowLock' = [rowLock EXCEPT ![c] = i], pc'[c] = "commitOneTime"
          PROVE  ClaimInv'
      BY <3>1, <3>2, LockKeeps DEF Claimable
    <3>3. ASSUME UNCHANGED rowLock, pc'[c] = "claimMls" PROVE ClaimInv'
      BY <3>1, <3>3, PassKeeps
    <3> QED BY <2>4, <3>2, <3>3 DEF FetchClaimOneTime, ClaimLock, KeyTypeOK
  <2>5. CASE FetchCommitOneTime(c)
    <3>1. pc[c] = "commitOneTime" /\ pc'[c] = "claimMls" /\ Only(c) BY <2>5 DEF FetchCommitOneTime, KeyTypeOK
    <3>2. UNCHANGED <<answer, todo>> BY <2>5 DEF FetchCommitOneTime, ClaimCommitted
    <3>3. PICK got \in Item : got = rowLock[c] BY <3>1 DEF ClaimInv, RowLocks
    <3>4. got # NoItem BY NoItemIsNone
    <3>5. stock[got].status = "AVAILABLE" BY <3>3, <3>4 DEF ClaimInv, RowLocks
    <3>6. bundle'[c] = [bundle[c] EXCEPT !.oneTime = got] /\ \A e \in Call : e # c => bundle'[e] = bundle[e]
      BY <2>5, <3>3 DEF FetchCommitOneTime, KeyTypeOK
    <3>7. bundle[c] \in Bundles BY DEF KeyTypeOK
    <3>8. /\ bundle'[c].oneTime = got /\ bundle'[c].device = bundle[c].device
          /\ bundle'[c].mls = bundle[c].mls
      BY <3>6, <3>7 DEF Bundles
    <3>9. \A j \in Item : Holds(bundle'[c], j) => Holds(bundle[c], j) \/ j = got BY <3>8 DEF Holds
    <3>10. stock' = [stock EXCEPT ![got].status = "CONSUMED"] BY <2>5, <3>3 DEF FetchCommitOneTime, ClaimCommitted
    <3>11. /\ stock'[got].status = "CONSUMED"
           /\ \A j \in Item : j # got => stock'[j] = stock[j]
      <4>1. stock[got] \in [device : AnyDevice, status : {"ABSENT", "AVAILABLE", "CONSUMED"}]
        BY DEF KeyTypeOK
      <4>2. stock'[got] = [stock[got] EXCEPT !.status = "CONSUMED"] BY <3>10 DEF KeyTypeOK
      <4> QED BY <3>10, <4>1, <4>2 DEF KeyTypeOK
    <3>12. rowLock'[c] = NoItem /\ \A e \in Call : e # c => rowLock'[e] = rowLock[e]
      BY <2>5 DEF FetchCommitOneTime, ClaimCommitted, KeyTypeOK
    <3>13. \A b \in answer[c] : b # bundle[c] BY <3>1 DEF ClaimInv, FetchProgress, ProgressOf, Assembling
    <3>14. HeldIsConsumed' /\ HeldOnce'
      BY <3>2, <3>5, <3>6, <3>9, <3>11, <3>13, BundleChange DEF ClaimInv
    <3>15. RowLocks'
      <4>1. \A e \in Call : e # c => rowLock[e] # got BY <3>3, <3>4 DEF ClaimInv, RowLocks
      <4>2. \A e \in Call : e # c /\ rowLock[e] # NoItem => stock'[rowLock[e]] = stock[rowLock[e]]
        BY <3>11, <4>1 DEF KeyTypeOK
      <4>3. \A e \in Call : rowLock'[e] # NoItem => e # c /\ rowLock'[e] = rowLock[e] BY <3>12
      <4>4. \A e \in Call : pc'[e] \in {"commitOneTime", "commitMls"} => e # c /\ pc'[e] = pc[e]
        BY <3>1
      <4>5. \A e \in Call : rowLock'[e] # NoItem =>
               /\ pc'[e] \in {"commitOneTime", "commitMls"}
               /\ stock'[rowLock'[e]].status = "AVAILABLE"
        BY <3>1, <4>2, <4>3 DEF ClaimInv, RowLocks
      <4>6. \A e, f \in Call : rowLock'[e] # NoItem /\ rowLock'[e] = rowLock'[f] => e = f
        BY <4>3 DEF ClaimInv, RowLocks
      <4>7. \A e \in Call : pc'[e] \in {"commitOneTime", "commitMls"} => rowLock'[e] \in Item
        BY <3>12, <4>4 DEF ClaimInv, RowLocks
      <4> QED BY <4>5, <4>6, <4>7 DEF RowLocks
    <3>16. StoredByEnded' BY <3>1, <3>5, <3>11 DEF ClaimInv, StoredByEnded, Item, Ended
    <3>17. FetchProgress'
      <4>1. FetchProgress BY DEF ClaimInv
      <4> SUFFICES ASSUME NEW e \in Call PROVE ProgressOf(e)'
        BY DEF FetchProgress
      <4>2. CASE e # c BY <3>1, <3>2, <3>6, <4>1, <4>2 DEF FetchProgress, ProgressOf
      <4>3. CASE e = c
        <5>1. ProgressOf(c) BY <4>1 DEF FetchProgress
        <5>2. bundle[c].device \in Device \ todo[c] BY <3>1, <5>1 DEF ProgressOf, Assembling
        <5>3. \A b \in answer[c] : b.device \in Device \ (todo[c] \cup {bundle[c].device})
          BY <3>1, <5>1 DEF ProgressOf, Assembling
        <5>4. bundle[c].mls = NoItem BY <3>1, <5>1 DEF ProgressOf, Assembling
        <5> QED BY <3>1, <3>2, <3>8, <4>3, <5>2, <5>3, <5>4 DEF ProgressOf, Assembling
      <4> QED BY <4>2, <4>3
    <3> QED BY <3>14, <3>15, <3>16, <3>17 DEF ClaimInv
  <2>6. CASE FetchClaimMls(c)
    <3>1. pc[c] = "claimMls" /\ UNCHANGED <<stock, bundle, answer, todo>> /\ Only(c)
      BY <2>6 DEF FetchClaimMls, ClaimLock, KeyTypeOK
    <3>2. ASSUME NEW i \in Claimable("mls", bundle[c].device),
                 rowLock' = [rowLock EXCEPT ![c] = i], pc'[c] = "commitMls"
          PROVE  ClaimInv'
      BY <3>1, <3>2, LockKeeps DEF Claimable
    <3>3. ASSUME UNCHANGED rowLock, pc'[c] = "push" PROVE ClaimInv'
      BY <3>1, <3>3, PassKeeps
    <3> QED BY <2>6, <3>2, <3>3 DEF FetchClaimMls, ClaimLock, KeyTypeOK
  <2>7. CASE FetchCommitMls(c)
    <3>1. pc[c] = "commitMls" /\ pc'[c] = "push" /\ Only(c) BY <2>7 DEF FetchCommitMls, KeyTypeOK
    <3>2. UNCHANGED <<answer, todo>> BY <2>7 DEF FetchCommitMls, ClaimCommitted
    <3>3. PICK got \in Item : got = rowLock[c] BY <3>1 DEF ClaimInv, RowLocks
    <3>4. got # NoItem BY NoItemIsNone
    <3>5. stock[got].status = "AVAILABLE" BY <3>3, <3>4 DEF ClaimInv, RowLocks
    <3>6. bundle'[c] = [bundle[c] EXCEPT !.mls = got] /\ \A e \in Call : e # c => bundle'[e] = bundle[e]
      BY <2>7, <3>3 DEF FetchCommitMls, KeyTypeOK
    <3>7. bundle[c] \in Bundles BY DEF KeyTypeOK
    <3>8. /\ bundle'[c].mls = got /\ bundle'[c].device = bundle[c].device
          /\ bundle'[c].oneTime = bundle[c].oneTime
      BY <3>6, <3>7 DEF Bundles
    <3>9. \A j \in Item : Holds(bundle'[c], j) => Holds(bundle[c], j) \/ j = got BY <3>8 DEF Holds
    <3>10. stock' = [stock EXCEPT ![got].status = "CONSUMED"] BY <2>7, <3>3 DEF FetchCommitMls, ClaimCommitted
    <3>11. /\ stock'[got].status = "CONSUMED"
           /\ \A j \in Item : j # got => stock'[j] = stock[j]
      <4>1. stock[got] \in [device : AnyDevice, status : {"ABSENT", "AVAILABLE", "CONSUMED"}]
        BY DEF KeyTypeOK
      <4>2. stock'[got] = [stock[got] EXCEPT !.status = "CONSUMED"] BY <3>10 DEF KeyTypeOK
      <4> QED BY <3>10, <4>1, <4>2 DEF KeyTypeOK
    <3>12. rowLock'[c] = NoItem /\ \A e \in Call : e # c => rowLock'[e] = rowLock[e]
      BY <2>7 DEF FetchCommitMls, ClaimCommitted, KeyTypeOK
    <3>13. \A b \in answer[c] : b # bundle[c] BY <3>1 DEF ClaimInv, FetchProgress, ProgressOf, Assembling
    <3>14. HeldIsConsumed' /\ HeldOnce'
      BY <3>2, <3>5, <3>6, <3>9, <3>11, <3>13, BundleChange DEF ClaimInv
    <3>15. RowLocks'
      <4>1. \A e \in Call : e # c => rowLock[e] # got BY <3>3, <3>4 DEF ClaimInv, RowLocks
      <4>2. \A e \in Call : e # c /\ rowLock[e] # NoItem => stock'[rowLock[e]] = stock[rowLock[e]]
        BY <3>11, <4>1 DEF KeyTypeOK
      <4>3. \A e \in Call : rowLock'[e] # NoItem => e # c /\ rowLock'[e] = rowLock[e] BY <3>12
      <4>4. \A e \in Call : pc'[e] \in {"commitOneTime", "commitMls"} => e # c /\ pc'[e] = pc[e]
        BY <3>1
      <4>5. \A e \in Call : rowLock'[e] # NoItem =>
               /\ pc'[e] \in {"commitOneTime", "commitMls"}
               /\ stock'[rowLock'[e]].status = "AVAILABLE"
        BY <3>1, <4>2, <4>3 DEF ClaimInv, RowLocks
      <4>6. \A e, f \in Call : rowLock'[e] # NoItem /\ rowLock'[e] = rowLock'[f] => e = f
        BY <4>3 DEF ClaimInv, RowLocks
      <4>7. \A e \in Call : pc'[e] \in {"commitOneTime", "commitMls"} => rowLock'[e] \in Item
        BY <3>12, <4>4 DEF ClaimInv, RowLocks
      <4> QED BY <4>5, <4>6, <4>7 DEF RowLocks
    <3>16. StoredByEnded' BY <3>1, <3>5, <3>11 DEF ClaimInv, StoredByEnded, Item, Ended
    <3>17. FetchProgress'
      <4>1. FetchProgress BY DEF ClaimInv
      <4> SUFFICES ASSUME NEW e \in Call PROVE ProgressOf(e)'
        BY DEF FetchProgress
      <4>2. CASE e # c BY <3>1, <3>2, <3>6, <4>1, <4>2 DEF FetchProgress, ProgressOf
      <4>3. CASE e = c
        <5>1. ProgressOf(c) BY <4>1 DEF FetchProgress
        <5>2. bundle[c].device \in Device \ todo[c] BY <3>1, <5>1 DEF ProgressOf, Assembling
        <5>3. \A b \in answer[c] : b.device \in Device \ (todo[c] \cup {bundle[c].device})
          BY <3>1, <5>1 DEF ProgressOf, Assembling
        <5>4. bundle[c].mls = NoItem BY <3>1, <5>1 DEF ProgressOf, Assembling
        <5> QED BY <3>1, <3>2, <3>8, <4>3, <5>2, <5>3, <5>4 DEF ProgressOf, Assembling
      <4> QED BY <4>2, <4>3
    <3> QED BY <3>14, <3>15, <3>16, <3>17 DEF ClaimInv
  <2>8. CASE FetchPush(c)
    <3>1. /\ pc[c] = "push" /\ pc'[c] \in {"done", "bundle"} /\ Only(c)
          /\ UNCHANGED <<stock, rowLock, todo>>
          /\ bundle'[c] = NoBundle /\ answer'[c] = answer[c] \cup {bundle[c]}
          /\ \A e \in Call : e # c => bundle'[e] = bundle[e] /\ answer'[e] = answer[e]
      BY <2>8 DEF FetchPush, KeyTypeOK
    <3>2. \A j \in Item : ~Holds(NoBundle, j) BY DEF Holds, NoBundle
    <3>3. \A e \in Call : \A b \in Held(e)' : b \in Held(e) \/ b = NoBundle BY <3>1 DEF Held
    <3>4. HeldIsConsumed' BY <3>1, <3>2, <3>3 DEF ClaimInv, HeldIsConsumed
    <3>5. HeldOnce' BY <3>2, <3>3 DEF ClaimInv, HeldOnce
    <3>6. StoredByEnded' BY <3>1 DEF ClaimInv, StoredByEnded, Item, Ended
    <3>7. RowLocks' BY <3>1 DEF ClaimInv, RowLocks
    <3>8. FetchProgress'
      <4>1. NoBundle.device \notin Device BY DEF NoBundle, NoDevice, Device
      <4>2. bundle[c].device \in Device \ todo[c] BY <3>1 DEF ClaimInv, FetchProgress, ProgressOf, Assembling
      <4>3. \A b \in answer'[c] : b.device \in Device \ (todo[c] \cup {NoBundle.device})
        BY <3>1, <4>1, <4>2 DEF ClaimInv, FetchProgress, ProgressOf, Assembling
      <4> QED BY <3>1, <4>3 DEF ClaimInv, FetchProgress, ProgressOf, Assembling
    <3> QED BY <3>4, <3>5, <3>6, <3>7, <3>8 DEF ClaimInv
  <2> QED BY <2>1, <2>2, <2>3, <2>4, <2>5, <2>6, <2>7, <2>8 DEF FetchStep

\* Every step keeps what is claimed of the keys.
LEMMA ClaimStep ==
  ASSUME KeyTypeOK, ClaimInv, [Next]_vars
  PROVE  ClaimInv'
<1> USE CallParts DEF Goto, tables, locals
<1>1. Steps BY NextIsSteps
<1>2. ASSUME NEW c \in Call, Away(c) PROVE ClaimInv' BY <1>2, AwayKeeps
<1>3. ASSUME NEW c \in Registration, NEW p \in Person, RegisterBegin(c, p) PROVE ClaimInv'
  BY <1>2, <1>3 DEF RegisterBegin, Away, OfFetch, Assembling, Ended, KeyTypeOK
<1>4. ASSUME NEW c \in Revocation, NEW p \in Person, NEW d \in Device, RevokeRead(c, p, d)
      PROVE  ClaimInv'
  <2>1. CASE OwnsActive(p, d)
    <3>1. /\ pc[c] = "idle" /\ pc'[c] = "revoke" /\ UNCHANGED <<stock, rowLock, bundle, answer>>
          /\ \A e \in Call : e # c => pc'[e] = pc[e] /\ todo'[e] = todo[e]
      BY <1>4, <2>1 DEF RevokeRead, KeyTypeOK
    <3> QED BY <1>2, <3>1 DEF Away, OfFetch, Assembling, Ended
  <2>2. CASE ~OwnsActive(p, d)
    BY ZenonT(60), <1>2, <1>4, <2>2 DEF RevokeRead, Away, OfFetch, Assembling, Ended, KeyTypeOK
  <2> QED BY <2>1, <2>2
<1>5. ASSUME NEW c \in Publication, NEW d \in Device, NEW r \in PublishRequest(d),
             PublishCheck(c, r)
      PROVE  ClaimInv'
  <2>1. /\ pc[c] = "idle" /\ UNCHANGED <<stock, rowLock, bundle, answer, todo>>
        /\ pc'[c] \in {"refused", "identity", "readIdentity", "oneTime", "done"}
        /\ \A e \in Call : e # c => pc'[e] = pc[e] /\ todo'[e] = todo[e]
    BY <1>5 DEF PublishCheck, AfterCheck, AfterIdentity, AfterSigned, KeyTypeOK
  <2> QED BY <1>2, <2>1 DEF Away, OfFetch, Assembling, Ended
<1>6. ASSUME NEW c \in MlsPublication, NEW p \in Person, NEW d \in Device,
             NEW n \in 0..(MaxBatch + 1), MlsCheck(c, p, d, n)
      PROVE  ClaimInv'
  BY <1>2, <1>6 DEF MlsCheck, Away, OfFetch, Assembling, Ended, KeyTypeOK
<1>7. ASSUME NEW c \in Fetch, NEW p \in Person, NEW denied \in BOOLEAN,
             FetchAuthorize(c, p, denied)
      PROVE  ClaimInv'
  <2>1. /\ pc[c] = "idle" /\ pc'[c] \in {"refused", "devices"}
        /\ \A e \in Call : e # c => pc'[e] = pc[e]
        /\ UNCHANGED <<stock, rowLock, bundle, answer, todo>>
    BY <1>7 DEF FetchAuthorize, KeyTypeOK
  <2>2. StoredByEnded' BY <2>1 DEF ClaimInv, StoredByEnded, Item, Ended
  <2>3. RowLocks' BY <2>1 DEF ClaimInv, RowLocks
  <2>4. FetchProgress' BY <2>1 DEF ClaimInv, FetchProgress, ProgressOf, Assembling
  <2>5. HeldIsConsumed' /\ HeldOnce' BY <2>1 DEF ClaimInv, HeldIsConsumed, HeldOnce, Held
  <2> QED BY <2>2, <2>3, <2>4, <2>5 DEF ClaimInv
<1>8. ASSUME NEW c \in Call, RegisterStep(c) PROVE ClaimInv'
  <2> USE DEF Away, OfFetch, Assembling, Ended, KeyTypeOK
  <2>1. CASE RegisterLock(c) BY <1>2, <2>1 DEF RegisterLock
  <2>2. CASE RegisterRead(c) BY <1>2, <2>2 DEF RegisterRead
  <2>3. CASE RegisterCommit(c) BY <1>2, <2>3 DEF RegisterCommit
  <2> QED BY <1>8, <2>1, <2>2, <2>3 DEF RegisterStep
<1>9. ASSUME NEW c \in Call, RevokeWrite(c) PROVE ClaimInv'
  BY <1>2, <1>9 DEF RevokeWrite, Away, OfFetch, Assembling, Ended, KeyTypeOK
<1>10. ASSUME NEW c \in Call, MlsStore(c) PROVE ClaimInv'
  BY <1>10, StoreKeeps DEF MlsStore, KeyTypeOK
<1>11. ASSUME NEW c \in Publication, PublishStep(c) PROVE ClaimInv'
  <2> USE DEF Away, OfFetch, Assembling, Ended, KeyTypeOK
  <2>1. CASE PublishIdentity(c) BY <1>2, <2>1 DEF PublishIdentity, AfterIdentity, AfterSigned
  <2>2. CASE PublishReadIdentity(c) BY <1>2, <2>2 DEF PublishReadIdentity
  <2>3. CASE PublishRetire(c)
    <3>1. CASE SignatureVerifies(c) BY ZenonT(60), <1>2, <2>3, <3>1 DEF PublishRetire
    <3>2. CASE ~SignatureVerifies(c) BY ZenonT(60), <1>2, <2>3, <3>2 DEF PublishRetire
    <3> QED BY <3>1, <3>2
  <2>4. CASE PublishCreate(c) BY <1>2, <2>4 DEF PublishCreate, AfterSigned
  <2>5. CASE PublishOneTime(c)
    <3>1. CASE arg[c].batch <= MaxBatch BY <2>5, <3>1, StoreKeeps DEF PublishOneTime
    <3>2. CASE ~(arg[c].batch <= MaxBatch) BY ZenonT(60), <1>2, <2>5, <3>2 DEF PublishOneTime
    <3> QED BY <3>1, <3>2
  <2> QED BY <1>11, <2>1, <2>2, <2>3, <2>4, <2>5 DEF PublishStep
<1>12. ASSUME NEW c \in Call, FetchStep(c) PROVE ClaimInv' BY <1>12, FetchKeeps
<1>13. ASSUME NEW c \in Call, Fail(c) PROVE ClaimInv'
  <2>1. /\ pc[c] \notin Ended \cup {"idle"} /\ pc'[c] = "failed"
        /\ \A e \in Call : e # c => pc'[e] = pc[e] /\ rowLock'[e] = rowLock[e]
        /\ rowLock'[c] = NoItem /\ UNCHANGED <<stock, bundle, answer, todo>>
    BY <1>13 DEF Fail, Running, KeyTypeOK
  <2>2. StoredByEnded' BY <2>1 DEF ClaimInv, StoredByEnded, Item, Ended
  <2>3. RowLocks' BY <2>1 DEF ClaimInv, RowLocks
  <2>4. FetchProgress' BY <2>1 DEF ClaimInv, FetchProgress, ProgressOf, Assembling
  <2>5. HeldIsConsumed' /\ HeldOnce' BY <2>1 DEF ClaimInv, HeldIsConsumed, HeldOnce, Held
  <2> QED BY <2>2, <2>3, <2>4, <2>5 DEF ClaimInv
<1>14. CASE UNCHANGED vars
  BY <1>14 DEF vars, ClaimInv, StoredByEnded, RowLocks, HeldIsConsumed, FetchProgress, ProgressOf,
               HeldOnce, Held
<1> QED BY <1>1, <1>3, <1>4, <1>5, <1>6, <1>7, <1>8, <1>9, <1>10, <1>11, <1>12, <1>13, <1>14
        DEF Steps

-----------------------------------------------------------------------------
(* How fresh the devices are that a fetch serves.                          *)

\* What a step of a fetch leaves alone.
LEMMA FetchFrame ==
  ASSUME KeyTypeOK, NEW c \in Call, FetchStep(c)
  PROVE  /\ UNCHANGED <<devices, arg, since>> /\ pc[c] # "idle"
         /\ \A e \in Call : e # c => /\ pc'[e] = pc[e] /\ todo'[e] = todo[e]
                                     /\ bundle'[e] = bundle[e] /\ answer'[e] = answer[e]
<1> USE DEF Goto, tables, locals, KeyTypeOK
<1>1. CASE FetchDevices(c) BY <1>1 DEF FetchDevices
<1>2. CASE \E d \in Device : FetchIdentity(c, d) BY <1>2 DEF FetchIdentity
<1>3. CASE FetchSigned(c) BY <1>3 DEF FetchSigned
<1>4. CASE FetchClaimOneTime(c) BY <1>4 DEF FetchClaimOneTime, ClaimLock
<1>5. CASE FetchCommitOneTime(c) BY <1>5 DEF FetchCommitOneTime, ClaimCommitted
<1>6. CASE FetchClaimMls(c) BY <1>6 DEF FetchClaimMls, ClaimLock
<1>7. CASE FetchCommitMls(c) BY <1>7 DEF FetchCommitMls, ClaimCommitted
<1>8. CASE FetchPush(c) BY <1>8 DEF FetchPush
<1> QED BY <1>1, <1>2, <1>3, <1>4, <1>5, <1>6, <1>7, <1>8 DEF FetchStep

\* No step takes a device away from a person.
LEMMA DevicesGrow ==
  ASSUME KeyTypeOK, DeviceFacts, [Next]_vars
  PROVE  \A q : DevicesOf(q) \subseteq DevicesOf(q)'
<1> USE CallParts DEF Goto, tables, locals
<1>1. Steps BY NextIsSteps
<1>2. ASSUME NEW c \in Call, RegisterCommit(c) PROVE \A q : DevicesOf(q) \subseteq DevicesOf(q)'
  BY <1>2, CommitDevices
<1>3. ASSUME NEW c \in Call, RevokeWrite(c) PROVE \A q : DevicesOf(q) \subseteq DevicesOf(q)'
  BY <1>3, RevokeDevices
<1>4. ASSUME UNCHANGED devices PROVE \A q : DevicesOf(q) \subseteq DevicesOf(q)'
  BY <1>4 DEF DevicesOf, Registered
<1>5. \/ \E c \in Call : RegisterCommit(c) \/ RevokeWrite(c)
      \/ UNCHANGED devices
  <2>1. ASSUME NEW c \in Registration, NEW p \in Person, RegisterBegin(c, p) PROVE UNCHANGED devices
    BY <2>1 DEF RegisterBegin
  <2>2. ASSUME NEW c \in Revocation, NEW p \in Person, NEW d \in Device, RevokeRead(c, p, d)
        PROVE  UNCHANGED devices
    BY <2>2 DEF RevokeRead
  <2>3. ASSUME NEW c \in Publication, NEW r, PublishCheck(c, r) PROVE UNCHANGED devices
    BY <2>3 DEF PublishCheck
  <2>4. ASSUME NEW c, NEW p, NEW d, NEW n, MlsCheck(c, p, d, n) PROVE UNCHANGED devices
    BY <2>4 DEF MlsCheck
  <2>5. ASSUME NEW c, NEW p, NEW denied, FetchAuthorize(c, p, denied) PROVE UNCHANGED devices
    BY <2>5 DEF FetchAuthorize
  <2>6. ASSUME NEW c, RegisterLock(c) \/ RegisterRead(c) \/ MlsStore(c) \/ Fail(c)
        PROVE  UNCHANGED devices
    BY <2>6 DEF RegisterLock, RegisterRead, MlsStore, Fail
  <2>7. ASSUME NEW c \in Call, FetchStep(c) PROVE UNCHANGED devices
    BY <2>7, FetchFrame
  <2>8. ASSUME NEW c, PublishStep(c) PROVE UNCHANGED devices
    BY <2>8 DEF PublishStep, PublishIdentity, PublishReadIdentity, PublishRetire,
                PublishCreate, PublishOneTime
  <2>9. ASSUME UNCHANGED vars PROVE UNCHANGED devices BY <2>9 DEF vars
  <2> QED BY <1>1, <2>1, <2>2, <2>3, <2>4, <2>5, <2>6, <2>7, <2>8, <2>9 DEF Steps, RegisterStep
<1> QED BY <1>2, <1>3, <1>4, <1>5

\* What a call claims of freshness is not disturbed by a step of another call.
LEMMA FreshStill ==
  ASSUME NEW e \in Call, FreshOf(e), \A q : DevicesOf(q) \subseteq DevicesOf(q)',
         pc'[e] = pc[e], arg'[e] = arg[e], todo'[e] = todo[e], bundle'[e] = bundle[e],
         answer'[e] = answer[e], since'[e] = since[e]
  PROVE  FreshOf(e)'
<1>1. PICK p : p = arg[e].person OBVIOUS
<1>2. \A d : IsFresh(e, d) <=> d \in DevicesOf(p) /\ \A s \in since[e] : s <= d BY <1>1 DEF IsFresh
<1>3. \A d : IsFresh(e, d)' <=> d \in DevicesOf(p)' /\ \A s \in since[e] : s <= d
  BY <1>1 DEF IsFresh, DevicesOf
<1>4. DevicesOf(arg[e].person)' = DevicesOf(p)' BY <1>1 DEF DevicesOf
<1> QED BY <1>1, <1>2, <1>3, <1>4 DEF FreshOf

\* Nor by a step of its own that leaves the loop or is not of a fetch.
LEMMA FreshLeft ==
  ASSUME NEW c \in Call, FreshOf(c), ProgressOf(c), \A q : DevicesOf(q) \subseteq DevicesOf(q)',
         pc'[c] \notin OfFetch, arg'[c] = arg[c] \/ pc[c] = "idle",
         answer'[c] = answer[c], since'[c] = since[c]
  PROVE  FreshOf(c)'
<1>1. CASE pc[c] = "idle"
  <2>1. since'[c] = {} /\ answer'[c] = {} BY <1>1 DEF FreshOf, ProgressOf
  <2> QED BY <2>1 DEF FreshOf, OfFetch
<1>2. CASE arg'[c] = arg[c]
  <2>1. PICK p : p = arg[c].person OBVIOUS
  <2>2. \A d : IsFresh(c, d) <=> d \in DevicesOf(p) /\ \A s \in since[c] : s <= d
    BY <2>1 DEF IsFresh
  <2>3. \A d : IsFresh(c, d)' <=> d \in DevicesOf(p)' /\ \A s \in since[c] : s <= d
    BY <1>2, <2>1 DEF IsFresh, DevicesOf
  <2>4. DevicesOf(arg[c].person)' = DevicesOf(p)' BY <1>2, <2>1 DEF DevicesOf
  <2> QED BY <1>2, <2>1, <2>2, <2>3, <2>4 DEF FreshOf, OfFetch
<1> QED BY <1>1, <1>2

\* Every step keeps what is claimed of freshness.
LEMMA FreshStep ==
  ASSUME KeyTypeOK, DeviceFacts, ClaimInv, FetchIsFresh, [Next]_vars
  PROVE  FetchIsFresh'
<1> USE CallParts DEF Goto, tables, locals
<1>1. Steps BY NextIsSteps
<1>2. \A q : DevicesOf(q) \subseteq DevicesOf(q)' BY DevicesGrow
<1> DEFINE Others(c) == \A e \in Call : e # c =>
      /\ pc'[e] = pc[e] /\ arg'[e] = arg[e] /\ todo'[e] = todo[e]
      /\ bundle'[e] = bundle[e] /\ answer'[e] = answer[e] /\ since'[e] = since[e]
           Leaves(c) == /\ pc'[c] \notin OfFetch /\ (arg'[c] = arg[c] \/ pc[c] = "idle")
                        /\ answer'[c] = answer[c] /\ since'[c] = since[c]
<1>3. \A e \in Call : FreshOf(e) /\ ProgressOf(e) BY DEF FetchIsFresh, ClaimInv, FetchProgress
<1>4. ASSUME NEW c \in Call, Others(c), FreshOf(c)' PROVE FetchIsFresh'
  BY <1>2, <1>3, <1>4, FreshStill DEF FetchIsFresh
<1>5. ASSUME NEW c \in Call, Others(c), Leaves(c) PROVE FetchIsFresh'
  <2>1. FreshOf(c)' BY <1>2, <1>3, <1>5, FreshLeft
  <2> QED BY <1>4, <1>5, <2>1
<1> HIDE DEF Others, Leaves
<1> USE DEF KeyTypeOK
<1>6. ASSUME NEW c \in Registration, NEW p \in Person, RegisterBegin(c, p) PROVE FetchIsFresh'
  <2>1. Others(c) /\ Leaves(c) BY <1>6 DEF RegisterBegin, Others, Leaves, OfFetch, Assembling
  <2> QED BY <2>1, <1>5
<1>7. ASSUME NEW c \in Revocation, NEW p \in Person, NEW d \in Device, RevokeRead(c, p, d)
      PROVE  FetchIsFresh'
  <2>1. UNCHANGED <<arg, bundle, answer, since>> /\ pc[c] = "idle" BY <1>7 DEF RevokeRead
  <2>2. pc'[c] \in {"revoke", "refused"} /\ \A e \in Call : e # c => pc'[e] = pc[e] /\ todo'[e] = todo[e]
    <3>1. CASE OwnsActive(p, d) BY <1>7, <3>1 DEF RevokeRead
    <3>2. CASE ~OwnsActive(p, d) BY <1>7, <3>2 DEF RevokeRead
    <3> QED BY <3>1, <3>2
  <2>3. Others(c) /\ Leaves(c) BY <2>1, <2>2 DEF Others, Leaves, OfFetch, Assembling
  <2> QED BY <2>3, <1>5
<1>8. ASSUME NEW c \in Publication, NEW d \in Device, NEW r \in PublishRequest(d),
             PublishCheck(c, r)
      PROVE  FetchIsFresh'
  <2>1. Others(c) /\ Leaves(c)
    BY <1>8 DEF PublishCheck, AfterCheck, AfterIdentity, AfterSigned, Others, Leaves, OfFetch,
                Assembling
  <2> QED BY <2>1, <1>5
<1>9. ASSUME NEW c \in MlsPublication, NEW p \in Person, NEW d \in Device,
             NEW n \in 0..(MaxBatch + 1), MlsCheck(c, p, d, n)
      PROVE  FetchIsFresh'
  <2>1. Others(c) /\ Leaves(c) BY <1>9 DEF MlsCheck, Others, Leaves, OfFetch, Assembling
  <2> QED BY <2>1, <1>5
<1>10. ASSUME NEW c \in Fetch, NEW p \in Person, NEW denied \in BOOLEAN,
              FetchAuthorize(c, p, denied)
       PROVE  FetchIsFresh'
  <2>1. Others(c) BY <1>10 DEF FetchAuthorize, Others
  <2>2. /\ pc[c] = "idle" /\ pc'[c] \in {"refused", "devices"} /\ arg'[c].person = p
        /\ since'[c] = DevicesOf(p) /\ UNCHANGED <<devices, answer>>
    BY <1>10 DEF FetchAuthorize
  <2>3. answer'[c] = {} BY <1>3, <2>2 DEF ProgressOf
  <2>4. since'[c] \subseteq DevicesOf(arg[c].person)' BY <2>2 DEF DevicesOf, Registered
  <2>5. FreshOf(c)' BY <2>2, <2>3, <2>4 DEF FreshOf, Assembling
  <2> QED BY <2>1, <2>5, <1>4
<1>11. ASSUME NEW c \in Call, RegisterStep(c) PROVE FetchIsFresh'
  <2> USE DEF Others, Leaves, OfFetch, Assembling
  <2>1. CASE RegisterLock(c) BY <2>1, <1>5 DEF RegisterLock
  <2>2. CASE RegisterRead(c) BY <2>2, <1>5 DEF RegisterRead
  <2>3. CASE RegisterCommit(c) BY <2>3, <1>5 DEF RegisterCommit
  <2> QED BY <1>11, <2>1, <2>2, <2>3 DEF RegisterStep
<1>12. ASSUME NEW c \in Call, RevokeWrite(c) \/ MlsStore(c) \/ Fail(c) PROVE FetchIsFresh'
  <2>1. Others(c) /\ Leaves(c)
    BY <1>12 DEF RevokeWrite, MlsStore, Fail, Others, Leaves, OfFetch, Assembling
  <2> QED BY <2>1, <1>5
<1>13. ASSUME NEW c \in Publication, PublishStep(c) PROVE FetchIsFresh'
  <2> USE DEF Others, Leaves, OfFetch, Assembling
  <2>1. CASE PublishIdentity(c) BY <2>1, <1>5 DEF PublishIdentity, AfterIdentity, AfterSigned
  <2>2. CASE PublishReadIdentity(c) BY <2>2, <1>5 DEF PublishReadIdentity
  <2>3. CASE PublishRetire(c)
    <3>1. CASE SignatureVerifies(c) BY ZenonT(60), <2>3, <3>1, <1>5 DEF PublishRetire
    <3>2. CASE ~SignatureVerifies(c) BY ZenonT(60), <2>3, <3>2, <1>5 DEF PublishRetire
    <3> QED BY <3>1, <3>2
  <2>4. CASE PublishCreate(c) BY <2>4, <1>5 DEF PublishCreate, AfterSigned
  <2>5. CASE PublishOneTime(c)
    <3>1. CASE arg[c].batch <= MaxBatch BY ZenonT(60), <2>5, <3>1, <1>5 DEF PublishOneTime
    <3>2. CASE ~(arg[c].batch <= MaxBatch) BY ZenonT(60), <2>5, <3>2, <1>5 DEF PublishOneTime
    <3> QED BY <3>1, <3>2
  <2> QED BY <1>13, <2>1, <2>2, <2>3, <2>4, <2>5 DEF PublishStep
<1>14. ASSUME NEW c \in Call, FetchStep(c) PROVE FetchIsFresh'
  <2>1. UNCHANGED <<devices, arg, since>> /\ Others(c)
    BY <1>14, FetchFrame DEF Others
  <2>2. /\ DevicesOf(arg[c].person)' = DevicesOf(arg[c].person)
        /\ \A d : IsFresh(c, d)' <=> IsFresh(c, d)
    BY <2>1 DEF IsFresh, DevicesOf, Registered
  <2>3. since'[c] = since[c] /\ since[c] \subseteq DevicesOf(arg[c].person) /\ pc[c] # "idle"
    BY <2>1, <1>3, <1>14, FetchFrame DEF FreshOf
  <2>4. \A b \in answer[c] : IsFresh(c, b.device) BY <1>3 DEF FreshOf
  <2>5. CASE FetchDevices(c)
    <3>1. /\ pc[c] = "devices" /\ pc'[c] \in {"refused", "bundle"} /\ UNCHANGED <<bundle, answer>>
          /\ todo'[c] = ActiveDevices(arg[c].person)
      BY <2>5 DEF FetchDevices
    <3>2. PICK p \in Person : p = arg[c].person BY <3>1, <1>3 DEF FreshOf
    <3>3. \A d \in todo'[c] : IsFresh(c, d)
      BY <2>3, <3>1, <3>2 DEF DeviceFacts, NewestDeviceOnly, IsFresh, ActiveDevices
    <3>4. bundle'[c].device = NoDevice BY <1>3, <3>1 DEF ProgressOf, NoBundle
    <3>5. FreshOf(c)' BY <2>1, <2>2, <2>3, <2>4, <3>1, <3>3, <3>4 DEF FreshOf, Assembling
    <3> QED BY <2>1, <3>5, <1>4
  <2>6. ASSUME NEW d \in Device, FetchIdentity(c, d) PROVE FetchIsFresh'
    <3>1. /\ pc[c] = "bundle" /\ pc'[c] = "signed" /\ UNCHANGED answer /\ d \in todo[c]
          /\ todo'[c] = todo[c] \ {d}
      BY <2>6 DEF FetchIdentity
    <3>2. bundle'[c].device = d
      <4>1. bundle'[c] = [NoBundle EXCEPT !.device = d, !.identity = identity[d]]
        BY <2>6 DEF FetchIdentity
      <4> QED BY <4>1 DEF NoBundle
    <3>3. \A x \in todo[c] : x # NoDevice => IsFresh(c, x) BY <1>3, <3>1 DEF FreshOf
    <3>4. FreshOf(c)' BY <2>1, <2>2, <2>3, <2>4, <3>1, <3>2, <3>3 DEF FreshOf, Assembling
    <3> QED BY <2>1, <3>4, <1>4
  <2>7. CASE FetchSigned(c) \/ FetchClaimOneTime(c) \/ FetchCommitOneTime(c) \/ FetchClaimMls(c)
             \/ FetchCommitMls(c)
    <3>1. UNCHANGED <<todo, answer>> /\ pc[c] \in Assembling /\ pc'[c] \in Assembling
      BY <2>7 DEF FetchSigned, FetchClaimOneTime, FetchCommitOneTime, FetchClaimMls,
                  FetchCommitMls, ClaimLock, ClaimCommitted, Assembling
    <3>2. bundle'[c].device = bundle[c].device
      <4>1. bundle[c] \in Bundles OBVIOUS
      <4>2. \/ bundle'[c] = bundle[c]
            \/ \E v : \/ bundle'[c] = [bundle[c] EXCEPT !.signed = v]
                     \/ bundle'[c] = [bundle[c] EXCEPT !.oneTime = v]
                     \/ bundle'[c] = [bundle[c] EXCEPT !.mls = v]
        <5>1. CASE FetchSigned(c)
          <6>1. ASSUME NEW s, bundle' = [bundle EXCEPT ![c].signed = s]
                PROVE  bundle'[c] = [bundle[c] EXCEPT !.signed = s]
            BY <6>1
          <6>2. bundle' = bundle \/ \E s : bundle' = [bundle EXCEPT ![c].signed = s]
            BY <5>1 DEF FetchSigned
          <6> QED BY <6>1, <6>2
        <5>2. CASE FetchClaimOneTime(c) \/ FetchClaimMls(c)
          BY <5>2 DEF FetchClaimOneTime, FetchClaimMls, ClaimLock
        <5>3. CASE FetchCommitOneTime(c) BY <5>3 DEF FetchCommitOneTime
        <5>4. CASE FetchCommitMls(c) BY <5>4 DEF FetchCommitMls
        <5> QED BY <2>7, <5>1, <5>2, <5>3, <5>4
      <4> QED BY <4>1, <4>2 DEF Bundles
    <3>3. FreshOf(c)' BY <2>1, <2>2, <2>3, <2>4, <3>1, <3>2, <1>3 DEF FreshOf, Assembling
    <3> QED BY <2>1, <3>3, <1>4
  <2>8. CASE FetchPush(c)
    <3>1. /\ pc[c] = "push" /\ pc'[c] \in {"done", "bundle"} /\ UNCHANGED todo
          /\ bundle'[c] = NoBundle /\ answer'[c] = answer[c] \cup {bundle[c]}
      BY <2>8 DEF FetchPush
    <3>2. bundle[c].device # NoDevice
      BY <1>3, <3>1 DEF ProgressOf, Assembling, NoDevice, Device
    <3>3. IsFresh(c, bundle[c].device) BY <1>3, <3>1, <3>2 DEF FreshOf, Assembling
    <3>4. bundle'[c].device = NoDevice BY <3>1 DEF NoBundle
    <3>5. FreshOf(c)' BY <2>1, <2>2, <2>3, <2>4, <3>1, <3>3, <3>4, <1>3 DEF FreshOf, Assembling
    <3> QED BY <2>1, <3>5, <1>4
  <2> QED BY <1>14, <2>5, <2>6, <2>7, <2>8 DEF FetchStep
<1>15. CASE UNCHANGED vars
  BY <1>15 DEF vars, FetchIsFresh, FreshOf, IsFresh, DevicesOf, Registered
<1> QED BY <1>1, <1>6, <1>7, <1>8, <1>9, <1>10, <1>11, <1>12, <1>13, <1>14, <1>15 DEF Steps

-----------------------------------------------------------------------------
(* Signed prekeys.                                                         *)

\* A step of a call that writes no identity key and no signed prekey, and is not under way
\* to write one.
Bystander(c) ==
    /\ UNCHANGED <<identity, everIdentity, signed, crossed>>
    /\ \A e \in Call : e # c => pc'[e] = pc[e] /\ arg'[e] = arg[e] /\ readKey'[e] = readKey[e]
    /\ pc'[c] \notin OfPrekeys \cup {"idle"}
    /\ pc[c] # "idle" => arg'[c] = arg[c]
    /\ pc[c] \in Ended \cup {"oneTime"} => pc'[c] \in Ended

PrekeyStatement(c) ==
    PublishIdentity(c) \/ PublishReadIdentity(c) \/ PublishRetire(c) \/ PublishCreate(c)

\* Only the statements of a publication bear on identity keys and signed prekeys.
LEMMA PrekeySteps ==
  ASSUME KeyTypeOK, [Next]_vars
  PROVE  \/ \E c \in Call : Bystander(c)
         \/ \E c \in Publication, d \in Device : \E r \in PublishRequest(d) : PublishCheck(c, r)
         \/ \E c \in Publication : PrekeyStatement(c)
         \/ UNCHANGED <<identity, everIdentity, signed, crossed, pc, arg, readKey>>
<1> USE CallParts DEF Goto, tables, locals, Ended, OfPrekeys, Publishing, KeyTypeOK
<1>1. Steps BY NextIsSteps
<1>2. ASSUME NEW c \in Registration, NEW p \in Person, RegisterBegin(c, p)
      PROVE  \E e \in Call : Bystander(e)
  BY <1>2 DEF RegisterBegin, Bystander
<1>3. ASSUME NEW c \in Revocation, NEW p \in Person, NEW d \in Device, RevokeRead(c, p, d)
      PROVE  \E e \in Call : Bystander(e)
  <2>1. CASE OwnsActive(p, d) BY <1>3, <2>1 DEF RevokeRead, Bystander
  <2>2. CASE ~OwnsActive(p, d) BY ZenonT(60), <1>3, <2>2 DEF RevokeRead, Bystander
  <2> QED BY <2>1, <2>2
<1>4. ASSUME NEW c \in MlsPublication, NEW p \in Person, NEW d \in Device,
             NEW n \in 0..(MaxBatch + 1), MlsCheck(c, p, d, n)
      PROVE  \E e \in Call : Bystander(e)
  BY <1>4 DEF MlsCheck, Bystander
<1>5. ASSUME NEW c \in Fetch, NEW p \in Person, NEW denied \in BOOLEAN,
             FetchAuthorize(c, p, denied)
      PROVE  \E e \in Call : Bystander(e)
  BY <1>5 DEF FetchAuthorize, Bystander
<1>6. ASSUME NEW c \in Call, RegisterStep(c) \/ RevokeWrite(c) \/ MlsStore(c)
      PROVE  Bystander(c)
  <2>1. CASE RegisterLock(c) BY <2>1 DEF RegisterLock, Bystander
  <2>2. CASE RegisterRead(c) BY <2>2 DEF RegisterRead, Bystander
  <2>3. CASE RegisterCommit(c) BY <2>3 DEF RegisterCommit, Bystander
  <2>4. CASE RevokeWrite(c) BY <2>4 DEF RevokeWrite, Bystander
  <2>5. CASE MlsStore(c) BY <2>5 DEF MlsStore, Bystander
  <2> QED BY <1>6, <2>1, <2>2, <2>3, <2>4, <2>5 DEF RegisterStep
<1>7. ASSUME NEW c \in Call, FetchStep(c) PROVE Bystander(c)
  <2>1. CASE FetchDevices(c) BY <2>1 DEF FetchDevices, Bystander
  <2>2. ASSUME NEW d \in Device, FetchIdentity(c, d) PROVE Bystander(c)
    BY <2>2 DEF FetchIdentity, Bystander
  <2>3. CASE FetchSigned(c) BY <2>3 DEF FetchSigned, Bystander
  <2>4. CASE FetchClaimOneTime(c) \/ FetchClaimMls(c)
    BY <2>4 DEF FetchClaimOneTime, FetchClaimMls, ClaimLock, Bystander
  <2>5. CASE FetchCommitOneTime(c) BY <2>5 DEF FetchCommitOneTime, ClaimCommitted, Bystander
  <2>6. CASE FetchCommitMls(c) BY <2>6 DEF FetchCommitMls, ClaimCommitted, Bystander
  <2>7. CASE FetchPush(c) BY <2>7 DEF FetchPush, Bystander
  <2> QED BY <1>7, <2>1, <2>2, <2>3, <2>4, <2>5, <2>6, <2>7 DEF FetchStep
<1>8. ASSUME NEW c \in Publication, PublishStep(c) PROVE PrekeyStatement(c) \/ Bystander(c)
  <2>1. CASE PublishOneTime(c)
    <3>1. pc[c] = "oneTime" /\ UNCHANGED <<identity, everIdentity, signed, crossed, arg, readKey>>
      BY <2>1 DEF PublishOneTime
    <3>2. /\ pc'[c] \in {"done", "refused"}
          /\ \A e \in Call : e # c => pc'[e] = pc[e]
      <4>1. CASE arg[c].batch <= MaxBatch BY <2>1, <4>1 DEF PublishOneTime
      <4>2. CASE ~(arg[c].batch <= MaxBatch) BY <2>1, <4>2 DEF PublishOneTime
      <4> QED BY <4>1, <4>2
    <3> QED BY <3>1, <3>2 DEF Bystander
  <2> QED BY <1>8, <2>1 DEF PublishStep, PrekeyStatement
<1>9. ASSUME NEW c \in Call, Fail(c) PROVE Bystander(c)
  BY <1>9 DEF Fail, Running, Bystander
<1>10. CASE UNCHANGED vars BY <1>10 DEF vars
<1> QED BY <1>1, <1>2, <1>3, <1>4, <1>5, <1>6, <1>7, <1>8, <1>9, <1>10 DEF Steps

\* What the statements of a publication do to keys, calls and what they have read.
LEMMA StatementEffects ==
  ASSUME KeyTypeOK, RequestIsWhole, NEW c \in Publication, PrekeyStatement(c)
  PROVE  /\ arg' = arg /\ crossed' = crossed /\ arg[c].device \in Device
         /\ \A e \in Call : e # c => pc'[e] = pc[e] /\ readKey'[e] = readKey[e]
         /\ \/ /\ PublishIdentity(c) /\ pc[c] = "identity"
               /\ pc'[c] \in {"readIdentity", "oneTime", "done"} /\ UNCHANGED signed
               /\ arg[c].identity \in IdentityKey
               /\ identity'[arg[c].device] = arg[c].identity
               /\ everIdentity'[arg[c].device] = everIdentity[arg[c].device] \cup {arg[c].identity}
               /\ \A d \in Device : d # arg[c].device =>
                     identity'[d] = identity[d] /\ everIdentity'[d] = everIdentity[d]
            \/ /\ PublishReadIdentity(c) /\ pc[c] = "readIdentity" /\ pc'[c] = "verify"
               /\ UNCHANGED <<identity, everIdentity, signed>>
               /\ readKey'[c] = identity[arg[c].device]
            \/ /\ PublishRetire(c) /\ pc[c] = "verify"
               /\ UNCHANGED <<identity, everIdentity, readKey>>
               /\ \/ /\ pc'[c] = "create" /\ readKey[c] # NoKey /\ arg[c].signedBy = readKey[c]
                     /\ signed' = Retired(arg[c].device)
                  \/ pc'[c] = "refused" /\ UNCHANGED signed
            \/ /\ PublishCreate(c) /\ pc[c] = "create" /\ pc'[c] \in {"oneTime", "done"}
               /\ UNCHANGED <<identity, everIdentity, readKey>>
               /\ signed'[c].device = arg[c].device /\ signed'[c].signedBy = arg[c].signedBy
               /\ signed'[c].status = "ACTIVE"
               /\ \A s \in Publication : s # c => signed'[s] = signed[s]
<1> USE CallParts DEF Goto, tables, locals
<1>1. pc[c] \in {"identity", "readIdentity", "verify", "create"}
  BY DEF PrekeyStatement, PublishIdentity, PublishReadIdentity, PublishRetire, PublishCreate
<1>2. arg[c].device \in Device /\ (pc[c] = "identity" => arg[c].identity \in IdentityKey)
  BY <1>1 DEF RequestIsWhole
<1>3. CASE PublishIdentity(c)
  BY <1>2, <1>3 DEF PublishIdentity, AfterIdentity, AfterSigned, KeyTypeOK
<1>4. CASE PublishReadIdentity(c) BY <1>2, <1>4 DEF PublishReadIdentity, KeyTypeOK
<1>5. CASE PublishRetire(c)
  <2>1. CASE SignatureVerifies(c)
    BY <1>2, <1>5, <2>1 DEF PublishRetire, SignatureVerifies, KeyTypeOK
  <2>2. CASE ~SignatureVerifies(c)
    <3>1. pc' = [pc EXCEPT ![c] = "refused"] /\ UNCHANGED <<identity, everIdentity, signed, crossed, arg, readKey>>
      BY <1>5, <2>2 DEF PublishRetire
    <3>2. pc'[c] = "refused" /\ \A e \in Call : e # c => pc'[e] = pc[e]
      BY <3>1 DEF KeyTypeOK
    <3> QED BY <1>2, <1>5, <3>1, <3>2 DEF PublishRetire
  <2> QED BY <2>1, <2>2
<1>6. CASE PublishCreate(c)
  <2>1. signed'[c] = [device |-> arg[c].device, signedBy |-> arg[c].signedBy,
                      status |-> "ACTIVE", createdAt |-> PrekeysCreated + 1]
    BY <1>6 DEF PublishCreate, KeyTypeOK
  <2>2. /\ signed'[c].device = arg[c].device /\ signed'[c].signedBy = arg[c].signedBy
        /\ signed'[c].status = "ACTIVE"
    BY <2>1
  <2>3. /\ UNCHANGED <<identity, everIdentity, readKey, crossed, arg>> /\ pc[c] = "create"
        /\ \A s \in Publication : s # c => signed'[s] = signed[s]
        /\ \A e \in Call : e # c => pc'[e] = pc[e]
        /\ pc'[c] \in {"oneTime", "done"}
    BY <1>6 DEF PublishCreate, AfterSigned, KeyTypeOK
  <2> QED BY <1>2, <1>6, <2>2, <2>3
<1> QED BY <1>3, <1>4, <1>5, <1>6 DEF PrekeyStatement

\* What retiring does to a row.
LEMMA RetiredRows ==
  ASSUME KeyTypeOK, NEW d
  PROVE  \A s \in Publication :
            /\ Retired(d)[s].device = signed[s].device
            /\ Retired(d)[s].signedBy = signed[s].signedBy
            /\ (Retired(d)[s].status # "ABSENT") <=> (signed[s].status # "ABSENT")
            /\ (Retired(d)[s].status = "ACTIVE") <=> signed[s].status = "ACTIVE" /\ signed[s].device # d
<1> SUFFICES ASSUME NEW s \in Publication
             PROVE  /\ Retired(d)[s].device = signed[s].device
                    /\ Retired(d)[s].signedBy = signed[s].signedBy
                    /\ (Retired(d)[s].status # "ABSENT") <=> (signed[s].status # "ABSENT")
                    /\ (Retired(d)[s].status = "ACTIVE")
                          <=> signed[s].status = "ACTIVE" /\ signed[s].device # d
  OBVIOUS
<1>1. signed[s] \in PrekeyRow BY DEF KeyTypeOK, PrekeyRow
<1>2. CASE s \in ActivePrekeys(d)
  <2>1. Retired(d)[s] = [signed[s] EXCEPT !.status = "EXPIRED"] BY <1>2 DEF Retired
  <2>2. /\ [signed[s] EXCEPT !.status = "EXPIRED"].device = signed[s].device
        /\ [signed[s] EXCEPT !.status = "EXPIRED"].signedBy = signed[s].signedBy
        /\ [signed[s] EXCEPT !.status = "EXPIRED"].status = "EXPIRED"
    BY <1>1 DEF PrekeyRow
  <2> QED BY <1>2, <2>1, <2>2 DEF ActivePrekeys
<1>3. CASE s \notin ActivePrekeys(d) BY <1>3 DEF Retired, ActivePrekeys
<1> QED BY <1>2, <1>3

\* Every step keeps what is claimed of signed prekeys.
LEMMA PrekeyStep ==
  ASSUME KeyTypeOK, RequestIsWhole, PrekeyInv, [Next]_vars
  PROVE  PrekeyInv'
<1> USE CallParts DEF PrekeyInv
<1>1. ASSUME NEW c \in Call, Bystander(c) PROVE PrekeyInv'
  <2>1. IdentityIsKept' BY <1>1 DEF Bystander, IdentityIsKept
  <2>2. CheckedKey' BY <1>1 DEF Bystander, CheckedKey, OfPrekeys, Publishing
  <2>3. PrekeyOnce' BY <1>1 DEF Bystander, PrekeyOnce
  <2>4. PrekeyWasVerified' BY <1>1 DEF Bystander, PrekeyWasVerified
  <2> QED BY <2>1, <2>2, <2>3, <2>4
<1>2. ASSUME NEW c \in Publication, NEW d \in Device, NEW r \in PublishRequest(d),
             PublishCheck(c, r)
      PROVE  PrekeyInv'
  <2>1. /\ UNCHANGED <<identity, everIdentity, signed, readKey>> /\ pc[c] = "idle"
        /\ pc'[c] \in {"refused", "identity", "readIdentity", "oneTime", "done"}
        /\ \A e \in Call : e # c => pc'[e] = pc[e] /\ arg'[e] = arg[e]
    BY <1>2 DEF PublishCheck, AfterCheck, AfterIdentity, AfterSigned, Goto, tables, KeyTypeOK
  <2>2. IdentityIsKept' BY <2>1 DEF IdentityIsKept
  <2>3. CheckedKey' BY <2>1 DEF CheckedKey
  <2>4. PrekeyOnce' BY <2>1 DEF PrekeyOnce, Ended
  <2>5. PrekeyWasVerified' BY <2>1 DEF PrekeyWasVerified
  <2> QED BY <2>2, <2>3, <2>4, <2>5
<1>3. ASSUME NEW c \in Publication, PrekeyStatement(c) PROVE PrekeyInv'
  <2>1. PICK d \in Device : d = arg[c].device BY <1>3, StatementEffects
  <2>2. arg' = arg /\ \A e \in Call : e # c => pc'[e] = pc[e] /\ readKey'[e] = readKey[e]
    BY <1>3, StatementEffects
  <2>3. CASE PublishIdentity(c)
    <3>1. /\ pc[c] = "identity" /\ pc'[c] \in {"readIdentity", "oneTime", "done"}
          /\ UNCHANGED signed
          /\ identity'[d] \in everIdentity'[d]
          /\ \A x \in Device : everIdentity[x] \subseteq everIdentity'[x]
          /\ \A x \in Device : x # d => identity'[x] = identity[x]
      BY <1>3, <2>1, <2>3, StatementEffects
         DEF PublishIdentity, PublishReadIdentity, PublishRetire, PublishCreate
    <3>2. IdentityIsKept' BY <3>1 DEF IdentityIsKept
    <3>3. CheckedKey'
      <4>1. \A e \in Call : pc[e] \in {"verify", "create"} => arg[e].device \in Device
        BY DEF RequestIsWhole
      <4> QED BY <2>2, <3>1, <4>1 DEF CheckedKey
    <3>4. PrekeyOnce' BY <2>2, <3>1 DEF PrekeyOnce, Ended
    <3>5. PrekeyWasVerified' BY <3>1 DEF PrekeyOnce, PrekeyWasVerified
    <3> QED BY <3>2, <3>3, <3>4, <3>5
  <2>4. CASE PublishReadIdentity(c)
    <3>1. /\ pc[c] = "readIdentity" /\ pc'[c] = "verify"
          /\ UNCHANGED <<identity, everIdentity, signed>> /\ readKey'[c] = identity[d]
      BY <1>3, <2>1, <2>4, StatementEffects
         DEF PublishIdentity, PublishReadIdentity, PublishRetire, PublishCreate
    <3>2. IdentityIsKept' BY <3>1 DEF IdentityIsKept
    <3>3. CheckedKey' BY <2>1, <2>2, <3>1 DEF CheckedKey, IdentityIsKept
    <3>4. PrekeyOnce' BY <2>2, <3>1 DEF PrekeyOnce, Ended
    <3>5. PrekeyWasVerified' BY <3>1 DEF PrekeyWasVerified
    <3> QED BY <3>2, <3>3, <3>4, <3>5
  <2>5. CASE PublishRetire(c)
    <3>1. /\ pc[c] = "verify" /\ UNCHANGED <<identity, everIdentity, readKey>>
          /\ \/ /\ pc'[c] = "create" /\ readKey[c] # NoKey /\ arg[c].signedBy = readKey[c]
                /\ signed' = Retired(d)
             \/ pc'[c] = "refused" /\ UNCHANGED signed
      BY <1>3, <2>1, <2>5, StatementEffects
         DEF PublishIdentity, PublishReadIdentity, PublishRetire, PublishCreate
    <3>2. \A s \in Publication :
             /\ signed'[s].device = signed[s].device /\ signed'[s].signedBy = signed[s].signedBy
             /\ (signed'[s].status # "ABSENT") <=> (signed[s].status # "ABSENT")
      BY <3>1, RetiredRows
    <3>3. IdentityIsKept' BY <3>1 DEF IdentityIsKept
    <3>4. CheckedKey' BY <2>1, <2>2, <3>1 DEF CheckedKey
    <3>5. PrekeyOnce' BY <2>2, <3>1, <3>2 DEF PrekeyOnce, Ended
    <3>6. PrekeyWasVerified' BY <3>1, <3>2 DEF PrekeyWasVerified
    <3> QED BY <3>3, <3>4, <3>5, <3>6
  <2>6. CASE PublishCreate(c)
    <3>1. /\ pc[c] = "create" /\ pc'[c] \in {"oneTime", "done"}
          /\ UNCHANGED <<identity, everIdentity, readKey>>
          /\ signed'[c].device = d /\ signed'[c].signedBy = arg[c].signedBy
          /\ \A s \in Publication : s # c => signed'[s] = signed[s]
      BY <1>3, <2>1, <2>6, StatementEffects
         DEF PublishIdentity, PublishReadIdentity, PublishRetire, PublishCreate
    <3>2. IdentityIsKept' BY <3>1 DEF IdentityIsKept
    <3>3. CheckedKey' BY <2>1, <2>2, <3>1 DEF CheckedKey
    <3>4. PrekeyOnce' BY <2>2, <3>1 DEF PrekeyOnce, Ended
    <3>5. PrekeyWasVerified' BY <2>1, <3>1 DEF PrekeyWasVerified, CheckedKey
    <3> QED BY <3>2, <3>3, <3>4, <3>5
  <2> QED BY <1>3, <2>3, <2>4, <2>5, <2>6 DEF PrekeyStatement
<1>4. CASE UNCHANGED <<identity, everIdentity, signed, crossed, pc, arg, readKey>>
  BY <1>4 DEF IdentityIsKept, CheckedKey, PrekeyOnce, PrekeyWasVerified
<1> QED BY <1>1, <1>2, <1>3, <1>4, PrekeySteps

-----------------------------------------------------------------------------
(* Publications of one device, overlapping or not.                         *)

\* A publication that begins puts itself on record with each of its rivals.
LEMMA CheckCrosses ==
  ASSUME KeyTypeOK, CrossedOK, NEW c \in Publication, NEW d \in Device,
         NEW r \in PublishRequest(d), PublishCheck(c, r)
  PROVE  CrossedOK' /\ \A o \in Publication : o # c => crossed[o] \subseteq crossed'[o]
<1> USE CallParts
<1>1. /\ pc[c] = "idle" /\ pc'[c] # "idle" /\ arg'[c].device = d
      /\ \A e \in Call : e # c => pc'[e] = pc[e] /\ arg'[e] = arg[e]
  BY DEF PublishCheck, PublishRequest, AfterCheck, AfterIdentity, AfterSigned, Goto, KeyTypeOK
<1>2. \A o \in Publication : pc[o] \in OfPrekeys => Running(o)
  BY DEF OfPrekeys, Publishing, Running, Ended
<1>3. CASE pc'[c] = "refused" /\ crossed' = crossed
  BY <1>1, <1>3 DEF CrossedOK, OfPrekeys, Publishing
<1>4. CASE crossed' = Crossing(c, d)
  <2>1. crossed'[c] = Rivals(c, d) BY <1>4 DEF Crossing
  <2>2. \A o \in Publication : o # c =>
          crossed'[o] = IF o \in Rivals(c, d) THEN crossed[o] \cup {c} ELSE crossed[o]
    BY <1>4 DEF Crossing
  <2>3. \A o : o \in Rivals(c, d) <=>
          o \in Publication /\ o # c /\ Running(o) /\ arg[o].device = d
    BY DEF Rivals
  <2>4. \A o \in Publication : Running(o) => pc[o] # "idle" BY DEF Running
  <2>5. ASSUME NEW x \in Publication, NEW y \in Publication, y \in crossed'[x]
        PROVE  x \in crossed'[y] /\ pc'[y] # "idle"
    <3>1. CASE x = c BY <1>1, <2>1, <2>2, <2>3, <2>4, <2>5, <3>1
    <3>2. CASE x # c /\ y \in crossed[x]
      <4>1. x \in crossed[y] /\ pc[y] # "idle" BY <3>2 DEF CrossedOK
      <4> QED BY <1>1, <2>2, <4>1
    <3>3. CASE x # c /\ y \notin crossed[x]
      BY <1>1, <2>1, <2>2, <2>5, <3>3
    <3> QED BY <3>1, <3>2, <3>3
  <2>6. ASSUME NEW x \in Publication, NEW y \in Publication, x # y,
               pc'[x] \in OfPrekeys, pc'[y] \in OfPrekeys, arg'[x].device = arg'[y].device
        PROVE  y \in crossed'[x]
    <3>1. CASE x = c BY <1>1, <1>2, <2>1, <2>3, <2>6, <3>1
    <3>2. CASE y = c BY <1>1, <1>2, <2>2, <2>3, <2>6, <3>2
    <3>3. CASE x # c /\ y # c
      <4>1. y \in crossed[x] BY <1>1, <2>6, <3>3 DEF CrossedOK
      <4> QED BY <2>2, <3>3, <4>1
    <3> QED BY <3>1, <3>2, <3>3
  <2>7. CrossedOK' BY <2>5, <2>6 DEF CrossedOK
  <2> QED BY <2>2, <2>7
<1>5. \/ pc'[c] = "refused" /\ crossed' = crossed
      \/ crossed' = Crossing(c, d)
  BY DEF PublishCheck, PublishRequest, Goto, KeyTypeOK
<1> QED BY <1>3, <1>4, <1>5

\* Every step keeps what is claimed of publications of one device.
LEMMA CrossStep ==
  ASSUME KeyTypeOK, RequestIsWhole, PrekeyOnce, CrossInv, [Next]_vars
  PROVE  CrossInv'
<1> USE CallParts DEF CrossInv
<1>1. ASSUME NEW c \in Call, Bystander(c) PROVE CrossInv'
  <2>1. /\ UNCHANGED <<identity, signed, crossed>>
        /\ \A e \in Call : e # c => pc'[e] = pc[e] /\ arg'[e] = arg[e] /\ readKey'[e] = readKey[e]
        /\ pc'[c] \notin OfPrekeys \cup {"idle"} /\ (pc[c] # "idle" => arg'[c] = arg[c])
    BY <1>1 DEF Bystander
  <2>2. CrossedOK' BY <2>1 DEF CrossedOK
  <2>3. ASSUME NEW x \in Publication, pc'[x] \in {"verify", "create"}
        PROVE  /\ x # c /\ \A k : StillOrReplaced(x, k) => StillOrReplaced(x, k)'
               /\ ActivePrekeys(arg[x].device)' = ActivePrekeys(arg[x].device)
    <3>1. x # c BY <2>1, <2>3 DEF OfPrekeys, Publishing
    <3>2. \A o \in Publication : o \in crossed[x] => arg'[o] = arg[o]
      BY <2>1 DEF CrossedOK
    <3>3. crossed[x] \subseteq Publication BY DEF KeyTypeOK
    <3>4. arg'[x] = arg[x] BY <2>1, <3>1
    <3> QED BY <2>1, <3>1, <3>2, <3>3, <3>4 DEF StillOrReplaced, ActivePrekeys
  <2>4. CheckStillHolds' BY <2>1, <2>3 DEF CheckStillHolds
  <2>5. TwoActiveOnlyIfCrossed' BY <2>1 DEF TwoActiveOnlyIfCrossed, ActivePrekeys
  <2> QED BY <2>2, <2>4, <2>5
<1>2. ASSUME NEW c \in Publication, NEW d \in Device, NEW r \in PublishRequest(d),
             PublishCheck(c, r)
      PROVE  CrossInv'
  <2>1. /\ UNCHANGED <<identity, signed, readKey>> /\ pc[c] = "idle"
        /\ pc'[c] \in {"refused", "identity", "readIdentity", "oneTime", "done"}
        /\ \A e \in Call : e # c => pc'[e] = pc[e] /\ arg'[e] = arg[e]
    BY <1>2 DEF PublishCheck, AfterCheck, AfterIdentity, AfterSigned, Goto, tables, KeyTypeOK
  <2>2. CrossedOK' /\ \A o \in Publication : o # c => crossed[o] \subseteq crossed'[o]
    BY <1>2, CheckCrosses
  <2>3. ASSUME NEW x \in Publication, pc'[x] \in {"verify", "create"}
        PROVE  /\ x # c /\ \A k : StillOrReplaced(x, k) => StillOrReplaced(x, k)'
               /\ ActivePrekeys(arg[x].device)' = ActivePrekeys(arg[x].device)
    <3>1. x # c BY <2>1, <2>3
    <3>2. \A o \in Publication : o \in crossed[x] => arg'[o] = arg[o] /\ o \in crossed'[x]
      BY <2>1, <2>2, <3>1 DEF CrossedOK
    <3>3. crossed[x] \subseteq Publication BY DEF KeyTypeOK
    <3>4. arg'[x] = arg[x] BY <2>1, <3>1
    <3> QED BY <2>1, <3>1, <3>2, <3>3, <3>4 DEF StillOrReplaced, ActivePrekeys
  <2>4. CheckStillHolds'
    <3> SUFFICES ASSUME NEW x \in Publication, pc'[x] \in {"verify", "create"}
                 PROVE  /\ pc'[x] = "verify" => StillOrReplaced(x, readKey[x])'
                        /\ pc'[x] = "create" => /\ StillOrReplaced(x, arg[x].signedBy)'
                                                /\ ActivePrekeys(arg[x].device)' \subseteq crossed'[x]
      BY DEF CheckStillHolds
    <3>1. x # c /\ pc[x] = pc'[x] /\ arg'[x] = arg[x] /\ readKey'[x] = readKey[x]
      BY <2>1, <2>3
    <3> QED BY <2>2, <2>3, <3>1 DEF CheckStillHolds
  <2>5. TwoActiveOnlyIfCrossed'
    <3>1. \A y : c \notin ActivePrekeys(y) /\ ActivePrekeys(y)' = ActivePrekeys(y)
      BY <2>1 DEF ActivePrekeys, PrekeyOnce, Ended
    <3>2. \A y : ActivePrekeys(y) \subseteq Publication BY DEF ActivePrekeys
    <3> QED BY <2>2, <3>1, <3>2 DEF TwoActiveOnlyIfCrossed
  <2> QED BY <2>2, <2>4, <2>5
<1>3. ASSUME NEW c \in Publication, PrekeyStatement(c) PROVE CrossInv'
  <2>1. PICK d \in Device : d = arg[c].device BY <1>3, StatementEffects
  <2>2. /\ arg' = arg /\ crossed' = crossed
        /\ \A e \in Call : e # c => pc'[e] = pc[e] /\ readKey'[e] = readKey[e]
    BY <1>3, StatementEffects
  <2>3. pc[c] \in OfPrekeys /\ pc'[c] # "idle"
    BY <1>3, StatementEffects DEF OfPrekeys, Publishing
  <2>4. CrossedOK' BY <2>2, <2>3 DEF CrossedOK
  <2>5. \A x \in Publication :
           x # c /\ pc[x] \in {"verify", "create"} /\ arg[x].device = d => c \in crossed[x]
    BY <2>1, <2>3 DEF CrossedOK, OfPrekeys, Publishing
  <2>6. CASE PublishIdentity(c)
    <3>1. /\ UNCHANGED signed /\ pc'[c] \notin {"verify", "create"}
          /\ identity'[d] = arg[c].identity
          /\ \A y \in Device : y # d => identity'[y] = identity[y]
      BY <1>3, <2>1, <2>6, StatementEffects
         DEF PublishIdentity, PublishReadIdentity, PublishRetire, PublishCreate
    <3>2. \A y : ActivePrekeys(y)' = ActivePrekeys(y) BY <3>1 DEF ActivePrekeys
    <3>3. ASSUME NEW x \in Publication, x # c, pc[x] \in {"verify", "create"}, NEW k,
                 StillOrReplaced(x, k)
          PROVE  StillOrReplaced(x, k)'
      <4>1. arg[x].device \in Device BY <3>3 DEF RequestIsWhole
      <4>2. CASE arg[x].device = d BY <2>2, <2>5, <3>1, <3>3, <4>2 DEF StillOrReplaced
      <4>3. CASE arg[x].device # d BY <2>2, <3>1, <3>3, <4>1, <4>3 DEF StillOrReplaced
      <4> QED BY <4>2, <4>3
    <3>4. CheckStillHolds' BY <2>2, <3>1, <3>2, <3>3 DEF CheckStillHolds
    <3>5. TwoActiveOnlyIfCrossed' BY <2>2, <3>2 DEF TwoActiveOnlyIfCrossed
    <3> QED BY <2>4, <3>4, <3>5
  <2>7. CASE PublishReadIdentity(c)
    <3>1. UNCHANGED <<identity, signed>> /\ pc'[c] = "verify" /\ readKey'[c] = identity[d]
      BY <1>3, <2>1, <2>7, StatementEffects
         DEF PublishIdentity, PublishReadIdentity, PublishRetire, PublishCreate
    <3>2. \A y : ActivePrekeys(y)' = ActivePrekeys(y) BY <3>1 DEF ActivePrekeys
    <3>3. \A x, k : StillOrReplaced(x, k)' <=> StillOrReplaced(x, k)
      BY <2>2, <3>1 DEF StillOrReplaced
    <3>4. StillOrReplaced(c, readKey'[c]) BY <2>1, <3>1 DEF StillOrReplaced
    <3>5. CheckStillHolds' BY <2>2, <3>1, <3>2, <3>3, <3>4 DEF CheckStillHolds
    <3>6. TwoActiveOnlyIfCrossed' BY <2>2, <3>2 DEF TwoActiveOnlyIfCrossed
    <3> QED BY <2>4, <3>5, <3>6
  <2>8. CASE PublishRetire(c)
    <3>1. /\ pc[c] = "verify" /\ UNCHANGED <<identity, readKey>>
          /\ \/ /\ pc'[c] = "create" /\ arg[c].signedBy = readKey[c]
                /\ signed' = Retired(d)
             \/ pc'[c] = "refused" /\ UNCHANGED signed
      BY <1>3, <2>1, <2>8, StatementEffects
         DEF PublishIdentity, PublishReadIdentity, PublishRetire, PublishCreate
    <3>2. /\ \A y : ActivePrekeys(y)' \subseteq ActivePrekeys(y)
          /\ pc'[c] = "create" => ActivePrekeys(d)' = {}
      BY <3>1, RetiredRows DEF ActivePrekeys
    <3>3. \A x, k : StillOrReplaced(x, k)' <=> StillOrReplaced(x, k)
      BY <2>2, <3>1 DEF StillOrReplaced
    <3>4. pc'[c] = "create" => StillOrReplaced(c, arg[c].signedBy)
      BY <3>1 DEF CheckStillHolds
    <3>5. CheckStillHolds' BY <2>1, <2>2, <3>1, <3>2, <3>3, <3>4 DEF CheckStillHolds
    <3>6. TwoActiveOnlyIfCrossed' BY <2>2, <3>2 DEF TwoActiveOnlyIfCrossed
    <3> QED BY <2>4, <3>5, <3>6
  <2>9. CASE PublishCreate(c)
    <3>1. /\ pc[c] = "create" /\ pc'[c] \notin {"verify", "create"} /\ UNCHANGED identity
          /\ signed'[c].device = d
          /\ \A s \in Publication : s # c => signed'[s] = signed[s]
      BY <1>3, <2>1, <2>9, StatementEffects
         DEF PublishIdentity, PublishReadIdentity, PublishRetire, PublishCreate
    <3>2. /\ ActivePrekeys(d)' \subseteq ActivePrekeys(d) \cup {c}
          /\ \A y : y # d => ActivePrekeys(y)' \subseteq ActivePrekeys(y)
      BY <3>1 DEF ActivePrekeys
    <3>3. \A x, k : StillOrReplaced(x, k)' <=> StillOrReplaced(x, k)
      BY <2>2, <3>1 DEF StillOrReplaced
    <3>4. CheckStillHolds'
      BY <2>2, <2>5, <3>1, <3>2, <3>3 DEF CheckStillHolds
    <3>5. ActivePrekeys(d) \subseteq crossed[c] /\ ActivePrekeys(d) \subseteq Publication
      BY <2>1, <3>1 DEF CheckStillHolds, ActivePrekeys
    <3>6. \A s \in ActivePrekeys(d) : s \in crossed[c] /\ c \in crossed[s]
      BY <3>5 DEF CrossedOK
    <3>7. TwoActiveOnlyIfCrossed'
      <4> SUFFICES ASSUME NEW y \in Device, NEW s \in ActivePrekeys(y)',
                          NEW t \in ActivePrekeys(y)', s # t
                   PROVE  s \in crossed[t]
        BY <2>2 DEF TwoActiveOnlyIfCrossed
      <4>1. CASE s \in ActivePrekeys(y) /\ t \in ActivePrekeys(y)
        BY <4>1 DEF TwoActiveOnlyIfCrossed
      <4>2. CASE y = d /\ (s = c \/ t = c) BY <3>2, <3>6, <4>2
      <4> QED BY <3>2, <4>1, <4>2
    <3> QED BY <2>4, <3>4, <3>7
  <2> QED BY <1>3, <2>6, <2>7, <2>8, <2>9 DEF PrekeyStatement
<1>4. CASE UNCHANGED <<identity, everIdentity, signed, crossed, pc, arg, readKey>>
  BY <1>4 DEF CrossedOK, CheckStillHolds, StillOrReplaced, TwoActiveOnlyIfCrossed, ActivePrekeys
<1> QED BY <1>1, <1>2, <1>3, <1>4, PrekeySteps

-----------------------------------------------------------------------------
(* Where the keys of a bundle come from.                                   *)

\* A request does not change once its call has begun, and a call comes to publish only as
\* the owner of its device.
RequestsStand ==
    \A e \in Call :
        /\ pc[e] # "idle" => arg'[e] = arg[e]
        /\ pc'[e] \in Publishing =>
              pc[e] \in Publishing \/ arg'[e].device \in DevicesOf(arg'[e].person)

\* A step that is not of a fetch leaves bundles alone, locks no key row and changes none.
BundlesStand ==
    /\ UNCHANGED <<bundle, answer>>
    /\ \A e \in Call : rowLock'[e] \in {rowLock[e], NoItem}
    /\ \/ UNCHANGED stock
       \/ \E c \in Call, kind \in Kind :
             pc[c] \in {"oneTime", "storeMls"} /\ stock' = Stocked(kind, c)

\* What every step does to requests, and what the steps of fetches leave to be shown.
LEMMA KeyMoves ==
  ASSUME KeyTypeOK, [Next]_vars
  PROVE  RequestsStand /\ (BundlesStand \/ \E c \in Call : FetchStep(c))
<1> USE CallParts DEF Goto, tables, locals, Ended, Publishing, KeyTypeOK
<1>1. Steps BY NextIsSteps
<1> DEFINE Done == RequestsStand /\ BundlesStand
<1>2. ASSUME NEW c \in Call, pc'[c] \notin Publishing \/ pc[c] \in Publishing,
             \A e \in Call : e # c => pc'[e] = pc[e] /\ arg'[e] = arg[e],
             pc[c] = "idle" \/ arg'[c] = arg[c]
      PROVE  RequestsStand
  BY <1>2 DEF RequestsStand
<1>3. ASSUME UNCHANGED <<stock, rowLock, bundle, answer>> PROVE BundlesStand
  BY <1>3 DEF BundlesStand
<1> HIDE DEF Done
<1>4. ASSUME NEW c \in Registration, NEW p \in Person, RegisterBegin(c, p) PROVE Done
  BY <1>2, <1>3, <1>4 DEF RegisterBegin, Done
<1>5. ASSUME NEW c \in Revocation, NEW p \in Person, NEW d \in Device, RevokeRead(c, p, d)
      PROVE  Done
  <2>1. UNCHANGED <<tables, arg, bundle, answer>> /\ pc[c] = "idle" BY <1>5 DEF RevokeRead
  <2>2. pc'[c] \in {"revoke", "refused"} /\ \A e \in Call : e # c => pc'[e] = pc[e]
    <3>1. CASE OwnsActive(p, d) BY <1>5, <3>1 DEF RevokeRead
    <3>2. CASE ~OwnsActive(p, d) BY <1>5, <3>2 DEF RevokeRead
    <3> QED BY <3>1, <3>2
  <2> QED BY <2>1, <2>2, <1>2, <1>3 DEF Done
<1>6. ASSUME NEW c \in Publication, NEW d \in Device, NEW r \in PublishRequest(d),
             PublishCheck(c, r)
      PROVE  Done
  <2>1. /\ arg'[c] = r /\ pc[c] = "idle"
        /\ \A e \in Call : e # c => pc'[e] = pc[e] /\ arg'[e] = arg[e]
        /\ UNCHANGED <<stock, rowLock, bundle, answer>>
    BY <1>6 DEF PublishCheck
  <2>2. ~OwnsActive(r.person, r.device) => pc'[c] = "refused" BY <1>6 DEF PublishCheck
  <2>3. OwnsActive(r.person, r.device) => r.device \in DevicesOf(r.person)
    BY DEF OwnsActive, DevicesOf
  <2>4. RequestsStand BY <2>1, <2>2, <2>3 DEF RequestsStand
  <2> QED BY <2>1, <2>4, <1>3 DEF Done
<1>7. ASSUME NEW c \in MlsPublication, NEW p \in Person, NEW d \in Device,
             NEW n \in 0..(MaxBatch + 1), MlsCheck(c, p, d, n)
      PROVE  Done
  <2>1. /\ arg'[c] = [NoArg EXCEPT !.person = p, !.device = d, !.batch = n] /\ pc[c] = "idle"
        /\ \A e \in Call : e # c => pc'[e] = pc[e] /\ arg'[e] = arg[e]
        /\ UNCHANGED <<stock, rowLock, bundle, answer>>
    BY <1>7 DEF MlsCheck
  <2>2. arg'[c].person = p /\ arg'[c].device = d BY <2>1 DEF NoArg
  <2>3. ~OwnsActive(p, d) => pc'[c] = "refused" BY <1>7 DEF MlsCheck
  <2>4. OwnsActive(p, d) => d \in DevicesOf(p) BY DEF OwnsActive, DevicesOf
  <2>5. RequestsStand BY <2>1, <2>2, <2>3, <2>4 DEF RequestsStand
  <2> QED BY <2>1, <2>5, <1>3 DEF Done
<1>8. ASSUME NEW c \in Fetch, NEW p \in Person, NEW denied \in BOOLEAN,
             FetchAuthorize(c, p, denied)
      PROVE  Done
  BY <1>2, <1>3, <1>8 DEF FetchAuthorize, Done
<1>9. ASSUME NEW c \in Call, RegisterStep(c) \/ RevokeWrite(c) PROVE Done
  <2>1. CASE RegisterLock(c) BY <1>2, <1>3, <2>1 DEF RegisterLock, Done
  <2>2. CASE RegisterRead(c) BY <1>2, <1>3, <2>2 DEF RegisterRead, Done
  <2>3. CASE RegisterCommit(c) BY <1>2, <1>3, <2>3 DEF RegisterCommit, Done
  <2>4. CASE RevokeWrite(c) BY <1>2, <1>3, <2>4 DEF RevokeWrite, Done
  <2> QED BY <1>9, <2>1, <2>2, <2>3, <2>4 DEF RegisterStep
<1>10. ASSUME NEW c \in Call, MlsStore(c) PROVE Done
  <2>1. RequestsStand BY <1>2, <1>10 DEF MlsStore
  <2>2. BundlesStand BY <1>10 DEF MlsStore, BundlesStand, Kind
  <2> QED BY <2>1, <2>2 DEF Done
<1>11. ASSUME NEW c \in Publication, PublishStep(c) PROVE Done
  <2>1. CASE PublishIdentity(c)
    BY <1>2, <1>3, <2>1 DEF PublishIdentity, AfterIdentity, AfterSigned, Done
  <2>2. CASE PublishReadIdentity(c) BY <1>2, <1>3, <2>2 DEF PublishReadIdentity, Done
  <2>3. CASE PublishRetire(c)
    <3>1. CASE SignatureVerifies(c) BY ZenonT(60), <1>2, <1>3, <2>3, <3>1 DEF PublishRetire, Done
    <3>2. CASE ~SignatureVerifies(c) BY ZenonT(60), <1>2, <1>3, <2>3, <3>2 DEF PublishRetire, Done
    <3> QED BY <3>1, <3>2
  <2>4. CASE PublishCreate(c) BY <1>2, <1>3, <2>4 DEF PublishCreate, AfterSigned, Done
  <2>5. CASE PublishOneTime(c)
    <3>1. UNCHANGED <<arg, rowLock, bundle, answer>> /\ pc[c] = "oneTime"
      BY <2>5 DEF PublishOneTime
    <3>2. /\ pc'[c] \in {"done", "refused"} /\ \A e \in Call : e # c => pc'[e] = pc[e]
          /\ stock' = Stocked("oneTime", c) \/ UNCHANGED stock
      <4>1. CASE arg[c].batch <= MaxBatch BY <2>5, <4>1 DEF PublishOneTime
      <4>2. CASE ~(arg[c].batch <= MaxBatch) BY <2>5, <4>2 DEF PublishOneTime
      <4> QED BY <4>1, <4>2
    <3>3. RequestsStand BY <1>2, <3>1, <3>2
    <3>4. BundlesStand BY <3>1, <3>2 DEF BundlesStand, Kind
    <3> QED BY <3>3, <3>4 DEF Done
  <2> QED BY <1>11, <2>1, <2>2, <2>3, <2>4, <2>5 DEF PublishStep
<1>12. ASSUME NEW c \in Call, FetchStep(c) PROVE RequestsStand
  <2>1. UNCHANGED arg /\ \A e \in Call : e # c => pc'[e] = pc[e] BY <1>12, FetchFrame
  <2>2. pc'[c] \notin Publishing
    <3> USE DEF FetchDevices, FetchIdentity, FetchSigned, FetchClaimOneTime, FetchCommitOneTime,
                FetchClaimMls, FetchCommitMls, FetchPush, ClaimLock
    <3>1. CASE FetchDevices(c) \/ (\E d \in Device : FetchIdentity(c, d)) BY <3>1
    <3>2. CASE FetchSigned(c) \/ FetchClaimOneTime(c) \/ FetchCommitOneTime(c) BY <3>2
    <3>3. CASE FetchClaimMls(c) \/ FetchCommitMls(c) \/ FetchPush(c) BY <3>3
    <3> QED BY <1>12, <3>1, <3>2, <3>3 DEF FetchStep
  <2> QED BY <1>2, <2>1, <2>2
<1>13. ASSUME NEW c \in Call, Fail(c) PROVE Done
  <2>1. RequestsStand BY <1>2, <1>13 DEF Fail
  <2>2. BundlesStand BY <1>13 DEF Fail, BundlesStand
  <2> QED BY <2>1, <2>2 DEF Done
<1>14. CASE UNCHANGED vars
  BY <1>14, <1>3 DEF vars, RequestsStand, Done
<1> QED BY <1>1, <1>4, <1>5, <1>6, <1>7, <1>8, <1>9, <1>10, <1>11, <1>12, <1>13, <1>14
        DEF Steps, Done

\* No signed prekey is lost or moves to another device.
LEMMA SignedKept ==
  ASSUME KeyTypeOK, RequestIsWhole, PrekeyOnce, [Next]_vars
  PROVE  \A s \in Publication : signed[s].status # "ABSENT" =>
            signed'[s].status # "ABSENT" /\ signed'[s].device = signed[s].device
<1>1. CASE UNCHANGED signed BY <1>1
<1>2. ASSUME NEW c \in Publication, NEW d, signed' = Retired(d)
      PROVE  \A s \in Publication : signed[s].status # "ABSENT" =>
                signed'[s].status # "ABSENT" /\ signed'[s].device = signed[s].device
  BY <1>2, RetiredRows
<1>3. ASSUME NEW c \in Publication, pc[c] = "create",
             \A s \in Publication : s # c => signed'[s] = signed[s]
      PROVE  \A s \in Publication : signed[s].status # "ABSENT" =>
                signed'[s].status # "ABSENT" /\ signed'[s].device = signed[s].device
  BY <1>3 DEF PrekeyOnce, Ended
<1>4. ASSUME NEW c \in Publication, PrekeyStatement(c)
      PROVE  \/ UNCHANGED signed
             \/ \E d : signed' = Retired(d)
             \/ pc[c] = "create" /\ \A s \in Publication : s # c => signed'[s] = signed[s]
  BY <1>4, StatementEffects
<1>5. \/ UNCHANGED signed
      \/ \E c \in Publication : PrekeyStatement(c)
  BY PrekeySteps DEF Bystander, PublishCheck, tables
<1> QED BY <1>1, <1>2, <1>3, <1>4, <1>5

\* What the steps of a fetch do to its row lock, its bundle and its bundles.
LEMMA FetchEffects ==
  ASSUME KeyTypeOK, RowLocks, NEW c \in Call, FetchStep(c)
  PROVE  /\ \A e \in Call : e # c => rowLock'[e] = rowLock[e] /\ bundle'[e] = bundle[e]
                                     /\ answer'[e] = answer[e]
         /\ \/ UNCHANGED <<stock, rowLock, bundle, answer>>
            \/ /\ UNCHANGED <<stock, rowLock, answer>> /\ rowLock[c] = NoItem
               /\ bundle'[c].signed = NoCall /\ \A i \in Item : ~Holds(bundle'[c], i)
            \/ /\ UNCHANGED <<stock, rowLock, answer>>
               /\ bundle'[c].device = bundle[c].device
               /\ bundle'[c].signed \in ActivePrekeys(bundle[c].device)
               /\ \A i \in Item : Holds(bundle'[c], i) => Holds(bundle[c], i)
            \/ /\ UNCHANGED <<stock, bundle, answer>>
               /\ stock[rowLock'[c]].device = bundle[c].device
            \/ /\ rowLock[c] \in Item /\ rowLock'[c] = NoItem /\ UNCHANGED answer
               /\ stock' = [stock EXCEPT ![rowLock[c]].status = "CONSUMED"]
               /\ bundle'[c].device = bundle[c].device /\ bundle'[c].signed = bundle[c].signed
               /\ \A i \in Item : Holds(bundle'[c], i) => Holds(bundle[c], i) \/ i = rowLock[c]
            \/ /\ UNCHANGED <<stock, rowLock>> /\ rowLock[c] = NoItem
               /\ bundle'[c] = NoBundle /\ answer'[c] = answer[c] \cup {bundle[c]}
<1> USE DEF Goto, tables, locals
<1>1. \A e \in Call : e # c => bundle'[e] = bundle[e] /\ answer'[e] = answer[e]
  BY FetchFrame
<1>2. CASE FetchDevices(c) BY <1>1, <1>2 DEF FetchDevices
<1>3. ASSUME NEW d \in Device, FetchIdentity(c, d)
      PROVE  /\ UNCHANGED <<stock, rowLock, answer>> /\ rowLock[c] = NoItem
             /\ bundle'[c].signed = NoCall /\ \A i \in Item : ~Holds(bundle'[c], i)
  <2>1. bundle'[c] = [NoBundle EXCEPT !.device = d, !.identity = identity[d]]
    BY <1>3 DEF FetchIdentity, KeyTypeOK
  <2>2. bundle'[c].signed = NoCall /\ bundle'[c].oneTime = NoItem /\ bundle'[c].mls = NoItem
    BY <2>1 DEF NoBundle
  <2>3. pc[c] = "bundle" /\ UNCHANGED <<stock, rowLock, answer>> BY <1>3 DEF FetchIdentity
  <2>4. rowLock[c] = NoItem BY <2>3 DEF RowLocks
  <2> QED BY <2>2, <2>3, <2>4, NoItemIsNone DEF Holds
<1>4. CASE FetchSigned(c)
  <2>1. UNCHANGED <<stock, rowLock, answer>> BY <1>4 DEF FetchSigned
  <2>2. ASSUME NEW s \in NewestPrekey(bundle[c].device), bundle' = [bundle EXCEPT ![c].signed = s]
        PROVE  /\ bundle'[c].device = bundle[c].device
               /\ bundle'[c].signed \in ActivePrekeys(bundle[c].device)
               /\ \A i \in Item : Holds(bundle'[c], i) => Holds(bundle[c], i)
    <3>1. bundle'[c] = [bundle[c] EXCEPT !.signed = s] BY <2>2 DEF KeyTypeOK
    <3>2. bundle[c] \in Bundles BY DEF KeyTypeOK
    <3>3. /\ bundle'[c].device = bundle[c].device /\ bundle'[c].signed = s
          /\ bundle'[c].oneTime = bundle[c].oneTime /\ bundle'[c].mls = bundle[c].mls
      BY <3>1, <3>2 DEF Bundles
    <3>4. s \in ActivePrekeys(bundle[c].device) BY <2>2 DEF NewestPrekey
    <3> QED BY <3>3, <3>4 DEF Holds
  <2>3. \/ \E s \in NewestPrekey(bundle[c].device) : bundle' = [bundle EXCEPT ![c].signed = s]
        \/ UNCHANGED bundle
    BY <1>4 DEF FetchSigned
  <2> QED BY <1>1, <2>1, <2>2, <2>3
<1>5. CASE FetchClaimOneTime(c) \/ FetchClaimMls(c)
  <2>1. UNCHANGED <<stock, bundle, answer>>
    BY <1>5 DEF FetchClaimOneTime, FetchClaimMls, ClaimLock
  <2>2. ASSUME NEW kind, NEW i \in Claimable(kind, bundle[c].device),
               rowLock' = [rowLock EXCEPT ![c] = i]
        PROVE  /\ stock[rowLock'[c]].device = bundle[c].device
               /\ \A e \in Call : e # c => rowLock'[e] = rowLock[e]
    <3>1. rowLock'[c] = i /\ \A e \in Call : e # c => rowLock'[e] = rowLock[e]
      BY <2>2 DEF KeyTypeOK
    <3> QED BY <3>1 DEF Claimable
  <2>3. \/ \E kind : \E i \in Claimable(kind, bundle[c].device) :
              rowLock' = [rowLock EXCEPT ![c] = i]
        \/ UNCHANGED rowLock
    <3>1. CASE FetchClaimOneTime(c) BY <3>1 DEF FetchClaimOneTime, ClaimLock
    <3>2. CASE FetchClaimMls(c) BY <3>2 DEF FetchClaimMls, ClaimLock
    <3> QED BY <1>5, <3>1, <3>2
  <2> QED BY <1>1, <2>1, <2>2, <2>3
<1>6. CASE FetchCommitOneTime(c) \/ FetchCommitMls(c)
  <2>1. pc[c] \in {"commitOneTime", "commitMls"} /\ ClaimCommitted(c)
    BY <1>6 DEF FetchCommitOneTime, FetchCommitMls
  <2>2. PICK got \in Item : got = rowLock[c] BY <2>1 DEF RowLocks
  <2>3. /\ stock' = [stock EXCEPT ![rowLock[c]].status = "CONSUMED"] /\ UNCHANGED answer
        /\ rowLock'[c] = NoItem /\ \A e \in Call : e # c => rowLock'[e] = rowLock[e]
    BY <2>1 DEF ClaimCommitted, KeyTypeOK
  <2>4. bundle[c] \in Bundles BY DEF KeyTypeOK
  <2>5. \/ bundle'[c] = [bundle[c] EXCEPT !.oneTime = got]
        \/ bundle'[c] = [bundle[c] EXCEPT !.mls = got]
    <3>1. CASE FetchCommitOneTime(c) BY <2>2, <3>1 DEF FetchCommitOneTime, KeyTypeOK
    <3>2. CASE FetchCommitMls(c) BY <2>2, <3>2 DEF FetchCommitMls, KeyTypeOK
    <3> QED BY <1>6, <3>1, <3>2
  <2>6. /\ bundle'[c].device = bundle[c].device /\ bundle'[c].signed = bundle[c].signed
        /\ bundle'[c].oneTime \in {bundle[c].oneTime, got}
        /\ bundle'[c].mls \in {bundle[c].mls, got}
    BY <2>4, <2>5 DEF Bundles
  <2>7. \A i \in Item : Holds(bundle'[c], i) => Holds(bundle[c], i) \/ i = rowLock[c]
    BY <2>2, <2>6 DEF Holds
  <2> QED BY <1>1, <2>2, <2>3, <2>6, <2>7
<1>7. CASE FetchPush(c)
  <2>1. /\ pc[c] = "push" /\ UNCHANGED <<stock, rowLock>>
        /\ bundle'[c] = NoBundle /\ answer'[c] = answer[c] \cup {bundle[c]}
    BY <1>7 DEF FetchPush, KeyTypeOK
  <2>2. rowLock[c] = NoItem BY <2>1 DEF RowLocks
  <2> QED BY <1>1, <2>1, <2>2
<1> QED BY <1>1, <1>2, <1>3, <1>4, <1>5, <1>6, <1>7 DEF FetchStep

\* No key row is lost or moves to another device, and a new one is of its publication's.
StockGrows ==
    /\ \A i \in Item : stock[i].status # "ABSENT" =>
          stock'[i].status # "ABSENT" /\ stock'[i].device = stock[i].device
    /\ \A i \in Item : stock[i].status = "ABSENT" /\ stock'[i].status # "ABSENT" =>
          pc[i[2]] \in Publishing /\ stock'[i].device = arg[i[2]].device

\* Every step keeps what is claimed of where keys come from.
LEMMA OriginStep ==
  ASSUME KeyTypeOK, RequestIsWhole, DeviceFacts, ClaimInv, PrekeyOnce, OriginInv, [Next]_vars
  PROVE  OriginInv'
<1> USE CallParts
<1>1. \A q : DevicesOf(q) \subseteq DevicesOf(q)' BY DevicesGrow
<1>2. RequestsStand /\ (BundlesStand \/ \E c \in Call : FetchStep(c)) BY KeyMoves
<1>3. ASSUME NEW e \in Call, arg'[e] = arg[e]
      PROVE  DevicesOf(arg[e].person) \subseteq DevicesOf(arg[e].person)'
  <2>1. PICK q : q = arg[e].person OBVIOUS
  <2>2. DevicesOf(arg[e].person)' = DevicesOf(q)' BY <1>3, <2>1 DEF DevicesOf
  <2> QED BY <1>1, <2>1, <2>2
<1>4. ASSUME NEW e \in Call, arg'[e].device \in DevicesOf(arg'[e].person), pc[e] = "idle"
      PROVE  arg'[e].device \in DevicesOf(arg[e].person)'
  <2>1. PICK q : q = arg'[e].person OBVIOUS
  <2>2. DevicesOf(arg[e].person)' = DevicesOf(q)' BY <2>1 DEF DevicesOf
  <2> QED BY <1>1, <1>4, <2>1, <2>2
<1>5. PublisherOwns'
  <2> SUFFICES ASSUME NEW e \in Call, pc'[e] \in Publishing
               PROVE  arg'[e].device \in DevicesOf(arg[e].person)'
    BY DEF PublisherOwns
  <2>1. CASE pc[e] # "idle"
    <3>1. arg'[e] = arg[e] /\ DevicesOf(arg[e].person) \subseteq DevicesOf(arg[e].person)'
      BY <1>2, <1>3, <2>1 DEF RequestsStand
    <3>2. arg'[e].device \in DevicesOf(arg[e].person)
      BY <1>2, <3>1 DEF RequestsStand, OriginInv, PublisherOwns
    <3> QED BY <3>1, <3>2
  <2>2. CASE pc[e] = "idle"
    <3>1. arg'[e].device \in DevicesOf(arg'[e].person)
      BY <1>2, <2>2 DEF RequestsStand, Publishing
    <3> QED BY <1>4, <2>2, <3>1
  <2> QED BY <2>1, <2>2
<1>6. StockGrows
  <2>1. CASE UNCHANGED stock BY <2>1 DEF StockGrows
  <2>2. ASSUME NEW c \in Call, NEW kind, pc[c] \in {"oneTime", "storeMls"}, stock' = Stocked(kind, c)
        PROVE  StockGrows
    <3>1. ASSUME NEW i \in Item, i[2] # c PROVE stock'[i] = stock[i]
      BY <2>2, <3>1 DEF Stocked
    <3>2. ASSUME NEW i \in Item, i[2] = c
          PROVE  /\ stock[i].status = "ABSENT"
                 /\ stock'[i] = stock[i] \/ stock'[i] = [device |-> arg[c].device, status |-> "AVAILABLE"]
      BY <2>2, <3>2 DEF Stocked, ClaimInv, StoredByEnded, Ended
    <3> QED BY <2>2, <3>1, <3>2 DEF StockGrows, Publishing
  <2>3. ASSUME NEW c \in Call, rowLock[c] \in Item,
               stock' = [stock EXCEPT ![rowLock[c]].status = "CONSUMED"]
        PROVE  StockGrows
    <3>1. PICK got \in Item : got = rowLock[c] BY <2>3
    <3>2. stock[got].status = "AVAILABLE" BY <3>1, NoItemIsNone DEF ClaimInv, RowLocks
    <3>3. stock[got] \in StockRow BY DEF KeyTypeOK, StockRow
    <3>4. /\ stock'[got] = [stock[got] EXCEPT !.status = "CONSUMED"]
          /\ \A i \in Item : i # got => stock'[i] = stock[i]
      BY <2>3, <3>1 DEF KeyTypeOK
    <3>5. stock'[got].status = "CONSUMED" /\ stock'[got].device = stock[got].device
      BY <3>3, <3>4 DEF StockRow
    <3> QED BY <3>2, <3>4, <3>5 DEF StockGrows
  <2>4. ASSUME NEW c \in Call, FetchStep(c) PROVE StockGrows
    <3>1. \/ UNCHANGED stock
          \/ rowLock[c] \in Item /\ stock' = [stock EXCEPT ![rowLock[c]].status = "CONSUMED"]
      BY <2>4, FetchEffects DEF ClaimInv
    <3> QED BY <2>1, <2>3, <3>1
  <2> QED BY <1>2, <2>1, <2>2, <2>4 DEF BundlesStand
<1>7. StockOrigin'
  <2> SUFFICES ASSUME NEW i \in Item, stock'[i].status # "ABSENT"
               PROVE  stock'[i].device \in DevicesOf(arg[i[2]].person)'
    BY DEF StockOrigin
  <2>1. PICK e \in Call : e = i[2] BY DEF Item
  <2>2. CASE stock[i].status # "ABSENT"
    <3>1. pc[e] # "idle" BY <2>1, <2>2 DEF ClaimInv, StoredByEnded, Ended
    <3>2. arg'[e] = arg[e] /\ DevicesOf(arg[e].person) \subseteq DevicesOf(arg[e].person)'
      BY <1>2, <1>3, <3>1 DEF RequestsStand
    <3>3. stock[i].device \in DevicesOf(arg[e].person) BY <2>1, <2>2 DEF OriginInv, StockOrigin
    <3>4. stock'[i].device \in DevicesOf(arg[e].person)' BY <1>6, <2>2, <3>2, <3>3 DEF StockGrows
    <3> QED BY <2>1, <3>4
  <2>3. CASE stock[i].status = "ABSENT"
    <3>1. pc[e] \in Publishing /\ stock'[i].device = arg[e].device BY <1>6, <2>1, <2>3 DEF StockGrows
    <3>2. arg'[e] = arg[e] /\ DevicesOf(arg[e].person) \subseteq DevicesOf(arg[e].person)'
      BY <1>2, <1>3, <3>1 DEF RequestsStand, Publishing
    <3>3. stock'[i].device \in DevicesOf(arg[e].person)'
      BY <3>1, <3>2 DEF OriginInv, PublisherOwns
    <3> QED BY <2>1, <3>3
  <2> QED BY <2>2, <2>3
<1>8. \A s \in Publication : signed[s].status # "ABSENT" =>
         signed'[s].status # "ABSENT" /\ signed'[s].device = signed[s].device
  BY SignedKept
<1>9. \A b \in Bundles : KeysOf(b) /\ HeldIsConsumed =>
         (\A c \in Call : b \in Held(c) => KeysOf(b)')
  <2> SUFFICES ASSUME NEW b \in Bundles, KeysOf(b), HeldIsConsumed, NEW c \in Call, b \in Held(c)
               PROVE  KeysOf(b)'
    OBVIOUS
  <2>1. b.signed # NoCall => b.signed \in Publication BY DEF Bundles
  <2>2. \A i \in Item : Holds(b, i) => stock[i].status = "CONSUMED" BY DEF HeldIsConsumed
  <2> QED BY <1>6, <1>8, <2>1, <2>2 DEF StockGrows, KeysOf
<1>10. ASSUME NEW c \in Call, NEW b \in Held(c) PROVE KeysOf(b) /\ KeysOf(b)'
  <2>1. b \in Bundles BY DEF Held, KeyTypeOK
  <2>2. KeysOf(b) BY DEF OriginInv, HeldOfDevice
  <2> QED BY <1>9, <2>1, <2>2 DEF ClaimInv
<1>11. \A c \in Call : bundle[c] \in Held(c) BY DEF Held
<1>12. ASSUME BundlesStand PROVE ClaimedOfDevice' /\ HeldOfDevice'
  <2>1. HeldOfDevice' BY <1>10, <1>12 DEF BundlesStand, HeldOfDevice, Held
  <2>2. ASSUME NEW c \in Call, rowLock'[c] # NoItem
        PROVE  stock'[rowLock'[c]].device = bundle'[c].device
    <3>1. PICK i : i = rowLock[c] OBVIOUS
    <3>2. rowLock'[c] = i /\ i # NoItem /\ i \in Item
      BY <1>12, <2>2, <3>1 DEF BundlesStand, KeyTypeOK
    <3>3. stock[i].status = "AVAILABLE" /\ stock[i].device = bundle[c].device
      BY <3>1, <3>2 DEF ClaimInv, RowLocks, OriginInv, ClaimedOfDevice
    <3>4. stock'[i].device = stock[i].device BY <1>6, <3>2, <3>3 DEF StockGrows
    <3> QED BY <1>12, <3>2, <3>3, <3>4 DEF BundlesStand
  <2> QED BY <2>1, <2>2 DEF ClaimedOfDevice
<1>13. ASSUME NEW c \in Call, FetchStep(c) PROVE ClaimedOfDevice' /\ HeldOfDevice'
  <2>1. \A e \in Call : e # c => rowLock'[e] = rowLock[e] /\ bundle'[e] = bundle[e]
                                 /\ answer'[e] = answer[e]
    BY <1>13, FetchEffects DEF ClaimInv
  <2>2. ASSUME NEW e \in Call, rowLock[e] # NoItem, rowLock'[e] = rowLock[e],
               bundle'[e].device = bundle[e].device
        PROVE  stock'[rowLock'[e]].device = bundle'[e].device
    <3>1. PICK i \in Item : i = rowLock[e] BY <2>2 DEF KeyTypeOK
    <3>2. stock[i].status = "AVAILABLE" /\ stock[i].device = bundle[e].device
      BY <2>2, <3>1 DEF ClaimInv, RowLocks, OriginInv, ClaimedOfDevice
    <3>3. stock'[i].device = stock[i].device BY <1>6, <3>2 DEF StockGrows
    <3> QED BY <2>2, <3>1, <3>2, <3>3
  <2>3. ASSUME rowLock'[c] = NoItem \/ stock'[rowLock'[c]].device = bundle'[c].device
        PROVE  ClaimedOfDevice'
    BY <2>1, <2>2, <2>3 DEF ClaimedOfDevice
  <2>4. ASSUME KeysOf(bundle[c])', \A b \in answer'[c] : b \in Held(c)
        PROVE  HeldOfDevice'
    <3>1. \A b : b = bundle'[c] => KeysOf(b)' BY <2>4 DEF KeysOf
    <3>2. ASSUME NEW e \in Call, NEW b \in Held(e)' PROVE KeysOf(b)'
      <4>1. b \in Held(e) \/ (e = c /\ b = bundle'[c]) BY <2>1, <2>4, <3>2 DEF Held
      <4> QED BY <1>10, <3>1, <4>1
    <3> QED BY <3>2 DEF HeldOfDevice
  <2>5. KeysOf(bundle[c]) /\ bundle[c] \in Bundles
    BY <1>10, <1>11 DEF KeyTypeOK
  <2>6. PICK old : old = bundle[c] OBVIOUS
  <2>7. KeysOf(old)' /\ KeysOf(old) BY <1>10, <1>11, <2>6
  <2>8. PICK new : new = bundle'[c] OBVIOUS
  <2>9. answer'[c] = answer[c] => \A b \in answer'[c] : b \in Held(c) BY DEF Held
  <2>10. ASSUME KeysOf(new)' PROVE KeysOf(bundle[c])' BY <2>8, <2>10 DEF KeysOf
  <2>11. CASE UNCHANGED <<stock, rowLock, bundle, answer>>
    <3>1. new = old BY <2>6, <2>8, <2>11
    <3>2. HeldOfDevice' BY <2>4, <2>7, <2>9, <2>10, <2>11, <3>1
    <3>3. ClaimedOfDevice' BY <2>2, <2>3, <2>11
    <3> QED BY <3>2, <3>3
  <2>12. CASE /\ UNCHANGED <<stock, rowLock, answer>> /\ rowLock[c] = NoItem
              /\ bundle'[c].signed = NoCall /\ \A i \in Item : ~Holds(bundle'[c], i)
    <3>1. KeysOf(new)' BY <2>8, <2>12 DEF KeysOf
    <3> QED BY <2>3, <2>4, <2>9, <2>10, <2>12, <3>1
  <2>13. CASE /\ UNCHANGED <<stock, rowLock, answer>>
              /\ bundle'[c].device = bundle[c].device
              /\ bundle'[c].signed \in ActivePrekeys(bundle[c].device)
              /\ \A i \in Item : Holds(bundle'[c], i) => Holds(bundle[c], i)
    <3>1. /\ new.signed \in Publication /\ signed[new.signed].status # "ABSENT"
          /\ signed[new.signed].device = new.device
      BY <2>8, <2>13 DEF ActivePrekeys
    <3>2. signed'[new.signed].status # "ABSENT" /\ signed'[new.signed].device = new.device
      BY <1>8, <3>1
    <3>3. \A i \in Item : Holds(new, i) => stock'[i].device = new.device
      BY <2>6, <2>7, <2>8, <2>13 DEF KeysOf
    <3>4. KeysOf(new)' BY <3>2, <3>3 DEF KeysOf
    <3>5. ClaimedOfDevice' BY <2>2, <2>3, <2>13
    <3> QED BY <2>4, <2>9, <2>10, <2>13, <3>4, <3>5
  <2>14. CASE /\ UNCHANGED <<stock, bundle, answer>>
              /\ stock[rowLock'[c]].device = bundle[c].device
    <3>1. new = old BY <2>6, <2>8, <2>14
    <3>2. HeldOfDevice' BY <2>4, <2>7, <2>9, <2>10, <2>14, <3>1
    <3>3. ClaimedOfDevice' BY <2>3, <2>14
    <3> QED BY <3>2, <3>3
  <2>15. CASE /\ rowLock[c] \in Item /\ rowLock'[c] = NoItem /\ UNCHANGED answer
              /\ stock' = [stock EXCEPT ![rowLock[c]].status = "CONSUMED"]
              /\ bundle'[c].device = bundle[c].device /\ bundle'[c].signed = bundle[c].signed
              /\ \A i \in Item : Holds(bundle'[c], i) => Holds(bundle[c], i) \/ i = rowLock[c]
    <3>1. PICK got \in Item : got = rowLock[c] BY <2>15
    <3>2. stock[got].status = "AVAILABLE" /\ stock[got].device = old.device
      BY <2>6, <3>1, NoItemIsNone DEF ClaimInv, RowLocks, OriginInv, ClaimedOfDevice
    <3>3. stock'[got].device = old.device BY <1>6, <3>2 DEF StockGrows
    <3>4. new.device = old.device /\ new.signed = old.signed BY <2>6, <2>8, <2>15
    <3>5. \A i \in Item : Holds(new, i) => Holds(old, i) \/ i = got
      BY <2>6, <2>8, <2>15, <3>1
    <3>6. \A i \in Item : Holds(new, i) => stock'[i].device = new.device
      BY <2>7, <3>3, <3>4, <3>5 DEF KeysOf
    <3>7. KeysOf(new)' BY <2>7, <3>4, <3>6 DEF KeysOf
    <3> QED BY <2>3, <2>4, <2>9, <2>10, <2>15, <3>7
  <2>16. CASE /\ UNCHANGED <<stock, rowLock>> /\ rowLock[c] = NoItem
              /\ bundle'[c] = NoBundle /\ answer'[c] = answer[c] \cup {bundle[c]}
    <3>1. \A b \in answer'[c] : b \in Held(c) BY <2>16 DEF Held
    <3>2. new = NoBundle BY <2>8, <2>16
    <3>3. KeysOf(new)' BY <3>2, NoItemIsNone DEF KeysOf, Holds, NoBundle
    <3> QED BY <2>3, <2>4, <2>10, <2>16, <3>1, <3>3
  <2> QED BY <1>13, <2>11, <2>12, <2>13, <2>14, <2>15, <2>16, FetchEffects DEF ClaimInv
<1> QED BY <1>2, <1>5, <1>7, <1>12, <1>13 DEF OriginInv

-----------------------------------------------------------------------------
(* The theorems.                                                           *)

\* The initial state satisfies the inductive invariant.
LEMMA KeyInit == Init => KeyInv
<1> SUFFICES ASSUME Init PROVE KeyInv OBVIOUS
<1> USE DEF Init
<1>1. KeyTypeOK
  <2>1. NoDeviceRow \in [owner : Person \cup {Nobody}, status : {"ABSENT", "ACTIVE", "REVOKED"}]
    BY DEF NoDeviceRow
  <2>2. NoPrekeyRow \in [device : AnyDevice, signedBy : AnyKey,
                         status : {"ABSENT", "ACTIVE", "EXPIRED"}, createdAt : Nat]
    BY DEF NoPrekeyRow, AnyDevice, AnyKey
  <2>3. NoStockRow \in [device : AnyDevice, status : {"ABSENT", "AVAILABLE", "CONSUMED"}]
    BY DEF NoStockRow, AnyDevice
  <2>4. NoArg \in [person : Person \cup {Nobody}, device : AnyDevice,
                   identity : AnyKey, signedBy : AnyKey, batch : 0..(MaxBatch + 1)]
    BY KeyDistributionAssumption DEF NoArg, AnyDevice, AnyKey
  <2>5. NoBundle \in Bundles BY DEF NoBundle, Bundles, AnyDevice, AnyKey
  <2>6. "idle" \in Label BY DEF Label
  <2> QED BY <2>1, <2>2, <2>3, <2>4, <2>5, <2>6 DEF KeyTypeOK, AnyKey
<1>2. Registered = {} BY DEF Registered, NoDeviceRow
<1>3. \A p : DevicesOf(p) = {} /\ ActiveDevices(p) = {} BY <1>2 DEF DevicesOf, ActiveDevices
<1>4. DevicesNumbered
  <2>1. 0 \in 0..Cardinality(Registration) BY KeyDistributionAssumption, FS_CardinalityType
  <2>2. Registered = 1..0 BY <1>2
  <2> QED BY <2>1, <2>2 DEF DevicesNumbered
<1>5. /\ RequestIsWhole /\ RegistrationHoldsLock /\ RegistrationSawAll /\ RevokedExist
      /\ NewestDeviceOnly
  BY <1>3 DEF RequestIsWhole, RegistrationHoldsLock, RegistrationSawAll, RevokedExist,
              NewestDeviceOnly, Registering
<1>6. StoredByEnded /\ RowLocks BY DEF StoredByEnded, RowLocks, NoStockRow
<1>7. \A c \in Call : \A b \in Held(c) : \A i \in Item : ~Holds(b, i)
  BY DEF Held, Holds, NoBundle
<1>8. HeldIsConsumed /\ HeldOnce BY <1>7 DEF HeldIsConsumed, HeldOnce
<1>9. FetchProgress BY DEF FetchProgress, ProgressOf, Assembling
<1>10. FetchIsFresh BY DEF FetchIsFresh, FreshOf, Assembling
<1> QED BY <1>1, <1>4, <1>5, <1>6, <1>8, <1>9, <1>10 DEF KeyInv, DeviceInv, ClaimInv

\* Every step keeps it.
LEMMA KeyStep == KeyInv /\ [Next]_vars => KeyInv'
<1> SUFFICES ASSUME KeyInv, [Next]_vars PROVE KeyInv' OBVIOUS
<1>1. KeyTypeOK /\ RequestIsWhole /\ DeviceFacts /\ ClaimInv /\ FetchIsFresh
  BY DEF KeyInv, DeviceInv, DeviceFacts
<1>2. KeyTypeOK' /\ RequestIsWhole' BY <1>1, TypeStep
<1>3. DeviceFacts' BY <1>1, DeviceStep
<1>4. ClaimInv' BY <1>1, ClaimStep
<1>5. FetchIsFresh' BY <1>1, FreshStep
<1> QED BY <1>2, <1>3, <1>4, <1>5 DEF KeyInv, DeviceInv, DeviceFacts

\* The inductive invariant holds in every reachable state: KeyDistribution's tables,
\* advisory locks, row locks and half-made bundles agree with one another.
THEOREM KeyInvariance == Spec => []KeyInv
BY KeyInit, KeyStep, PTL DEF Spec

\* Every variable of KeyDistribution stays in its domain.
THEOREM KeyTypeCorrect == Spec => []KeyTypeOK
<1>1. KeyInv => KeyTypeOK BY DEF KeyInv, DeviceInv
<1> QED BY <1>1, KeyInvariance, PTL

\* devices.service.ts:38-39: however registrations, revocations and failures interleave, a
\* person's active device is the last they registered.
THEOREM OneActiveDevice == Spec => []NewestDeviceOnly
<1>1. KeyInv => NewestDeviceOnly BY DEF KeyInv, DeviceInv
<1> QED BY <1>1, KeyInvariance, PTL

\* e2ee-keys.repository.ts:154-159, 218-221: no prekey or KeyPackage row is handed out twice.
THEOREM NoKeyTwice == Spec => []HandedOutOnce
<1>1. KeyInv => HandedOutOnce BY CallParts DEF KeyInv, ClaimInv, HeldOnce, HandedOutOnce
<1> QED BY <1>1, KeyInvariance, PTL

\* devices.service.ts:34-37: a fetch serves no device that was replaced before it began.
THEOREM NoStaleDevice == Spec => []NoStaleDeviceServed
<1>1. KeyInv => NoStaleDeviceServed
  BY CallParts DEF KeyInv, FetchIsFresh, FreshOf, IsFresh, NoStaleDeviceServed
<1> QED BY <1>1, KeyInvariance, PTL

-----------------------------------------------------------------------------
(* The advisory locks.                                                     *)

\* Who holds a person's lock is registering a device of theirs, past the lock, with nothing
\* more to wait for.
HoldersRun ==
    \A p \in Person : registerLock[p] # NoCall =>
       /\ pc[registerLock[p]] \in Registering
       /\ arg[registerLock[p]].person = p

\* A step of a call that holds no lock takes none from its holder.
LEMMA HoldersKept ==
  ASSUME KeyTypeOK, HoldersRun, NEW c \in Call, UNCHANGED registerLock,
         pc[c] \notin Registering,
         \A e \in Call : e # c => pc'[e] = pc[e] /\ arg'[e] = arg[e]
  PROVE  HoldersRun'
  BY DEF KeyTypeOK, HoldersRun

\* Every step keeps it: a lock is taken by a call that goes on, and freed by one that ends.
LEMMA HoldersStep ==
  ASSUME KeyTypeOK, RegistrationHoldsLock, HoldersRun, [Next]_vars
  PROVE  HoldersRun'
<1> USE CallParts DEF Goto, tables, locals, Ended
<1>1. Steps BY NextIsSteps
<1> DEFINE Only(c) == \A e \in Call : e # c => pc'[e] = pc[e] /\ arg'[e] = arg[e]
           Outside(c) == UNCHANGED registerLock /\ pc[c] \notin Registering /\ Only(c)
<1>2. ASSUME NEW c \in Call, Outside(c) PROVE HoldersRun' BY <1>2, HoldersKept
<1>3. ASSUME NEW c \in Call, NEW p \in Person, RegisterBegin(c, p) PROVE HoldersRun'
  <2>1. Outside(c) BY <1>3 DEF RegisterBegin, Registering, KeyTypeOK
  <2> QED BY <1>2, <2>1
<1>4. ASSUME NEW c \in Call, NEW p \in Person, NEW d \in Device, RevokeRead(c, p, d)
      PROVE  HoldersRun'
  <2>1. Outside(c) BY <1>4 DEF RevokeRead, Registering, KeyTypeOK
  <2> QED BY <1>2, <2>1
<1>5. ASSUME NEW c \in Call, NEW r, PublishCheck(c, r) PROVE HoldersRun'
  <2>1. Outside(c) BY <1>5 DEF PublishCheck, Registering, KeyTypeOK
  <2> QED BY <1>2, <2>1
<1>6. ASSUME NEW c \in Call, NEW p, NEW d, NEW n, MlsCheck(c, p, d, n) PROVE HoldersRun'
  <2>1. Outside(c) BY <1>6 DEF MlsCheck, Registering, KeyTypeOK
  <2> QED BY <1>2, <2>1
<1>7. ASSUME NEW c \in Call, NEW p, NEW denied, FetchAuthorize(c, p, denied) PROVE HoldersRun'
  <2>1. Outside(c) BY <1>7 DEF FetchAuthorize, Registering, KeyTypeOK
  <2> QED BY <1>2, <2>1
<1>8. ASSUME NEW c \in Call, RegisterLock(c) PROVE HoldersRun'
  <2> DEFINE q == arg[c].person
  <2>1. q \in Person BY <1>8 DEF RegisterLock, RegistrationHoldsLock
  <2>2. /\ registerLock' = [registerLock EXCEPT ![q] = c] /\ arg' = arg
        /\ pc[c] = "lock" /\ pc'[c] = "readActive" /\ Only(c)
    BY <1>8 DEF RegisterLock, KeyTypeOK
  <2>3. registerLock'[q] = c /\ \A p \in Person : p # q => registerLock'[p] = registerLock[p]
    BY <2>1, <2>2 DEF KeyTypeOK
  <2>4. ASSUME NEW p \in Person, registerLock'[p] # NoCall, p # q
        PROVE  pc'[registerLock'[p]] \in Registering /\ arg'[registerLock'[p]].person = p
    <3>1. PICK e : e = registerLock[p] OBVIOUS
    <3>2. e \in Call /\ pc[e] \in Registering /\ arg[e].person = p
      BY <2>3, <2>4, <3>1 DEF HoldersRun, KeyTypeOK
    <3>3. e # c BY <2>2, <3>2 DEF Registering
    <3> QED BY <2>2, <2>3, <2>4, <3>1, <3>2, <3>3
  <2>5. pc'[c] \in Registering /\ arg'[c].person = q BY <2>2 DEF Registering
  <2> QED BY <2>3, <2>4, <2>5 DEF HoldersRun
<1>9. ASSUME NEW c \in Call, RegisterRead(c) PROVE HoldersRun'
  <2>1. UNCHANGED <<registerLock, arg>> /\ pc' = [pc EXCEPT ![c] = "commit"]
    BY <1>9 DEF RegisterRead
  <2>2. ASSUME NEW e \in Call, pc[e] \in Registering PROVE pc'[e] \in Registering
    BY <2>1, <2>2 DEF Registering, KeyTypeOK
  <2>3. \A p \in Person : registerLock[p] # NoCall => registerLock[p] \in Call BY DEF KeyTypeOK
  <2> QED BY <2>1, <2>2, <2>3 DEF HoldersRun
<1>10. ASSUME NEW c \in Call, RegisterCommit(c) PROVE HoldersRun'
  <2> DEFINE q == arg[c].person
  <2>1. q \in Person BY <1>10 DEF RegisterCommit, RegistrationHoldsLock, Registering
  <2>2. /\ registerLock' = [registerLock EXCEPT ![q] = NoCall] /\ arg' = arg /\ Only(c)
    BY <1>10 DEF RegisterCommit, KeyTypeOK
  <2>3. registerLock'[q] = NoCall /\ \A p \in Person : p # q => registerLock'[p] = registerLock[p]
    BY <2>1, <2>2 DEF KeyTypeOK
  <2>4. ASSUME NEW p \in Person, registerLock'[p] # NoCall
        PROVE  pc'[registerLock'[p]] \in Registering /\ arg'[registerLock'[p]].person = p
    <3>1. PICK e : e = registerLock[p] OBVIOUS
    <3>2. p # q /\ registerLock'[p] = e BY <2>3, <2>4, <3>1
    <3>3. e \in Call /\ pc[e] \in Registering /\ arg[e].person = p
      BY <2>4, <3>1, <3>2 DEF HoldersRun, KeyTypeOK
    <3>4. e # c BY <3>2, <3>3
    <3> QED BY <2>2, <3>2, <3>3, <3>4
  <2> QED BY <2>4 DEF HoldersRun
<1>11. ASSUME NEW c \in Call, Fail(c) PROVE HoldersRun'
  <2>1. /\ \A p \in Person : registerLock'[p] = IF registerLock[p] = c THEN NoCall ELSE registerLock[p]
        /\ arg' = arg /\ Only(c)
    BY <1>11 DEF Fail, Unlocked, KeyTypeOK
  <2>2. ASSUME NEW p \in Person, registerLock'[p] # NoCall
        PROVE  pc'[registerLock'[p]] \in Registering /\ arg'[registerLock'[p]].person = p
    <3>1. PICK e : e = registerLock[p] OBVIOUS
    <3>2. e # c /\ registerLock'[p] = e BY <2>1, <2>2, <3>1
    <3>3. e \in Call /\ pc[e] \in Registering /\ arg[e].person = p
      BY <2>2, <3>1, <3>2 DEF HoldersRun, KeyTypeOK
    <3> QED BY <2>1, <3>2, <3>3
  <2> QED BY <2>2 DEF HoldersRun
<1>12. ASSUME NEW c \in Call, RevokeWrite(c) PROVE HoldersRun'
  <2>1. Outside(c) BY <1>12 DEF RevokeWrite, Registering, KeyTypeOK
  <2> QED BY <1>2, <2>1
<1>13. ASSUME NEW c \in Call, MlsStore(c) PROVE HoldersRun'
  <2>1. Outside(c) BY <1>13 DEF MlsStore, Registering, KeyTypeOK
  <2> QED BY <1>2, <2>1
<1>14. ASSUME NEW c \in Call, PublishStep(c) PROVE HoldersRun'
  <2>1. Outside(c)
    BY <1>14 DEF PublishStep, PublishIdentity, PublishReadIdentity, PublishRetire,
                 PublishCreate, PublishOneTime, Registering, KeyTypeOK
  <2> QED BY <1>2, <2>1
<1>15. ASSUME NEW c \in Call, FetchStep(c) PROVE HoldersRun'
  <2>1. Outside(c)
    <3>1. CASE FetchDevices(c) BY <3>1 DEF FetchDevices, Registering, KeyTypeOK
    <3>2. CASE \E d \in Device : FetchIdentity(c, d)
      BY <3>2 DEF FetchIdentity, Registering, KeyTypeOK
    <3>3. CASE FetchSigned(c) BY <3>3 DEF FetchSigned, Registering, KeyTypeOK
    <3>4. CASE FetchClaimOneTime(c) \/ FetchClaimMls(c)
      BY <3>4 DEF FetchClaimOneTime, FetchClaimMls, ClaimLock, Registering, KeyTypeOK
    <3>5. CASE FetchCommitOneTime(c) \/ FetchCommitMls(c)
      BY <3>5 DEF FetchCommitOneTime, FetchCommitMls, ClaimCommitted, Registering, KeyTypeOK
    <3>6. CASE FetchPush(c) BY <3>6 DEF FetchPush, Registering, KeyTypeOK
    <3> QED BY <1>15, <3>1, <3>2, <3>3, <3>4, <3>5, <3>6 DEF FetchStep
  <2> QED BY <1>2, <2>1
<1>16. CASE UNCHANGED vars BY <1>16 DEF vars, HoldersRun
<1>17. ASSUME NEW c \in Call, RegisterStep(c) PROVE HoldersRun'
  BY <1>8, <1>9, <1>10, <1>17 DEF RegisterStep
<1> QED BY <1>1, <1>3, <1>4, <1>5, <1>6, <1>7, <1>11, <1>12, <1>13, <1>14, <1>15, <1>16, <1>17
        DEF Steps

\* devices.service.ts:58-60: nobody waits for the advisory lock of a registration that is
\* over, be it committed, failed or cut off, or of one that itself waits; so registrations
\* of one person neither block one another for good nor block those of others.
THEOREM LockHoldersRun == Spec => []HoldersRun
<1>1. Init => HoldersRun BY DEF Init, HoldersRun
<1>2. KeyInv /\ HoldersRun /\ [Next]_vars => HoldersRun'
  BY HoldersStep DEF KeyInv, DeviceInv
<1> QED BY <1>1, <1>2, KeyInvariance, PTL DEF Spec

-----------------------------------------------------------------------------
(* Theorems about the keys of a bundle and about signed prekeys.           *)

\* Invariants about keys, on top of KeyInv.
KeysInv == KeyInv /\ OriginInv /\ PrekeyInv

\* The initial state satisfies them.
LEMMA KeysInit == Init => KeysInv /\ CrossInv
<1> SUFFICES ASSUME Init PROVE KeysInv /\ CrossInv OBVIOUS
<1>1. KeyInv BY KeyInit
<1> USE DEF Init
<1>2. PublisherOwns BY DEF PublisherOwns, Publishing
<1>3. StockOrigin BY DEF StockOrigin, NoStockRow
<1>4. ClaimedOfDevice BY DEF ClaimedOfDevice
<1>5. HeldOfDevice
  <2>1. \A c \in Call : \A b \in Held(c) : b = NoBundle BY DEF Held
  <2>2. KeysOf(NoBundle) BY NoItemIsNone DEF KeysOf, Holds, NoBundle
  <2>3. \A b : b = NoBundle => KeysOf(b) BY <2>2
  <2> QED BY <2>1, <2>3 DEF HeldOfDevice
<1>6. PrekeyInv
  BY DEF PrekeyInv, IdentityIsKept, CheckedKey, PrekeyOnce, PrekeyWasVerified, NoPrekeyRow
<1>7. CrossInv
  <2>1. \A d : ActivePrekeys(d) = {} BY DEF ActivePrekeys, NoPrekeyRow
  <2>2. \A c \in Publication : pc[c] = "idle" /\ crossed[c] = {} BY CallParts
  <2>3. CrossedOK BY <2>2 DEF CrossedOK, OfPrekeys, Publishing
  <2>4. CheckStillHolds BY <2>2 DEF CheckStillHolds
  <2>5. TwoActiveOnlyIfCrossed BY <2>1 DEF TwoActiveOnlyIfCrossed
  <2> QED BY <2>3, <2>4, <2>5 DEF CrossInv
<1> QED BY <1>1, <1>2, <1>3, <1>4, <1>5, <1>6, <1>7 DEF KeysInv, OriginInv

\* Every step keeps them.
LEMMA KeysStep == KeysInv /\ [Next]_vars => KeysInv'
<1> SUFFICES ASSUME KeysInv, [Next]_vars PROVE KeysInv' OBVIOUS
<1>1. KeyTypeOK /\ RequestIsWhole /\ DeviceFacts /\ ClaimInv /\ PrekeyInv /\ PrekeyOnce /\ OriginInv
  BY DEF KeysInv, KeyInv, DeviceInv, DeviceFacts, PrekeyInv
<1>2. KeyInv' BY KeyStep DEF KeysInv
<1>3. OriginInv' BY <1>1, OriginStep
<1>4. PrekeyInv' BY <1>1, PrekeyStep
<1> QED BY <1>2, <1>3, <1>4 DEF KeysInv

\* In every reachable state, whichever calls overlap and fail, each key is of the device it
\* was published for and each signed prekey verifies under a key its device has had.
THEOREM KeysInvariance == Spec => []KeysInv
<1>1. Init => KeysInv BY KeysInit
<1> QED BY <1>1, KeysStep, PTL DEF Spec

\* e2ee-keys.repository.ts: every key of a bundle was published for the bundle's device, by
\* its owner, and its row is CONSUMED.
THEOREM BundlesAreOfOneDevice == Spec => []BundleOfOneDevice
<1>1. KeysInv => BundleOfOneDevice
  <2> SUFFICES ASSUME KeysInv, NEW c \in Fetch, NEW b \in Held(c)
               PROVE  /\ b.signed # NoCall => signed[b.signed].device = b.device
                      /\ \A i \in Item : Holds(b, i) =>
                            /\ stock[i] = [device |-> b.device, status |-> "CONSUMED"]
                            /\ arg[i[2]].person = devices[b.device].owner
    BY DEF BundleOfOneDevice
  <2>1. c \in Call BY CallParts
  <2>2. KeysOf(b) BY <2>1 DEF KeysInv, OriginInv, HeldOfDevice
  <2>3. ASSUME NEW i \in Item, Holds(b, i)
        PROVE  /\ stock[i] = [device |-> b.device, status |-> "CONSUMED"]
               /\ arg[i[2]].person = devices[b.device].owner
    <3>1. stock[i].device = b.device BY <2>2, <2>3 DEF KeysOf
    <3>2. stock[i].status = "CONSUMED" BY <2>1, <2>3 DEF KeysInv, KeyInv, ClaimInv, HeldIsConsumed
    <3>3. stock[i] \in [device : AnyDevice, status : {"ABSENT", "AVAILABLE", "CONSUMED"}]
      BY DEF KeysInv, KeyInv, DeviceInv, KeyTypeOK
    <3>4. stock[i].device \in DevicesOf(arg[i[2]].person)
      BY <3>2 DEF KeysInv, OriginInv, StockOrigin
    <3> QED BY <3>1, <3>2, <3>3, <3>4 DEF DevicesOf
  <2> QED BY <2>2, <2>3 DEF KeysOf
<1> QED BY <1>1, KeysInvariance, PTL

\* e2ee.service.ts:78-80: no signed prekey is stored that does not verify under an identity
\* key its device has had, even if publications overlap.
THEOREM PrekeysAreVerified == Spec => []PrekeyWasVerified
<1>1. KeysInv => PrekeyWasVerified BY DEF KeysInv, PrekeyInv
<1> QED BY <1>1, KeysInvariance, PTL

\* In every reachable state, a publication's check still holds but for what those that
\* overlapped it did.
THEOREM CrossInvariance == Spec => [](KeysInv /\ CrossInv)
<1>1. KeysInv /\ CrossInv /\ [Next]_vars => KeysInv' /\ CrossInv'
  <2> SUFFICES ASSUME KeysInv, CrossInv, [Next]_vars PROVE KeysInv' /\ CrossInv'
    OBVIOUS
  <2>1. KeyTypeOK /\ RequestIsWhole /\ PrekeyOnce
    BY DEF KeysInv, KeyInv, DeviceInv, PrekeyInv
  <2>2. KeysInv' BY KeysStep
  <2>3. CrossInv' BY <2>1, CrossStep
  <2> QED BY <2>2, <2>3
<1> QED BY <1>1, KeysInit, PTL DEF Spec

\* e2ee-keys.repository.ts:114-116: two ACTIVE signed prekeys of a device are of
\* publications that overlapped, whatever fails.
THEOREM TwoActiveHaveCrossed == Spec => []TwoActiveOnlyIfCrossed
<1>1. KeysInv /\ CrossInv => TwoActiveOnlyIfCrossed BY DEF CrossInv
<1> QED BY <1>1, CrossInvariance, PTL

\* A device whose ACTIVE prekeys were published by calls that overlapped no other of the
\* device has at most one of them.
OneIfSerial ==
    \A d \in Device :
        (\A s \in ActivePrekeys(d) : crossed[s] = {}) => Cardinality(ActivePrekeys(d)) <= 1

\* e2ee-keys.repository.ts:114-116, of such publications, at whichever statement others fail
\* and whatever the publications of other devices do.
THEOREM OnePrekeyIfSerial == Spec => []OneIfSerial
<1>1. TwoActiveOnlyIfCrossed => OneIfSerial
  <2> SUFFICES ASSUME TwoActiveOnlyIfCrossed, NEW d \in Device,
                      \A s \in ActivePrekeys(d) : crossed[s] = {}
               PROVE  Cardinality(ActivePrekeys(d)) <= 1
    BY DEF OneIfSerial
  <2>1. CASE ActivePrekeys(d) = {} BY <2>1, FS_EmptySet
  <2>2. CASE ActivePrekeys(d) # {}
    <3>1. PICK s : s \in ActivePrekeys(d) BY <2>2
    <3>2. ActivePrekeys(d) = {s} BY <3>1 DEF TwoActiveOnlyIfCrossed
    <3>3. Cardinality({s}) = 1 BY FS_Singleton
    <3> QED BY <3>2, <3>3
  <2> QED BY <2>1, <2>2
<1> QED BY <1>1, TwoActiveHaveCrossed, PTL

\* e2ee.service.ts:78-80: a signed prekey is inserted while it verifies under its device's
\* identity key, or under the one that an overlapping publication has just replaced.
THEOREM AcceptedOrReplaced == Spec => AcceptedUnlessCrossed
<1>1. KeysInv /\ CrossInv /\ [Next]_vars =>
        [\A c \in Publication :
            PublishCreate(c) =>
               \/ arg[c].signedBy = identity[arg[c].device]
               \/ \E o \in crossed[c] : arg[o].identity = identity[arg[c].device]]_vars
  BY DEF CrossInv, CheckStillHolds, StillOrReplaced, PublishCreate
<1> QED BY <1>1, CrossInvariance, PTL DEF Spec, AcceptedUnlessCrossed

=============================================================================
