---------------------- MODULE CertificateAuthorityProofs ----------------------
(***************************************************************************)
(* Proofs about CertificateAuthority, for any number of CAs and of keys.   *)
(***************************************************************************)
EXTENDS CertificateAuthority, SequenceTheorems, TLAPS

(* The inductive invariant.                                                *)

CAs == 1..Len(cas)

(* A slice is full, and slot i holds no key older than the i-th.           *)
SlotsFilled == \A c \in CAs : \A i \in 1..cas[c].len : KeyAt(c, i) \in i..Len(made)

(* Only CAs of one hierarchy share an array.                               *)
SharedByRelatives ==
  \A c, d \in CAs : cas[c].array = cas[d].array => Tree(c) = Tree(d)

(* The first key of a hierarchy is the first of each CA in it.             *)
FirstKeyShared ==
  \A c \in CAs : Tree(Tree(c)) = Tree(c) /\ FirstKey(c) = FirstKey(Tree(c))

(* The keys of a CA are its own and those of its relatives.                *)
KeysOfKin == \A c \in CAs : \A i \in 1..cas[c].len : Tree(made[KeyAt(c, i)].ca) = Tree(c)

(* The environment's CA.                                                   *)
FirstOfTest == Tree(1) = 1 /\ cas[1].td = "test"

(* Every key was added to a CA, whose slice still reaches to its slot.     *)
MadeForACA ==
  \A k \in 1..Len(made) : made[k].ca \in CAs /\ made[k].at \in 1..cas[made[k].ca].len

(* The chain of a CA, without the root.                                    *)
LeadsToRoot(c) ==
  LET chain == cas[c].intermediates
  IN /\ chain \in Seq(CAs)
     /\ IF chain = <<>> THEN c = Tree(c)
        ELSE chain[1] = c /\ cas[chain[Len(chain)]].signer = Tree(c)
     /\ \A i \in 1..(Len(chain) - 1) : cas[chain[i]].signer = chain[i + 1]
     /\ cas[Tree(c)].signer = Tree(c) /\ cas[Tree(c)].td = cas[c].td
     /\ \A i \in 1..Len(chain) : cas[chain[i]].td = cas[c].td

ChainsLead == \A c \in CAs : LeadsToRoot(c)

(* An SVID and a JWK Set remain those of the CA they came from.            *)
SVIDOfItsCA ==
  /\ svid.kind = "x509" =>
       /\ svid.issuer \in CAs /\ svid.intermediates = cas[svid.issuer].intermediates
       /\ svid.root = Tree(svid.issuer)
  /\ svid.kind = "jwt" /\ svid.root # 0 => svid.root \in CAs /\ svid.key = FirstKey(svid.root)

BundleOfItsCA == bundle.root # 0 => bundle.root \in CAs /\ FirstKey(bundle.root) \in bundle.keys

(* An SVID is what its test has asked for, of a CA the test takes it from. *)
IssuedAsAsked ==
  /\ svid.kind = "x509" =>
       /\ svid.test \in X509Tests
       /\ svid.leaf = Leaf(LeafID(svid.test), LeafOptions(svid.test))
       /\ Tree(svid.issuer) = 1 <=> svid.test # "X4"
       /\ svid.intact <=> svid.test # "X3"
  /\ svid.kind = "jwt" /\ svid.test = "J9" =>
       /\ \E alg \in {"none", "HS256"} : svid.header = BareHeader(alg)
       /\ svid.claims = Claims("own", <<Audience>>) /\ svid.key = 0
  /\ svid.kind = "jwt" /\ svid.test # "J9" =>
       /\ svid.test \in JWTTests
       /\ svid.header = Header(svid.key, TokenOptions(svid.test))
       /\ svid.claims = Claims(Subject(svid.test), TokenOptions(svid.test))
       /\ svid.root # 0 /\ Tree(svid.root) = svid.root
       /\ svid.root = 1 <=> svid.test # "J2"
       /\ svid.intact <=> svid.test # "J5"

CAInv ==
  /\ TypeOK
  /\ SlotsFilled
  /\ SharedByRelatives
  /\ FirstKeyShared
  /\ KeysOfKin
  /\ FirstOfTest
  /\ MadeForACA
  /\ LostOnlyToRelatives
  /\ ChainsLead
  /\ SVIDOfItsCA
  /\ IssuedAsAsked
  /\ BundleOfItsCA
-----------------------------------------------------------------------------
(* The environment's CA has one key, alone in its array.                   *)
LEMMA InitKeeps == Init => CAInv
<1> SUFFICES ASSUME Init PROVE CAInv
  OBVIOUS
<1>1. /\ Len(cas) = 1 /\ cas[1] = Root("test", 1, 1)
      /\ Len(arrays) = 1 /\ arrays[1] = FirstArray(1)
      /\ Len(made) = 1 /\ made[1] = [ca |-> 1, at |-> 1]
      /\ svid = NoSVID /\ bundle = NoBundle
  BY DEF Init
<1>2. /\ cas[1].td = "test" /\ cas[1].root = 1 /\ cas[1].signer = 1
      /\ cas[1].intermediates = <<>> /\ cas[1].array = 1 /\ cas[1].len = 1
      /\ arrays[1].cap = 1 /\ arrays[1].slot[1] = 1
  BY <1>1, CAAssumption DEF Root, FirstArray
<1>3. TypeOK
  <2>1. Root("test", 1, 1) \in CARecord
    BY DEF Root, CARecord, TrustDomains
  <2>2. FirstArray(1) \in ArrayRecord
    BY DEF FirstArray, ArrayRecord
  <2> QED BY <1>1, <1>2, <2>1, <2>2, CAAssumption DEF Init, TypeOK
<1>4. CAs = {1} /\ Tree(1) = 1 /\ KeyAt(1, 1) = 1
  BY <1>1, <1>2 DEF CAs, Tree, KeyAt
<1>5. SlotsFilled /\ SharedByRelatives /\ FirstKeyShared /\ KeysOfKin /\ FirstOfTest
  BY <1>1, <1>2, <1>4
  DEF SlotsFilled, SharedByRelatives, FirstKeyShared, FirstKey, KeysOfKin, FirstOfTest
<1>6. MadeForACA /\ LostOnlyToRelatives
  BY <1>1, <1>2, <1>4 DEF MadeForACA, LostOnlyToRelatives
<1>7. LeadsToRoot(1)
  <2>1. <<>> \in Seq(CAs) /\ 1..Len(<<>>) = {} /\ 1..(Len(<<>>) - 1) = {}
    OBVIOUS
  <2> QED BY <1>2, <1>4, <2>1 DEF LeadsToRoot
<1>8. ChainsLead
  BY <1>4, <1>7 DEF ChainsLead
<1>9. SVIDOfItsCA /\ IssuedAsAsked /\ BundleOfItsCA
  BY <1>1 DEF SVIDOfItsCA, IssuedAsAsked, BundleOfItsCA, NoSVID, NoBundle
<1> QED BY <1>3, <1>5, <1>6, <1>8, <1>9 DEF CAInv
-----------------------------------------------------------------------------
(* What a step that creates CA n, or puts a key into the slice of CA c,    *)
(* leaves as it was.                                                       *)
OldCAsStay == Len(cas) <= Len(cas') /\ \A c \in CAs : cas'[c] = cas[c]

KinStay ==
  /\ Len(cas) <= Len(cas')
  /\ \A c \in CAs : /\ cas'[c].root = cas[c].root /\ cas'[c].signer = cas[c].signer
                    /\ cas'[c].td = cas[c].td /\ cas'[c].intermediates = cas[c].intermediates

LEMMA NewShape ==
  ASSUME CAInv, NEW td \in TrustDomains, New(td)
  PROVE  /\ OldCAsStay /\ Len(cas') = Len(cas) + 1
         /\ cas'[Len(cas) + 1] = Root(td, Len(cas) + 1, Len(arrays) + 1)
         /\ Len(arrays') = Len(arrays) + 1 /\ \A a \in 1..Len(arrays) : arrays'[a] = arrays[a]
         /\ arrays'[Len(arrays) + 1] = FirstArray(Len(made) + 1)
         /\ Len(made') = Len(made) + 1 /\ \A k \in 1..Len(made) : made'[k] = made[k]
         /\ made'[Len(made) + 1] = [ca |-> Len(cas) + 1, at |-> 1]
         /\ Len(made) + 1 <= MaxKeys
  BY DEF CAInv, TypeOK, New, MakeKey, NewKey, OldCAsStay, CAs

(* The bundle and the SVID of a CA stay its own when only CAs are added.   *)
LEMMA IssuedStays ==
  ASSUME CAInv, KinStay, UNCHANGED <<svid, bundle>>,
         \A c \in CAs : FirstKey(c)' = FirstKey(c)
  PROVE  SVIDOfItsCA' /\ IssuedAsAsked' /\ BundleOfItsCA' /\ FirstOfTest'
<1>1. \A c \in CAs : c \in CAs' /\ Tree(c)' = Tree(c)
  BY DEF KinStay, CAs, Tree, CAInv, TypeOK
<1>2. SVIDOfItsCA'
  BY <1>1 DEF CAInv, SVIDOfItsCA, KinStay
<1>3. BundleOfItsCA'
  BY <1>1 DEF CAInv, BundleOfItsCA
<1>4. IssuedAsAsked'
  <2>1. IssuedAsAsked /\ svid' = svid
    BY DEF CAInv
  <2>2. svid.kind = "x509" => Tree(svid.issuer)' = Tree(svid.issuer)
    BY <1>1 DEF CAInv, SVIDOfItsCA
  <2>3. svid.kind = "jwt" /\ svid.test # "J9" => Tree(svid.root)' = Tree(svid.root)
    BY <1>1 DEF CAInv, SVIDOfItsCA, IssuedAsAsked
  <2> QED BY <2>1, <2>2, <2>3 DEF IssuedAsAsked
<1>5. FirstOfTest'
  <2>1. 1 \in CAs
    BY DEF CAInv, TypeOK, CAs
  <2> QED BY <1>1, <2>1 DEF CAInv, FirstOfTest, KinStay
<1> QED BY <1>2, <1>3, <1>4, <1>5

(* The chains of the CAs that were there lead where they led.              *)
LEMMA ChainsStay ==
  ASSUME CAInv, KinStay, NEW c \in CAs, Len(cas') \in Nat
  PROVE  LeadsToRoot(c)'
<1>1. /\ CAs \subseteq CAs'
      /\ \A d \in CAs : /\ cas'[d].root = cas[d].root /\ cas'[d].signer = cas[d].signer
                        /\ cas'[d].td = cas[d].td /\ cas'[d].intermediates = cas[d].intermediates
  BY DEF KinStay, CAs, CAInv, TypeOK
<1>2. LeadsToRoot(c) /\ Tree(c) \in CAs /\ Tree(c)' = Tree(c)
  BY <1>1 DEF CAInv, ChainsLead, TypeOK, Tree, CAs
<1>3. cas[c].intermediates \in Seq(CAs) /\ cas[c].intermediates' = cas[c].intermediates
  BY <1>1, <1>2 DEF LeadsToRoot
<1>4. \A i \in 1..Len(cas[c].intermediates) : cas[c].intermediates[i] \in CAs
  BY <1>3
<1>5. cas[c].intermediates \in Seq(CAs')
  BY <1>1, <1>3
<1> DEFINE chain == cas[c].intermediates
<1>6. chain = <<>> \/ chain[Len(chain)] \in CAs
  BY <1>3, <1>4
<1>7. IF chain = <<>> THEN c = Tree(c) ELSE chain[1] = c /\ cas'[chain[Len(chain)]].signer = Tree(c)
  BY <1>1, <1>2, <1>6 DEF LeadsToRoot
<1>8. \A i \in 1..(Len(chain) - 1) : cas'[chain[i]].signer = chain[i + 1]
  BY <1>1, <1>2, <1>3, <1>4 DEF LeadsToRoot
<1>9. \A i \in 1..Len(chain) : cas'[chain[i]].td = cas'[c].td
  BY <1>1, <1>2, <1>4 DEF LeadsToRoot
<1>10. cas'[Tree(c)].signer = Tree(c) /\ cas'[Tree(c)].td = cas'[c].td
  BY <1>1, <1>2 DEF LeadsToRoot
<1> QED BY <1>2, <1>3, <1>5, <1>7, <1>8, <1>9, <1>10 DEF LeadsToRoot

LEMMA SeqOfSubset ==
  ASSUME NEW S, NEW T, S \subseteq T, NEW s \in Seq(S)
  PROVE  s \in Seq(T)
  OBVIOUS

(* The record of a key survives the creation of CAs.                       *)
LEMMA RecordStays ==
  ASSUME CAInv, Len(cas') \in Nat, Len(cas) <= Len(cas')
  PROVE  made \in Seq([ca : 1..Len(cas'), at : 1..MaxKeys])
<1>1. [ca : 1..Len(cas), at : 1..MaxKeys] \subseteq [ca : 1..Len(cas'), at : 1..MaxKeys]
  BY DEF CAInv, TypeOK
<1>2. made \in Seq([ca : 1..Len(cas), at : 1..MaxKeys])
  BY DEF CAInv, TypeOK
<1> QED BY <1>1, <1>2, SeqOfSubset
-----------------------------------------------------------------------------
(* New: a hierarchy of its own, with an array of its own.                  *)
LEMMA NewKeeps ==
  ASSUME CAInv, NEW td \in TrustDomains, New(td),
         NEW n, n = Len(cas) + 1, NEW a, a = Len(arrays) + 1, NEW k, k = Len(made) + 1
  PROVE  CAInv'
<1>1. /\ OldCAsStay /\ Len(cas') = n /\ cas'[n] = Root(td, n, a)
      /\ Len(arrays') = a /\ \A b \in 1..Len(arrays) : arrays'[b] = arrays[b]
      /\ arrays'[a] = FirstArray(k)
      /\ Len(made') = k /\ \A i \in 1..Len(made) : made'[i] = made[i]
      /\ made'[k] = [ca |-> n, at |-> 1]
      /\ k <= MaxKeys
  BY NewShape
<1>2. /\ Len(cas) \in Nat /\ n \in CAs' /\ CAs' = CAs \cup {n} /\ n \notin CAs
      /\ \A c \in CAs : cas[c].array \in 1..Len(arrays) /\ Tree(c) \in CAs /\ cas[c].len \in 1..MaxKeys
      /\ Len(arrays) \in Nat /\ a \in Nat /\ Len(made) \in Nat /\ k \in 1..MaxKeys
  BY <1>1 DEF CAInv, TypeOK, CAs, Tree
<1>3. /\ cas'[n].root = n /\ cas'[n].signer = n /\ cas'[n].td = td /\ cas'[n].intermediates = <<>>
      /\ cas'[n].array = a /\ cas'[n].len = 1
      /\ arrays'[a].cap = 1 /\ arrays'[a].slot[1] = k
  BY <1>1, <1>2, CAAssumption DEF Root, FirstArray
<1>4. \A c \in CAs : Tree(c)' = Tree(c) /\ \A i : KeyAt(c, i)' = KeyAt(c, i)
  BY <1>1, <1>2 DEF OldCAsStay, Tree, KeyAt
<1>5. Tree(n)' = n /\ KeyAt(n, 1)' = k
  BY <1>3 DEF Tree, KeyAt
<1>6. TypeOK'
  <2>1. cas' \in Seq(CARecord) /\ arrays' \in Seq(ArrayRecord)
    <3>1. Root(td, n, a) \in CARecord
      BY <1>2 DEF Root, CARecord
    <3>2. FirstArray(k) \in ArrayRecord
      BY <1>2 DEF FirstArray, ArrayRecord
    <3> QED BY <3>1, <3>2 DEF CAInv, TypeOK, New, NewKey
  <2>2. made' \in Seq([ca : 1..Len(cas'), at : 1..MaxKeys]) /\ Len(made') <= MaxKeys
    <3>1. made \in Seq([ca : 1..Len(cas'), at : 1..MaxKeys])
      BY <1>1, <1>2, RecordStays
    <3>2. [ca |-> n, at |-> 1] \in [ca : 1..Len(cas'), at : 1..MaxKeys]
      BY <1>1, <1>2, CAAssumption
    <3> QED BY <1>1, <3>1, <3>2 DEF New, MakeKey
  <2>3. \A c \in CAs' : /\ cas'[c].root \in CAs' /\ cas'[c].array \in 1..Len(arrays')
                        /\ cas'[c].len \in 1..MaxKeys
                        /\ cas'[c].len <= arrays'[cas'[c].array].cap
    <3>1. ASSUME NEW c \in CAs
          PROVE  /\ cas'[c].root \in CAs' /\ cas'[c].array \in 1..Len(arrays')
                 /\ cas'[c].len \in 1..MaxKeys
                 /\ cas'[c].len <= arrays'[cas'[c].array].cap
      <4>1. /\ cas[c].root \in CAs /\ cas[c].array \in 1..Len(arrays) /\ cas[c].len \in 1..MaxKeys
            /\ cas[c].len <= arrays[cas[c].array].cap
        BY DEF CAInv, TypeOK, CAs
      <4>2. cas'[c] = cas[c]
        BY <1>1 DEF OldCAsStay
      <4> QED BY <1>1, <1>2, <4>1, <4>2
    <3>2. 1 \in 1..MaxKeys
      BY CAAssumption
    <3> QED BY <1>1, <1>2, <1>3, <3>1, <3>2
  <2> QED BY <1>1, <1>2, <2>1, <2>2, <2>3 DEF TypeOK, CAs
<1>7. SlotsFilled' /\ SharedByRelatives' /\ FirstKeyShared' /\ KeysOfKin'
  <2>0. KeysOfKin'
    <3>1. ASSUME NEW c \in CAs, NEW i \in 1..cas[c].len
          PROVE  Tree(made[KeyAt(c, i)].ca)' = Tree(c)'
      <4>1. KeyAt(c, i) \in 1..Len(made) /\ KeyAt(c, i)' = KeyAt(c, i)
        BY <1>2, <1>4, <3>1 DEF CAInv, SlotsFilled
      <4>2. made[KeyAt(c, i)].ca \in CAs /\ made'[KeyAt(c, i)'] = made[KeyAt(c, i)]
        BY <1>1, <4>1 DEF CAInv, MadeForACA
      <4> QED BY <1>4, <3>1, <4>2 DEF CAInv, KeysOfKin, Tree
    <3>2. Tree(made[KeyAt(n, 1)].ca)' = n
      BY <1>1, <1>3, <1>5 DEF Tree
    <3> QED BY <1>1, <1>2, <1>3, <1>5, <3>1, <3>2 DEF KeysOfKin, OldCAsStay
  <2>1. SlotsFilled'
    BY <1>1, <1>2, <1>3, <1>4, <1>5 DEF CAInv, SlotsFilled, OldCAsStay
  <2>2. SharedByRelatives'
    BY SMTT(30), <1>1, <1>2, <1>3, <1>4 DEF CAInv, SharedByRelatives, OldCAsStay
  <2>3. FirstKeyShared'
    BY <1>2, <1>4, <1>5 DEF CAInv, FirstKeyShared, FirstKey, Tree
  <2> QED BY <2>0, <2>1, <2>2, <2>3
<1>8. MadeForACA' /\ LostOnlyToRelatives'
  <2>1. MadeForACA'
    <3>1. \A i \in 1..Len(made) : made'[i].ca \in CAs' /\ made'[i].at \in 1..cas'[made'[i].ca].len
      <4> TAKE m \in 1..Len(made)
      <4>1. made'[m] = made[m]
        BY <1>1
      <4>2. made[m].ca \in CAs /\ made[m].at \in 1..cas[made[m].ca].len
        BY DEF CAInv, MadeForACA
      <4>3. made[m].ca \in CAs' /\ cas'[made[m].ca] = cas[made[m].ca]
        BY <1>1, <1>2, <4>2 DEF OldCAsStay
      <4> QED BY <4>1, <4>2, <4>3
    <3>2. made'[k].ca \in CAs' /\ made'[k].at \in 1..cas'[made'[k].ca].len
      BY <1>1, <1>2, <1>3
    <3> QED BY <1>1, <1>2, <3>1, <3>2 DEF MadeForACA
  <2>2. \A i \in 1..Len(made) : KeyAt(made[i].ca, made[i].at) \in 1..Len(made)
    <3> TAKE i \in 1..Len(made)
    <3>1. made[i].ca \in CAs /\ made[i].at \in 1..cas[made[i].ca].len
      BY DEF CAInv, MadeForACA
    <3>2. KeyAt(made[i].ca, made[i].at) \in made[i].at..Len(made)
      BY <3>1 DEF CAInv, SlotsFilled
    <3>3. cas[made[i].ca].len \in 1..MaxKeys
      BY <3>1 DEF CAInv, TypeOK, CAs
    <3>4. ASSUME NEW m \in 1..MaxKeys, NEW l \in 1..m, NEW key \in l..Len(made)
          PROVE  key \in 1..Len(made)
      BY CAAssumption
    <3> QED BY <3>1, <3>2, <3>3, <3>4
  <2>3. \A i \in 1..Len(made) : made[i].ca \in CAs
    BY DEF CAInv, MadeForACA
  <2>4. LostOnlyToRelatives'
    <3>1. ASSUME NEW i \in 1..Len(made), NEW c, c = made[i].ca, NEW j, j = KeyAt(c, made[i].at)
          PROVE  /\ made'[i] = made[i] /\ KeyAt(made[i].ca, made[i].at)' = j
                 /\ j = i \/ (j > i /\ (made[j].ca # c)' /\ Tree(made[j].ca)' = Tree(c)')
      <4>1. j \in 1..Len(made) /\ c \in CAs /\ made[j].ca \in CAs
        BY <3>1, <2>2, <2>3
      <4>2. j = i \/ (j > i /\ made[j].ca # c /\ Tree(made[j].ca) = Tree(c))
        BY <3>1 DEF CAInv, LostOnlyToRelatives
      <4>3. made'[j] = made[j] /\ made'[i] = made[i]
        BY <1>1, <4>1
      <4>4. KeyAt(made[i].ca, made[i].at)' = KeyAt(c, made[i].at)'
        BY <3>1, <4>3
      <4> QED BY <1>4, <3>1, <4>1, <4>2, <4>3, <4>4
    <3>2. made'[k].ca = n /\ made'[k].at = 1
      BY <1>1
    <3>3. KeyAt(made[k].ca, made[k].at)' = k
      BY <1>5, <3>2
    <3> QED BY <1>1, <1>2, <3>1, <3>3 DEF LostOnlyToRelatives
  <2> QED BY <2>1, <2>4
<1>9. ChainsLead'
  <2>1. \A c \in CAs : LeadsToRoot(c)'
    BY <1>1, <1>2, ChainsStay DEF OldCAsStay, KinStay
  <2>2. LeadsToRoot(n)'
    <3>1. <<>> \in Seq(CAs') /\ 1..Len(<<>>) = {} /\ 1..(Len(<<>>) - 1) = {}
      OBVIOUS
    <3> QED BY <1>3, <1>5, <3>1 DEF LeadsToRoot
  <2> QED BY <1>2, <2>1, <2>2 DEF ChainsLead
<1>10. SVIDOfItsCA' /\ IssuedAsAsked' /\ BundleOfItsCA' /\ FirstOfTest'
  BY <1>1, <1>4, IssuedStays DEF New, FirstKey, OldCAsStay, KinStay
<1> QED BY <1>6, <1>7, <1>8, <1>9, <1>10 DEF CAInv
-----------------------------------------------------------------------------
(* What was lost stays lost to the same relatives when CAs are added.      *)
LEMMA LossStays ==
  ASSUME CAInv, UNCHANGED <<arrays, made>>, OldCAsStay
  PROVE  LostOnlyToRelatives'
<1>1. \A c \in CAs : Tree(c)' = Tree(c) /\ \A i : KeyAt(c, i)' = KeyAt(c, i)
  BY DEF OldCAsStay, Tree, KeyAt
<1>2. \A i \in 1..Len(made) : /\ made[i].ca \in CAs
                             /\ KeyAt(made[i].ca, made[i].at) \in 1..Len(made)
  <2>1. \A i \in 1..Len(made) : made[i].ca \in CAs /\ made[i].at \in 1..cas[made[i].ca].len
    BY DEF CAInv, MadeForACA
  <2>2. Len(made) \in Nat /\ \A c \in CAs : \A i \in 1..cas[c].len : KeyAt(c, i) \in i..Len(made)
    BY DEF CAInv, SlotsFilled, TypeOK
  <2> QED BY <2>1, <2>2
<1> SUFFICES ASSUME NEW i \in 1..Len(made), NEW c, c = made[i].ca, NEW j, j = KeyAt(c, made[i].at)
             PROVE  j = i \/ (j > i /\ made[j].ca # c /\ Tree(made[j].ca)' = Tree(c)')
  BY <1>1, <1>2 DEF LostOnlyToRelatives
<1>3. j = i \/ (j > i /\ made[j].ca # c /\ Tree(made[j].ca) = Tree(c))
  BY DEF CAInv, LostOnlyToRelatives
<1> QED BY <1>1, <1>2, <1>3

(* NewIntermediate: one more CA in a hierarchy and on an array.            *)
LEMMA IntermediateKeeps ==
  ASSUME CAInv, NEW c \in CAs, NewIntermediate(c), NEW n, n = Len(cas) + 1
  PROVE  CAInv'
<1>0. n \in Nat /\ n \notin CAs
  BY DEF CAInv, TypeOK, CAs
<1>1. cas[c] \in CARecord /\ cas[c].intermediates \in Seq(Nat)
  <2>1. cas[c] \in CARecord
    BY DEF CAInv, TypeOK, CAs
  <2> QED BY <2>1 DEF CARecord
<1>2. /\ OldCAsStay /\ Len(cas') = n /\ CAs' = CAs \cup {n} /\ UNCHANGED <<arrays, svid, bundle, made>>
      /\ cas'[n] = [cas[c] EXCEPT !.signer = c, !.intermediates = <<n>> \o @]
  BY DEF NewIntermediate, ChainInFront, CAInv, TypeOK, CAs, OldCAsStay
<1>3. /\ cas'[n].root = cas[c].root /\ cas'[n].signer = c /\ cas'[n].td = cas[c].td
      /\ cas'[n].intermediates = <<n>> \o cas[c].intermediates
      /\ cas'[n].array = cas[c].array /\ cas'[n].len = cas[c].len
  BY <1>1, <1>2 DEF CARecord
<1>4. \A d \in CAs : Tree(d)' = Tree(d) /\ \A i : KeyAt(d, i)' = KeyAt(d, i)
  BY <1>2 DEF OldCAsStay, Tree, KeyAt
<1>5. Tree(n)' = Tree(c) /\ Tree(c) \in CAs /\ \A i : KeyAt(n, i)' = KeyAt(c, i)
  BY <1>2, <1>3 DEF Tree, KeyAt, CAInv, TypeOK, CAs
<1>6. TypeOK'
  <2>1. cas' \in Seq(CARecord)
    <3>1. c \in Nat /\ <<n>> \o cas[c].intermediates \in Seq(Nat)
      BY <1>0, <1>1 DEF CAs, CAInv, TypeOK
    <3>2. cas'[n] \in CARecord
      BY <1>1, <1>2, <3>1 DEF CARecord
    <3> QED BY <1>2, <3>2 DEF CAInv, TypeOK, NewIntermediate, ChainInFront
  <2>2. made' \in Seq([ca : 1..Len(cas'), at : 1..MaxKeys])
    BY <1>0, <1>2, RecordStays DEF OldCAsStay
  <2>3. ASSUME NEW d \in CAs'
        PROVE  /\ cas'[d].root \in CAs' /\ cas'[d].array \in 1..Len(arrays)
               /\ cas'[d].len \in 1..MaxKeys /\ cas'[d].len <= arrays[cas'[d].array].cap
    <3>1. \A e \in CAs : /\ cas[e].root \in CAs /\ cas[e].array \in 1..Len(arrays)
                        /\ cas[e].len \in 1..MaxKeys /\ cas[e].len <= arrays[cas[e].array].cap
      BY DEF CAInv, TypeOK, CAs
    <3>2. CASE d \in CAs
      BY <1>2, <3>1, <3>2 DEF OldCAsStay
    <3>3. CASE d = n
      BY <1>2, <1>3, <3>1, <3>3
    <3> QED BY <1>2, <3>2, <3>3
  <2> QED BY <1>0, <1>2, <2>1, <2>2, <2>3 DEF TypeOK, CAs, CAInv
<1>7. SlotsFilled' /\ SharedByRelatives' /\ FirstKeyShared' /\ KeysOfKin'
  <2>0. KeysOfKin'
    <3>1. ASSUME NEW d \in CAs, NEW i \in 1..cas[d].len
          PROVE  Tree(made[KeyAt(d, i)].ca)' = Tree(d) /\ KeyAt(d, i)' = KeyAt(d, i)
      <4>1. KeyAt(d, i) \in 1..Len(made) /\ KeyAt(d, i)' = KeyAt(d, i)
        BY <1>4, <3>1 DEF CAInv, SlotsFilled, TypeOK
      <4>2. made[KeyAt(d, i)].ca \in CAs /\ made'[KeyAt(d, i)'] = made[KeyAt(d, i)]
        BY <1>2, <4>1 DEF CAInv, MadeForACA
      <4> QED BY <1>4, <3>1, <4>1, <4>2 DEF CAInv, KeysOfKin, Tree
    <3>2. \A d \in CAs : \A i \in 1..cas'[d].len : Tree(made[KeyAt(d, i)].ca)' = Tree(d)'
      BY <1>2, <1>4, <3>1 DEF OldCAsStay
    <3>3. \A i \in 1..cas'[n].len : Tree(made[KeyAt(n, i)].ca)' = Tree(n)'
      <4> TAKE i \in 1..cas'[n].len
      <4>1. i \in 1..cas[c].len /\ KeyAt(n, i)' = KeyAt(c, i)'
        BY <1>3, <1>4, <1>5
      <4>2. Tree(made[KeyAt(n, i)].ca)' = Tree(made[KeyAt(c, i)].ca)'
        BY <4>1 DEF Tree
      <4> QED BY <1>5, <3>1, <4>1, <4>2
    <3> QED BY <1>2, <3>2, <3>3 DEF KeysOfKin
  <2>1. SlotsFilled'
    <3>1. \A d \in CAs : \A i \in 1..cas'[d].len : KeyAt(d, i)' \in i..Len(made)
      BY <1>2, <1>4 DEF CAInv, SlotsFilled, OldCAsStay
    <3>2. \A i \in 1..cas'[n].len : KeyAt(n, i)' \in i..Len(made)
      BY <1>3, <1>5 DEF CAInv, SlotsFilled
    <3> QED BY <1>2, <3>1, <3>2 DEF SlotsFilled
  <2>2. SharedByRelatives'
    <3>1. \A d, e \in CAs : cas'[d].array = cas'[e].array => Tree(d)' = Tree(e)'
      BY <1>2, <1>4 DEF CAInv, SharedByRelatives, OldCAsStay
    <3>2. \A d \in CAs : cas'[d].array = cas'[n].array => Tree(d)' = Tree(n)'
      BY <1>2, <1>3, <1>4, <1>5 DEF CAInv, SharedByRelatives, OldCAsStay
    <3> QED BY <1>2, <3>1, <3>2 DEF SharedByRelatives
  <2>3. FirstKeyShared'
    <3>1. \A d \in CAs' : Tree(d)' \in CAs
      BY <1>2, <1>4, <1>5 DEF CAInv, TypeOK, CAs, Tree
    <3> QED BY <1>2, <1>4, <1>5, <3>1 DEF CAInv, FirstKeyShared, FirstKey
  <2> QED BY <2>0, <2>1, <2>2, <2>3
<1>8. MadeForACA' /\ LostOnlyToRelatives'
  <2>1. MadeForACA'
    BY <1>2 DEF CAInv, MadeForACA, OldCAsStay
  <2> QED BY <1>2, <2>1, LossStays
<1>9. ChainsLead'
  <2>1. \A d \in CAs : LeadsToRoot(d)'
    BY <1>0, <1>2, ChainsStay DEF OldCAsStay, KinStay
  <2>2. LeadsToRoot(n)'
    <3> DEFINE old == cas[c].intermediates
               chain == <<n>> \o old
    <3>1. LeadsToRoot(c)
      BY DEF CAInv, ChainsLead
    <3>2. old \in Seq(CAs)
      BY <3>1 DEF LeadsToRoot
    <3>3. /\ Len(old) \in Nat /\ \A i \in 1..Len(old) : old[i] \in CAs
          /\ old # <<>> => old[1] = c /\ Len(old) \in 1..Len(old)
      BY <3>1, <3>2 DEF LeadsToRoot
    <3>4. /\ Len(chain) = Len(old) + 1 /\ chain[1] = n /\ chain # <<>>
          /\ \A i \in 1..Len(old) : chain[i + 1] = old[i]
          /\ \A i \in 2..Len(chain) : chain[i] = old[i - 1]
      BY SMTT(30), <1>1, <3>3
    <3>5. chain \in Seq(CAs')
      BY <1>2, <3>2
    <3>6. cas'[chain[Len(chain)]].signer = Tree(c)
      <4>1. CASE old = <<>>
        BY <1>3, <3>1, <3>4, <4>1 DEF LeadsToRoot
      <4>2. CASE old # <<>>
        <5>1. chain[Len(chain)] = old[Len(old)]
          BY <3>3, <3>4, <4>2
        <5> QED BY <1>2, <3>1, <3>3, <4>2, <5>1 DEF LeadsToRoot, OldCAsStay
      <4> QED BY <4>1, <4>2
    <3>7. ASSUME NEW i \in 1..(Len(chain) - 1)
          PROVE  cas'[chain[i]].signer = chain[i + 1]
      <4>1. CASE i = 1
        BY <1>3, <3>3, <3>4, <4>1
      <4>2. CASE i # 1
        <5>1. /\ i - 1 \in 1..(Len(old) - 1) /\ chain[i] = old[i - 1]
              /\ chain[i + 1] = old[(i - 1) + 1] /\ old[i - 1] \in CAs
          BY <3>3, <3>4, <4>2
        <5>2. cas[old[i - 1]].signer = old[(i - 1) + 1]
          BY <3>1, <5>1 DEF LeadsToRoot
        <5> QED BY <1>2, <5>1, <5>2 DEF OldCAsStay
      <4> QED BY <4>1, <4>2
    <3>8. \A i \in 1..Len(chain) : cas'[chain[i]].td = cas'[n].td
      <4>1. \A i \in 1..Len(old) : cas'[old[i]].td = cas[c].td
        BY <1>2, <3>1, <3>3 DEF LeadsToRoot, OldCAsStay
      <4> QED BY SMTT(30), <1>3, <3>3, <3>4, <4>1
    <3>9. cas'[Tree(c)].signer = Tree(c) /\ cas'[Tree(c)].td = cas'[n].td
      BY <1>2, <1>3, <1>5, <3>1 DEF LeadsToRoot, OldCAsStay
    <3> HIDE DEF chain
    <3>10. cas'[n].intermediates = chain
      BY <1>3 DEF chain
    <3> QED BY <1>5, <3>4, <3>5, <3>6, <3>7, <3>8, <3>9, <3>10 DEF LeadsToRoot
  <2> QED BY <1>2, <2>1, <2>2 DEF ChainsLead
<1>10. SVIDOfItsCA' /\ IssuedAsAsked' /\ BundleOfItsCA' /\ FirstOfTest'
  BY <1>2, <1>4, IssuedStays DEF FirstKey, OldCAsStay, KinStay
<1> QED BY <1>6, <1>7, <1>8, <1>9, <1>10 DEF CAInv
-----------------------------------------------------------------------------
(* The slice of a CA and its array.                                        *)
LEMMA ArraySlot ==
  ASSUME CAInv, NEW c \in CAs
  PROVE  /\ cas \in Seq(CARecord) /\ cas[c] \in CARecord
         /\ arrays \in Seq(ArrayRecord) /\ Len(arrays) \in Nat /\ Len(made) \in Nat
         /\ Tree(c) \in CAs /\ cas[c].array \in 1..Len(arrays)
         /\ arrays[cas[c].array] \in ArrayRecord /\ arrays[cas[c].array].cap \in Nat
         /\ cas[c].len \in 1..MaxKeys /\ cas[c].len <= arrays[cas[c].array].cap
<1>1. /\ cas \in Seq(CARecord) /\ arrays \in Seq(ArrayRecord) /\ Len(made) \in Nat
      /\ cas[c].root \in CAs /\ cas[c].array \in 1..Len(arrays)
      /\ cas[c].len \in 1..MaxKeys /\ cas[c].len <= arrays[cas[c].array].cap
  BY DEF CAInv, TypeOK, CAs
<1>2. arrays[cas[c].array] \in ArrayRecord /\ cas[c] \in CARecord
  BY <1>1 DEF CAs
<1>3. arrays[cas[c].array].cap \in Nat
  BY <1>2 DEF ArrayRecord
<1> QED BY <1>1, <1>2, <1>3 DEF Tree

(* AddJWTKey: key k goes into slot i of the array a that c has from then   *)
(* on, which is its old one or a copy of it, and which is then y.          *)
AddedTo(c, i, k, a, y) ==
  /\ i <= y.cap /\ y.slot[i] = k
  /\ \A j \in 1..MaxKeys : j # i => y.slot[j] = arrays[cas[c].array].slot[j]
  /\ cas' = [cas EXCEPT ![c] = Slice(cas[c], a, i)]
  /\ \/ /\ a = cas[c].array /\ y.cap = arrays[a].cap
        /\ arrays' = [arrays EXCEPT ![a] = y]
     \/ a = Len(arrays) + 1 /\ arrays' = Append(arrays, y)

LEMMA AddShape ==
  ASSUME CAInv, NEW c \in CAs, AddJWTKey(c),
         NEW i, i = cas[c].len + 1, NEW k, k = Len(made) + 1
  PROVE  /\ svid' = svid /\ bundle' = bundle /\ made' = Append(made, [ca |-> c, at |-> i])
         /\ i \in 2..MaxKeys /\ k \in i..MaxKeys
         /\ \E a \in Nat, y \in ArrayRecord : AddedTo(c, i, k, a, y)
<1> DEFINE x == arrays[cas[c].array]
<1>1. /\ cas[c].len \in 1..MaxKeys /\ cas[c].array \in 1..Len(arrays) /\ Len(arrays) \in Nat
      /\ x \in ArrayRecord /\ x.cap \in Nat /\ cas[c].len <= x.cap
      /\ Len(made) \in Nat /\ cas \in Seq(CARecord)
  BY ArraySlot
<1>2. i \in 2..MaxKeys /\ k \in i..MaxKeys
  <2>1. KeyAt(c, cas[c].len) \in cas[c].len..Len(made)
    BY <1>1 DEF CAInv, SlotsFilled
  <2>2. MaxKeys \in Nat /\ Len(made) + 1 <= MaxKeys
    BY CAAssumption DEF AddJWTKey, MakeKey, NewKey
  <2> QED BY SMTT(30), <1>1, <2>1, <2>2
<1>3. svid' = svid /\ bundle' = bundle /\ made' = Append(made, [ca |-> c, at |-> i])
  BY DEF AddJWTKey, MakeKey, NextSlot
<1>4. ASSUME cas[c].len < x.cap
      PROVE  \E a \in Nat, y \in ArrayRecord : AddedTo(c, i, k, a, y)
  <2> DEFINE y == Put(x, x.cap, i, k)
  <2>0. i \in 1..MaxKeys /\ k \in Nat
    BY <1>2
  <2>1. /\ y \in ArrayRecord /\ y.cap = x.cap /\ y.slot[i] = k
        /\ \A j \in 1..MaxKeys : j # i => y.slot[j] = x.slot[j]
    <3> HIDE DEF x
    <3> QED BY <1>1, <2>0 DEF Put, ArrayRecord
  <2>2. cas' = [cas EXCEPT ![c] = Slice(cas[c], cas[c].array, i)]
    BY <1>4 DEF AddJWTKey
  <2>3. arrays' = [arrays EXCEPT ![cas[c].array] = y]
    BY <1>4 DEF AddJWTKey, NextSlot, NewKey
  <2> HIDE DEF y
  <2>4. i <= y.cap
    BY <1>1, <1>4, <2>1
  <2>5. AddedTo(c, i, k, cas[c].array, y)
    BY <2>1, <2>2, <2>3, <2>4 DEF AddedTo
  <2>6. cas[c].array \in Nat
    BY <1>1
  <2> QED BY <2>1, <2>5, <2>6
<1>5. ASSUME ~(cas[c].len < x.cap)
      PROVE  \E a \in Nat, y \in ArrayRecord : AddedTo(c, i, k, a, y)
  <2> DEFINE y == Put(x, 2 * x.cap, i, k)
  <2>0. i \in 1..MaxKeys /\ k \in Nat /\ 2 * x.cap \in Nat
    BY SMTT(30), <1>1, <1>2
  <2>1. /\ y \in ArrayRecord /\ y.cap = 2 * x.cap /\ y.slot[i] = k
        /\ \A j \in 1..MaxKeys : j # i => y.slot[j] = x.slot[j]
    <3> HIDE DEF x
    <3> QED BY <1>1, <2>0 DEF Put, ArrayRecord
  <2>2. cas' = [cas EXCEPT ![c] = Slice(cas[c], Len(arrays) + 1, i)]
    BY <1>5 DEF AddJWTKey
  <2>3. arrays' = Append(arrays, y)
    BY <1>5 DEF AddJWTKey, NextSlot, NewKey
  <2>4. i <= y.cap
    BY SMTT(30), <1>1, <1>5, <2>1
  <2> HIDE DEF y
  <2>5. AddedTo(c, i, k, Len(arrays) + 1, y)
    BY <2>1, <2>2, <2>3, <2>4 DEF AddedTo
  <2>6. Len(arrays) + 1 \in Nat
    BY <1>1
  <2> QED BY <2>1, <2>5, <2>6
<1>6. \E a \in Nat, y \in ArrayRecord : AddedTo(c, i, k, a, y)
  BY <1>4, <1>5
<1> QED BY <1>2, <1>3, <1>6

LEMMA AddKeyKeeps ==
  ASSUME CAInv, NEW c \in CAs, AddJWTKey(c),
         NEW i, i = cas[c].len + 1, NEW k, k = Len(made) + 1
  PROVE  CAInv'
<1>1. /\ svid' = svid /\ bundle' = bundle /\ made' = Append(made, [ca |-> c, at |-> i])
      /\ i \in 2..MaxKeys /\ k \in i..MaxKeys /\ MaxKeys \in Nat
  BY AddShape, CAAssumption
<1>0. PICK a \in Nat, y \in ArrayRecord : AddedTo(c, i, k, a, y)
  BY AddShape
<1>2. /\ i <= y.cap /\ y.slot[i] = k
      /\ \A j \in 1..MaxKeys : j # i => y.slot[j] = arrays[cas[c].array].slot[j]
      /\ cas' = [cas EXCEPT ![c] = Slice(cas[c], a, i)]
      /\ \/ /\ a = cas[c].array /\ y.cap = arrays[a].cap
            /\ arrays' = [arrays EXCEPT ![a] = y]
         \/ a = Len(arrays) + 1 /\ arrays' = Append(arrays, y)
  BY <1>0 DEF AddedTo
<1>3. /\ cas \in Seq(CARecord) /\ arrays \in Seq(ArrayRecord) /\ Len(arrays) \in Nat /\ Len(made) \in Nat
      /\ \A d \in CAs : /\ cas[d] \in CARecord /\ Tree(d) \in CAs /\ cas[d].array \in 1..Len(arrays)
                        /\ cas[d].len \in 1..MaxKeys /\ cas[d].len <= arrays[cas[d].array].cap
  BY ArraySlot
<1>4. /\ Len(cas') = Len(cas) /\ CAs' = CAs /\ KinStay /\ cas'[c] \in CARecord
      /\ cas'[c].array = a /\ cas'[c].len = i
      /\ \A d \in CAs : d # c => cas'[d] = cas[d]
  <2> DEFINE z == Slice(cas[c], a, i)
  <2>1. /\ z \in CARecord /\ z.len = i /\ z.array = a /\ z.root = cas[c].root
        /\ z.signer = cas[c].signer /\ z.td = cas[c].td /\ z.intermediates = cas[c].intermediates
    <3>1. i \in Nat
      BY <1>1
    <3>2. cas[c] \in CARecord
      BY <1>3
    <3>3. z \in CARecord /\ z.len = i /\ z.array = a /\ \A f \in {"root", "signer", "td", "intermediates"} : z[f] = cas[c][f]
      BY <3>1, <3>2 DEF Slice, CARecord
    <3> QED BY <3>3
  <2> HIDE DEF z
  <2>2. cas' = [cas EXCEPT ![c] = z]
    BY <1>2 DEF z
  <2> QED BY <1>3, <2>1, <2>2 DEF CAs, KinStay
<1>5. /\ arrays' \in Seq(ArrayRecord) /\ Len(arrays) <= Len(arrays') /\ Len(arrays') \in Nat
      /\ a \in 1..Len(arrays') /\ arrays'[a] = y
      /\ \A b \in 1..Len(arrays) : b # a => arrays'[b] = arrays[b]
      /\ \A b \in 1..Len(arrays) : arrays'[b].cap = arrays[b].cap
  <2>1. CASE a = cas[c].array /\ y.cap = arrays[a].cap /\ arrays' = [arrays EXCEPT ![a] = y]
    BY <1>3, <2>1
  <2>2. CASE a = Len(arrays) + 1 /\ arrays' = Append(arrays, y)
    BY <1>3, <2>2
  <2> QED BY <1>2, <2>1, <2>2
<1>6. /\ KeyAt(c, i)' = k /\ \A j \in 1..MaxKeys : j # i => KeyAt(c, j)' = KeyAt(c, j)
      /\ \A d \in CAs : \A j \in 1..MaxKeys :
           \/ KeyAt(d, j)' = KeyAt(d, j)
           \/ KeyAt(d, j)' = k /\ j = i /\ cas[d].array = cas[c].array
  <2>1. KeyAt(c, i)' = k /\ \A j \in 1..MaxKeys : j # i => KeyAt(c, j)' = KeyAt(c, j)
    BY <1>2, <1>4, <1>5 DEF KeyAt
  <2>2. \A d \in CAs : d # c /\ cas[d].array # a => \A j : KeyAt(d, j)' = KeyAt(d, j)
    BY <1>3, <1>4, <1>5 DEF KeyAt
  <2>3. ASSUME NEW d \in CAs, d # c, cas[d].array = a
        PROVE  cas[d].array = cas[c].array /\ \A j : KeyAt(d, j)' = KeyAt(c, j)' /\ KeyAt(d, j) = KeyAt(c, j)
    <3>1. a = cas[c].array
      BY <1>2, <1>3, <2>3
    <3> QED BY <1>4, <2>3, <3>1 DEF KeyAt
  <2> QED BY <2>1, <2>2, <2>3
<1>7. \A d \in CAs : Tree(d)' = Tree(d) /\ FirstKey(d)' = FirstKey(d) /\ cas[d].len <= cas'[d].len
  BY SMTT(30), <1>1, <1>3, <1>4, <1>6 DEF KinStay, Tree, FirstKey
<1>8. Len(made') = k /\ made'[k] = [ca |-> c, at |-> i] /\ \A m \in 1..Len(made) : made'[m] = made[m]
  BY <1>1 DEF CAInv, TypeOK
<1>9. TypeOK'
  <2>1. cas' \in Seq(CARecord)
    BY <1>2, <1>3, <1>4 DEF CAs
  <2>2. made' \in Seq([ca : 1..Len(cas'), at : 1..MaxKeys]) /\ Len(made') <= MaxKeys
    <3>1. [ca |-> c, at |-> i] \in [ca : 1..Len(cas'), at : 1..MaxKeys]
      BY <1>1, <1>4 DEF CAs
    <3> QED BY <1>1, <1>4, <1>8, <3>1 DEF CAInv, TypeOK
  <2>3. \A d \in CAs : /\ cas'[d].root \in CAs /\ cas'[d].array \in 1..Len(arrays')
                       /\ cas'[d].len \in 1..MaxKeys /\ cas'[d].len <= arrays'[cas'[d].array].cap
    <3>1. \A d \in CAs : cas'[d].root \in CAs
      BY <1>3, <1>7 DEF Tree
    <3>2. \A d \in CAs : d # c =>
            /\ cas'[d].array \in 1..Len(arrays') /\ cas'[d].len \in 1..MaxKeys
            /\ cas'[d].len <= arrays'[cas'[d].array].cap
      <4> TAKE d \in CAs
      <4> HAVE d # c
      <4>1. cas'[d] = cas[d] /\ cas[d].array \in 1..Len(arrays)
        BY <1>3, <1>4
      <4>2. arrays'[cas[d].array].cap = arrays[cas[d].array].cap
        BY <1>5, <4>1
      <4> QED BY <1>3, <1>5, <4>1, <4>2
    <3>3. /\ cas'[c].array \in 1..Len(arrays') /\ cas'[c].len \in 1..MaxKeys
          /\ cas'[c].len <= arrays'[cas'[c].array].cap
      BY <1>1, <1>2, <1>4, <1>5
    <3> QED BY <3>1, <3>2, <3>3
  <2> QED BY <1>4, <1>5, <2>1, <2>2, <2>3 DEF TypeOK, CAs, CAInv
<1>10. SlotsFilled'
  <2>1. \A d \in CAs : \A j \in 1..cas[d].len : KeyAt(d, j) \in j..Len(made) /\ j \in 1..MaxKeys
    <3> TAKE d \in CAs
    <3> TAKE j \in 1..cas[d].len
    <3>1. cas[d].len \in 1..MaxKeys
      BY <1>3
    <3>2. KeyAt(d, j) \in j..Len(made)
      BY DEF CAInv, SlotsFilled
    <3> QED BY <1>1, <3>1, <3>2
  <2>2. \A d \in CAs : \A j \in 1..cas[d].len : KeyAt(d, j)' \in j..k
    <3> TAKE d \in CAs
    <3> TAKE j \in 1..cas[d].len
    <3>1. KeyAt(d, j) \in j..Len(made) /\ j \in 1..MaxKeys
      BY <2>1
    <3>2. KeyAt(d, j)' = KeyAt(d, j) \/ (KeyAt(d, j)' = k /\ j = i)
      BY <1>6, <3>1
    <3>3. k = Len(made) + 1 /\ Len(made) \in Nat /\ i \in Nat /\ k \in i..MaxKeys
      BY <1>1, <1>3
    <3> QED BY <3>1, <3>2, <3>3
  <2>3. \A j \in 1..i : KeyAt(c, j)' \in j..k
    BY SMTT(30), <1>1, <1>3, <1>6, <2>2
  <2> QED BY <1>4, <1>8, <2>2, <2>3 DEF SlotsFilled
<1>11. SharedByRelatives'
  <2>1. ASSUME NEW d \in CAs, d # c, cas'[d].array = cas'[c].array
        PROVE  Tree(d) = Tree(c)
    BY <1>2, <1>3, <1>4, <2>1 DEF CAInv, SharedByRelatives
  <2>2. \A d, e \in CAs : d # c /\ e # c /\ cas'[d].array = cas'[e].array => Tree(d) = Tree(e)
    BY <1>4 DEF CAInv, SharedByRelatives
  <2>3. \A d, e \in CAs : cas'[d].array = cas'[e].array => Tree(d) = Tree(e)
    BY <2>1, <2>2
  <2> QED BY <1>4, <1>7, <2>3 DEF SharedByRelatives
<1>12. FirstKeyShared'
  BY <1>3, <1>4, <1>7 DEF CAInv, FirstKeyShared
<1>13. MadeForACA'
  <2>1. \A m \in 1..Len(made) : made'[m].ca \in CAs /\ made'[m].at \in 1..cas'[made'[m].ca].len
    <3> TAKE m \in 1..Len(made)
    <3>1. made[m].ca \in CAs /\ made[m].at \in 1..cas[made[m].ca].len /\ made'[m] = made[m]
      BY <1>8 DEF CAInv, MadeForACA
    <3>2. cas'[made[m].ca].len \in Nat
      BY SMTT(30), <1>1, <1>3, <1>4, <3>1
    <3> QED BY <1>3, <1>7, <3>1, <3>2
  <2>2. made'[k].ca \in CAs /\ made'[k].at \in 1..cas'[made'[k].ca].len
    BY <1>1, <1>4, <1>8
  <2> QED BY <1>1, <1>4, <1>8, <2>1, <2>2 DEF MadeForACA
<1>14. LostOnlyToRelatives'
  <2>1. ASSUME NEW m \in 1..Len(made), NEW d, d = made[m].ca, NEW at, at = made[m].at,
               NEW j, j = KeyAt(d, at)'
        PROVE  j = m \/ (j > m /\ made'[j].ca # d /\ cas'[made'[j].ca].root = cas'[d].root)
    <3>1. d \in CAs /\ at \in 1..cas[d].len /\ at \in 1..MaxKeys
      <4>1. d \in CAs /\ at \in 1..cas[d].len
        BY <2>1 DEF CAInv, MadeForACA
      <4>2. cas[d].len \in 1..MaxKeys
        BY <1>3, <4>1
      <4> QED BY <1>1, <4>1, <4>2
    <3>2. CASE j = KeyAt(d, at)
      <4>1. j \in 1..Len(made) /\ made'[j] = made[j] /\ made[j].ca \in CAs
        BY <1>8, <3>1, <3>2 DEF CAInv, SlotsFilled, MadeForACA
      <4>2. j = m \/ (j > m /\ made[j].ca # d /\ Tree(made[j].ca) = Tree(d))
        BY <2>1, <3>2 DEF CAInv, LostOnlyToRelatives
      <4> QED BY <1>7, <3>1, <4>1, <4>2 DEF Tree
    <3>3. CASE j # KeyAt(d, at)
      <4>1. j = k /\ at = i /\ cas[d].array = cas[c].array
        BY <1>6, <2>1, <3>1, <3>3
      <4>2. d # c
        BY <1>3, <3>1, <4>1
      <4>3. Tree(d) = Tree(c)
        BY <3>1, <4>1 DEF CAInv, SharedByRelatives
      <4> QED BY <1>1, <1>3, <1>7, <1>8, <3>1, <4>1, <4>2, <4>3 DEF Tree
    <3> QED BY <3>2, <3>3
  <2>2. KeyAt(made[k].ca, made[k].at)' = k
    <3>1. made'[k].ca = c /\ made'[k].at = i
      BY <1>8
    <3> QED BY <1>6, <3>1
  <2>3. \A m \in 1..k : LET d == made'[m].ca
                             j == KeyAt(made[m].ca, made[m].at)'
                         IN  j = m \/ (j > m /\ made'[j].ca # d /\ cas'[made'[j].ca].root = cas'[d].root)
    <3> TAKE m \in 1..k
    <3>1. CASE m = k
      BY <2>2, <3>1
    <3>2. CASE m # k
      <4>1. m \in 1..Len(made)
        BY <1>3, <3>2
      <4>2. made'[m] = made[m]
        BY <1>8, <4>1
      <4>3. KeyAt(made[m].ca, made[m].at)' = arrays'[cas'[made[m].ca].array].slot[made[m].at]
        BY <4>2 DEF KeyAt
      <4>4. PICK d, at, j : d = made[m].ca /\ at = made[m].at /\ j = KeyAt(d, at)'
        OBVIOUS
      <4>5. KeyAt(made[m].ca, made[m].at)' = j /\ made'[m].ca = d
        BY <4>2, <4>3, <4>4 DEF KeyAt
      <4>6. j = m \/ (j > m /\ made'[j].ca # d /\ cas'[made'[j].ca].root = cas'[d].root)
        BY <2>1, <4>1, <4>4
      <4> QED BY <4>5, <4>6
    <3> QED BY <3>1, <3>2
  <2> QED BY <1>8, <2>3 DEF LostOnlyToRelatives, Tree
<1>15. ChainsLead'
  BY <1>3, <1>4, ChainsStay DEF ChainsLead, CAInv, TypeOK
<1>16. SVIDOfItsCA' /\ IssuedAsAsked' /\ BundleOfItsCA' /\ FirstOfTest'
  BY <1>1, <1>4, <1>7, IssuedStays
<1>17. KeysOfKin'
  <2>1. cas'[made'[k].ca].root = Tree(c)
    BY <1>7, <1>8 DEF Tree
  <2>2. ASSUME NEW d \in CAs, NEW j \in 1..cas[d].len
        PROVE  Tree(made[KeyAt(d, j)].ca)' = Tree(d)
    <3>1. j \in 1..MaxKeys
      <4>1. cas[d].len \in 1..MaxKeys
        BY <1>3
      <4> QED BY <1>1, <4>1
    <3>2. CASE KeyAt(d, j)' = KeyAt(d, j)
      <4>1. KeyAt(d, j) \in 1..Len(made)
        BY <1>3, <2>2, <3>1 DEF CAInv, SlotsFilled
      <4>2. made[KeyAt(d, j)].ca \in CAs /\ made'[KeyAt(d, j)'] = made[KeyAt(d, j)]
        BY <1>8, <3>2, <4>1 DEF CAInv, MadeForACA
      <4> QED BY <1>7, <2>2, <4>2 DEF CAInv, KeysOfKin, Tree
    <3>3. CASE KeyAt(d, j)' = k /\ cas[d].array = cas[c].array
      BY <2>1, <3>3 DEF CAInv, SharedByRelatives, Tree
    <3> QED BY <1>6, <3>1, <3>2, <3>3
  <2>3. \A j \in 1..cas'[c].len : Tree(made[KeyAt(c, j)].ca)' = Tree(c)
    <3> TAKE j \in 1..cas'[c].len
    <3>1. CASE j = i
      BY <1>6, <2>1, <3>1 DEF Tree
    <3>2. CASE j # i
      <4>1. j \in 1..cas[c].len
        BY <1>1, <1>3, <1>4, <3>2
      <4> QED BY <2>2, <4>1
    <3> QED BY <3>1, <3>2
  <2> QED BY <1>4, <1>7, <2>2, <2>3 DEF KeysOfKin
<1> QED BY <1>9, <1>10, <1>11, <1>12, <1>13, <1>14, <1>15, <1>16, <1>17 DEF CAInv
-----------------------------------------------------------------------------
(* The steps that issue something.                                         *)
LEMMA StructureStays ==
  ASSUME CAInv, UNCHANGED <<cas, arrays, made>>
  PROVE  TypeOK' /\ SlotsFilled' /\ SharedByRelatives' /\ FirstKeyShared' /\ MadeForACA'
         /\ LostOnlyToRelatives' /\ ChainsLead' /\ KeysOfKin' /\ FirstOfTest'
<1>1. TypeOK' /\ MadeForACA'
  BY DEF CAInv, TypeOK, MadeForACA, CAs
<1>2. SlotsFilled' /\ SharedByRelatives' /\ FirstKeyShared' /\ LostOnlyToRelatives'
  BY DEF CAInv, SlotsFilled, SharedByRelatives, FirstKeyShared, LostOnlyToRelatives, CAs, KeyAt,
     Tree, FirstKey
<1>3. ChainsLead'
  BY DEF CAInv, ChainsLead, LeadsToRoot, CAs, Tree
<1>4. KeysOfKin' /\ FirstOfTest'
  BY DEF CAInv, KeysOfKin, FirstOfTest, CAs, KeyAt, Tree
<1> QED BY <1>1, <1>2, <1>3, <1>4

LEMMA IssueKeeps ==
  ASSUME CAInv, NEW c \in CAs,
         \/ JWKSBytes(c)
         \/ \E t \in X509Tests : IssueX509SVID(c, t)
         \/ \E t \in JWTTests : IssueJWT(c, t)
         \/ \E alg \in {"none", "HS256"} : ForgeJWT(alg)
  PROVE  CAInv'
<1>1. UNCHANGED <<cas, arrays, made>>
  BY DEF JWKSBytes, IssueX509SVID, IssueJWT, ForgeJWT
<1>2. TypeOK' /\ SlotsFilled' /\ SharedByRelatives' /\ FirstKeyShared' /\ MadeForACA'
      /\ LostOnlyToRelatives' /\ ChainsLead' /\ KeysOfKin' /\ FirstOfTest'
  BY <1>1, StructureStays
<1>3. CAs' = CAs /\ \A d : Tree(d)' = Tree(d) /\ FirstKey(d)' = FirstKey(d)
  BY <1>1 DEF CAs, Tree, FirstKey, KeyAt
<1>4. Tree(c) \in CAs /\ FirstKey(c) = FirstKey(Tree(c)) /\ FirstKey(c) \in Keys(c)
  BY DEF CAInv, TypeOK, FirstKeyShared, CAs, Tree, FirstKey, Keys
<1>5. SVIDOfItsCA'
  <2>1. CASE JWKSBytes(c)
    BY <1>1, <1>3, <2>1 DEF CAInv, SVIDOfItsCA, JWKSBytes
  <2>2. CASE \E t \in X509Tests : IssueX509SVID(c, t)
    BY <1>1, <1>3, <2>2 DEF SVIDOfItsCA, IssueX509SVID, Tree
  <2>3. CASE \E t \in JWTTests : IssueJWT(c, t)
    BY <1>3, <1>4, <2>3 DEF SVIDOfItsCA, IssueJWT, Tree
  <2>4. CASE \E alg \in {"none", "HS256"} : ForgeJWT(alg)
    BY <2>4 DEF SVIDOfItsCA, ForgeJWT
  <2> QED BY <2>1, <2>2, <2>3, <2>4
<1>6. BundleOfItsCA'
  <2>1. CASE JWKSBytes(c)
    BY <1>3, <1>4, <2>1 DEF BundleOfItsCA, JWKSBytes
  <2>2. CASE bundle' = bundle
    BY <1>3, <2>2 DEF CAInv, BundleOfItsCA
  <2> QED BY <2>1, <2>2 DEF IssueX509SVID, IssueJWT, ForgeJWT
<1>7. IssuedAsAsked'
  <2>1. CASE JWKSBytes(c)
    BY <1>3, <2>1 DEF CAInv, IssuedAsAsked, JWKSBytes
  <2>2. CASE \E t \in X509Tests : IssueX509SVID(c, t)
    <3> PICK t \in X509Tests : IssueX509SVID(c, t)
      BY <2>2
    <3>1. Tree(c) = 1 <=> t # "X4"
      BY DEF IssueX509SVID, CAInv, FirstOfTest
    <3>2. svid'.kind = "x509" /\ svid'.test = t /\ svid'.issuer = c
          /\ svid'.leaf = Leaf(LeafID(t), LeafOptions(t)) /\ (svid'.intact <=> t # "X3")
      BY DEF IssueX509SVID
    <3> QED BY <1>3, <3>1, <3>2 DEF IssuedAsAsked
  <2>3. CASE \E t \in JWTTests : IssueJWT(c, t)
    <3> PICK t \in JWTTests : IssueJWT(c, t)
      BY <2>3
    <3>0. t # "J9" /\ 0 \notin CAs
      BY DEF JWTTests, CAs, CAInv, TypeOK
    <3>1. Tree(Tree(c)) = Tree(c) /\ (Tree(c) = 1 <=> t # "J2")
      BY DEF IssueJWT, CAInv, FirstOfTest, FirstKeyShared
    <3>2. svid'.kind = "jwt" /\ svid'.test = t /\ svid'.root = Tree(c)
          /\ svid'.header = Header(svid'.key, TokenOptions(t))
          /\ svid'.claims = Claims(Subject(t), TokenOptions(t)) /\ (svid'.intact <=> t # "J5")
      BY DEF IssueJWT, Tree
    <3> QED BY <1>3, <1>4, <3>0, <3>1, <3>2 DEF IssuedAsAsked
  <2>4. CASE \E alg \in {"none", "HS256"} : ForgeJWT(alg)
    BY <2>4 DEF IssuedAsAsked, ForgeJWT
  <2> QED BY <2>1, <2>2, <2>3, <2>4
<1> QED BY <1>2, <1>5, <1>6, <1>7 DEF CAInv
-----------------------------------------------------------------------------
(* The CAs keep the inductive invariant: every slice is full and is shared *)
(* with relatives only, every chain leads to its root, and what was issued *)
(* or published is still that of its CA (internal/ca/ca.go).               *)
THEOREM CAInvariant == Spec => []CAInv
<1>1. Init => CAInv
  BY InitKeeps
<1>2. CAInv /\ [Next]_vars => CAInv'
  <2> SUFFICES ASSUME CAInv, [Next]_vars PROVE CAInv'
    OBVIOUS
  <2>1. CASE \E td \in TrustDomains : New(td)
    BY <2>1, NewKeeps
  <2>2. CASE \E c \in CAs : NewIntermediate(c)
    BY <2>2, IntermediateKeeps
  <2>3. CASE \E c \in CAs : AddJWTKey(c)
    BY <2>3, AddKeyKeeps
  <2>4. CASE \E c \in CAs : \/ JWKSBytes(c)
                            \/ \E t \in X509Tests : IssueX509SVID(c, t)
                            \/ \E t \in JWTTests : IssueJWT(c, t)
    BY <2>4, IssueKeeps
  <2>5. CASE \E alg \in {"none", "HS256"} : ForgeJWT(alg)
    <3>1. 1 \in CAs
      BY DEF CAInv, TypeOK, CAs
    <3> QED BY <2>5, <3>1, IssueKeeps
  <2>6. CASE UNCHANGED vars
    <3>1. UNCHANGED <<cas, arrays, made>> /\ svid' = svid /\ bundle' = bundle
      BY <2>6 DEF vars
    <3>2. CAs' = CAs /\ \A d : Tree(d)' = Tree(d) /\ FirstKey(d)' = FirstKey(d)
      BY <3>1 DEF CAs, Tree, FirstKey, KeyAt
    <3>3. SVIDOfItsCA' /\ IssuedAsAsked' /\ BundleOfItsCA'
      BY <3>1, <3>2 DEF CAInv, SVIDOfItsCA, IssuedAsAsked, BundleOfItsCA
    <3> QED BY <3>1, <3>3, StructureStays DEF CAInv
  <2>7. \/ \E td \in TrustDomains : New(td)
        \/ \E c \in CAs : NewIntermediate(c)
        \/ \E c \in CAs : AddJWTKey(c)
        \/ \E c \in CAs : \/ JWKSBytes(c)
                          \/ \E t \in X509Tests : IssueX509SVID(c, t)
                          \/ \E t \in JWTTests : IssueJWT(c, t)
        \/ \E alg \in {"none", "HS256"} : ForgeJWT(alg)
        \/ UNCHANGED vars
    BY DEF Next, CAs
  <2> QED BY <2>1, <2>2, <2>3, <2>4, <2>5, <2>6, <2>7
<1> QED BY <1>1, <1>2, PTL DEF Spec

(* Every slice lies within its array, whatever is appended to it           *)
(* (AddJWTKey).                                                            *)
THEOREM TypeCorrect == Spec => []TypeOK
<1>1. CAInv => TypeOK
  BY DEF CAInv
<1> QED BY <1>1, CAInvariant, PTL

(* The chain of every X.509-SVID leads to the root of its trust domain     *)
(* (NewIntermediate, IssueX509SVID).                                       *)
THEOREM ChainsVerify == Spec => []ChainVerifies
<1>1. CAInv => ChainVerifies
  <2> SUFFICES ASSUME CAInv, svid.kind = "x509" PROVE ChainVerifies
    BY DEF ChainVerifies
  <2> DEFINE chain == svid.intermediates
  <2>1. svid.issuer \in CAs /\ chain = cas[svid.issuer].intermediates /\ svid.root = Tree(svid.issuer)
    BY DEF CAInv, SVIDOfItsCA
  <2>2. LeadsToRoot(svid.issuer) /\ svid.root \in CAs
    BY <2>1 DEF CAInv, ChainsLead, TypeOK, CAs, Tree
  <2>3. chain \in Seq(CAs)
    BY <2>1, <2>2 DEF LeadsToRoot
  <2>4. /\ Len(Path) = Len(chain) + 1 /\ Path[Len(chain) + 1] = svid.root /\ Len(chain) \in Nat
        /\ \A i \in 1..Len(chain) : Path[i] = chain[i]
    BY <2>2, <2>3 DEF Path
  <2>5. Path[1] = svid.issuer
    <3>1. CASE chain = <<>>
      BY <2>1, <2>2, <2>4, <3>1 DEF LeadsToRoot
    <3>2. CASE chain # <<>>
      <4>1. 1 \in 1..Len(chain)
        BY <2>3, <3>2
      <4> QED BY <2>1, <2>2, <2>4, <3>2, <4>1 DEF LeadsToRoot
    <3> QED BY <3>1, <3>2
  <2>6. ASSUME NEW i \in 1..(Len(Path) - 1)
        PROVE  cas[Path[i]].signer = Path[i + 1]
    <3>1. i \in 1..Len(chain) /\ Path[i] = chain[i]
      BY <2>4
    <3>2. CASE i = Len(chain)
      <4>1. chain # <<>>
        BY <3>1
      <4> QED BY <2>1, <2>2, <2>4, <3>1, <3>2, <4>1 DEF LeadsToRoot
    <3>3. CASE i # Len(chain)
      <4>1. i \in 1..(Len(chain) - 1) /\ Path[i + 1] = chain[i + 1]
        BY <2>4, <3>1, <3>3
      <4> QED BY <2>1, <2>2, <3>1, <4>1 DEF LeadsToRoot
    <3> QED BY <3>2, <3>3
  <2>7. \A i \in 1..Len(Path) : cas[Path[i]].td = cas[svid.issuer].td
    <3>1. \A i \in 1..Len(chain) : cas[chain[i]].td = cas[svid.issuer].td
      BY <2>1, <2>2 DEF LeadsToRoot
    <3>2. cas[svid.root].td = cas[svid.issuer].td
      BY <2>1, <2>2 DEF LeadsToRoot
    <3> QED BY <2>4, <3>1, <3>2
  <2>8. cas[svid.root].signer = svid.root
    BY <2>1, <2>2 DEF LeadsToRoot
  <2> QED BY <2>5, <2>6, <2>7, <2>8 DEF ChainVerifies
<1> QED BY <1>1, CAInvariant, PTL

(* A token signed with the default key verifies with the JWK Set of every  *)
(* relative of the CA that issued it (IssueJWT, JWKSBytes).                *)
THEOREM TokensVerify == Spec => []DefaultTokensVerify
<1>1. CAInv => DefaultTokensVerify
  BY DEF CAInv, DefaultTokensVerify, SVIDOfItsCA, BundleOfItsCA
<1> QED BY <1>1, CAInvariant, PTL

(* A CA without relatives keeps every key that was added to it             *)
(* (AddJWTKey).                                                            *)
THEOREM KeysLostToRelatives == Spec => []LostOnlyToRelatives
<1>1. CAInv => LostOnlyToRelatives
  BY DEF CAInv
<1> QED BY <1>1, CAInvariant, PTL
-----------------------------------------------------------------------------
(* What IssueX509SVID and IssueJWT make of the options of the tests.  No   *)
(* test gives more than two, so that the fold is unfolded by hand: the     *)
(* function it is defined by is the only one on the sets of indices.       *)
LEMMA ConfigureNone == ASSUME NEW d PROVE Configure(d, <<>>) = d
<1> DEFINE Folds(f) == f = [s \in SUBSET {} |->
                              IF s = {} THEN d ELSE Apply(f[s \ {Max(s)}], <<>>[Max(s)])]
<1>1. DOMAIN <<>> = {}
  OBVIOUS
<1>2. Configure(d, <<>>) = (CHOOSE f : Folds(f))[{}]
  BY <1>1 DEF Configure, FoldLeft, MapThenFoldSet
<1>3. Folds([s \in SUBSET {} |-> d])
  OBVIOUS
<1>4. Folds(CHOOSE f : Folds(f))
  BY <1>3
<1> QED BY <1>2, <1>4

LEMMA ConfigureOne == ASSUME NEW d, NEW o PROVE Configure(d, <<o>>) = Apply(d, o)
<1> DEFINE q == <<o>>
           Folds(f) == f = [s \in SUBSET {1} |->
                              IF s = {} THEN d ELSE Apply(f[s \ {Max(s)}], q[Max(s)])]
           all == [s \in SUBSET {1} |-> IF s = {} THEN d ELSE Apply(d, o)]
           f == CHOOSE g : Folds(g)
<1>1. DOMAIN q = {1} /\ q[1] = o
  OBVIOUS
<1> HIDE DEF q
<1>2. Max({1}) = 1
  BY DEF Max
<1>3. Configure(d, q) = f[{1}]
  BY <1>1 DEF Configure, FoldLeft, MapThenFoldSet
<1>0. {1} \ {1} = {} /\ {1} # {}
  OBVIOUS
<1>4. Folds(all)
  <2>1. \A s \in SUBSET {1} : s = {} \/ s = {1}
    OBVIOUS
  <2>2. all[{}] = d /\ all[{1}] = Apply(d, o) /\ all = [s \in SUBSET {1} |-> all[s]]
    BY <1>0
  <2> HIDE DEF all
  <2>3. ASSUME NEW s \in SUBSET {1}
        PROVE  all[s] = IF s = {} THEN d ELSE Apply(all[s \ {Max(s)}], q[Max(s)])
    <3>1. CASE s = {}
      BY <2>2, <3>1
    <3>2. CASE s = {1}
      BY <1>0, <1>1, <1>2, <2>2, <3>2
    <3> QED BY <2>1, <3>1, <3>2
  <2> QED BY <2>2, <2>3
<1>5. Folds(f)
  <2> HIDE DEF Folds, all
  <2> QED BY <1>4
<1> HIDE DEF f
<1>6. f[{1}] = Apply(f[{}], o) /\ f[{}] = d
  BY <1>0, <1>1, <1>2, <1>5
<1> QED BY <1>3, <1>6 DEF q

LEMMA ConfigureTwo ==
  ASSUME NEW d, NEW o, NEW p
  PROVE  Configure(d, <<o, p>>) = Apply(Apply(d, o), p)
<1> DEFINE q == <<o, p>>
           Folds(f) == f = [s \in SUBSET {1, 2} |->
                              IF s = {} THEN d ELSE Apply(f[s \ {Max(s)}], q[Max(s)])]
           all == [s \in SUBSET {1, 2} |->
                     IF s = {} THEN d ELSE IF s = {1} THEN Apply(d, o)
                     ELSE IF s = {2} THEN Apply(d, p) ELSE Apply(Apply(d, o), p)]
           f == CHOOSE g : Folds(g)
<1>1. DOMAIN q = {1, 2} /\ q[1] = o /\ q[2] = p
  OBVIOUS
<1> HIDE DEF q
<1>2. Max({1}) = 1 /\ Max({2}) = 2 /\ Max({1, 2}) = 2
  BY DEF Max
<1>3. Configure(d, q) = f[{1, 2}]
  BY <1>1 DEF Configure, FoldLeft, MapThenFoldSet
<1>0. /\ {1} \ {1} = {} /\ {2} \ {2} = {} /\ {1, 2} \ {2} = {1}
      /\ {1} # {} /\ {2} # {} /\ {1, 2} # {} /\ {2} # {1} /\ {1, 2} # {1} /\ {1, 2} # {2}
  OBVIOUS
<1>4. Folds(all)
  <2>1. \A s \in SUBSET {1, 2} : s = {} \/ s = {1} \/ s = {2} \/ s = {1, 2}
    OBVIOUS
  <2>2. /\ all[{}] = d /\ all[{1}] = Apply(d, o) /\ all[{2}] = Apply(d, p)
        /\ all[{1, 2}] = Apply(Apply(d, o), p) /\ all = [s \in SUBSET {1, 2} |-> all[s]]
    BY <1>0
  <2> HIDE DEF all
  <2>3. ASSUME NEW s \in SUBSET {1, 2}
        PROVE  all[s] = IF s = {} THEN d ELSE Apply(all[s \ {Max(s)}], q[Max(s)])
    <3>1. CASE s = {}
      BY <2>2, <3>1
    <3>2. CASE s = {1}
      BY <1>0, <1>1, <1>2, <2>2, <3>2
    <3>3. CASE s = {2}
      BY <1>0, <1>1, <1>2, <2>2, <3>3
    <3>4. CASE s = {1, 2}
      BY <1>0, <1>1, <1>2, <2>2, <3>4
    <3> QED BY <2>1, <3>1, <3>2, <3>3, <3>4
  <2> QED BY <2>2, <2>3
<1>5. Folds(f)
  <2> HIDE DEF Folds, all
  <2> QED BY <1>4
<1> HIDE DEF f
<1>6. f[{1, 2}] = Apply(f[{1}], p) /\ f[{1}] = Apply(f[{}], o) /\ f[{}] = d
  BY <1>0, <1>1, <1>2, <1>5
<1> QED BY <1>3, <1>6 DEF q

(* append to a list of none and of one.                                    *)
LEMMA ShortConcat ==
  ASSUME NEW a, NEW b
  PROVE  <<>> \o <<a>> = <<a>> /\ <<a>> \o <<>> = <<a>> /\ <<a>> \o <<b>> = <<a, b>>
<1>1. <<a>> \in Seq({a, b}) /\ <<a, b>> = Append(<<a>>, b)
  OBVIOUS
<1>2. \A s \in Seq({a, b}) : s \o <<b>> = Append(s, b)
  BY AppendIsConcat
<1> QED BY <1>1, <1>2, ConcatEmptySeq

LEMMA LeafConfigured ==
  ASSUME NEW t \in X509Tests, NEW cfg, cfg = Configure(DefaultX509, LeafOptions(t))
  PROVE  /\ cfg.isCA <=> t \in {"X6", "X10"}
         /\ cfg.notBefore = (IF t = "X5" THEN -2 ELSE 0) /\ cfg.ttl = 1
         /\ cfg.keyUsage = IF t \in {"X7", "X11"} THEN {"certSign", "digitalSignature"} ELSE {}
         /\ cfg.extraURIs = IF t \in {"X8", "X12"} THEN <<"ownToo">> ELSE <<>>
         /\ cfg.uriOverride = IF t \in {"X9", "X13"} THEN <<"https">> ELSE <<>>
<1>0. /\ DefaultX509.isCA = FALSE /\ DefaultX509.notBefore = 0 /\ DefaultX509.ttl = 1
      /\ DefaultX509.keyUsage = {} /\ DefaultX509.extraURIs = <<>> /\ DefaultX509.uriOverride = <<>>
      /\ DOMAIN DefaultX509 = {"ttl", "notBefore", "isCA", "keyUsage", "extraURIs", "uriOverride"}
  BY DEF DefaultX509
<1>1. CASE t = "X5"
  <2>1. cfg = Apply(Apply(DefaultX509, Option("notBefore", -2)), Option("ttl", 1))
    BY <1>1, ConfigureTwo DEF LeafOptions
  <2>2. Apply(DefaultX509, Option("notBefore", -2)) = [DefaultX509 EXCEPT !.notBefore = -2]
    BY DEF Apply, Option
  <2>3. cfg = [DefaultX509 EXCEPT !.notBefore = -2, !.ttl = 1]
    BY <2>1, <2>2 DEF Apply, Option
  <2> QED BY <1>0, <1>1, <2>3
<1>2. CASE t \in {"X6", "X10"}
  <2>1. cfg = Apply(DefaultX509, Option("isCA", TRUE))
    BY <1>2, ConfigureOne DEF LeafOptions
  <2>2. cfg = [DefaultX509 EXCEPT !.isCA = TRUE]
    BY <2>1 DEF Apply, Option
  <2> QED BY <1>0, <1>2, <2>2
<1>3. CASE t \in {"X7", "X11"}
  <2>1. cfg = Apply(DefaultX509, Option("keyUsage", {"certSign", "digitalSignature"}))
    BY <1>3, ConfigureOne DEF LeafOptions
  <2>2. cfg = [DefaultX509 EXCEPT !.keyUsage = {"certSign", "digitalSignature"}]
    BY <2>1 DEF Apply, Option
  <2> QED BY <1>0, <1>3, <2>2
<1>4. CASE t \in {"X8", "X12"}
  <2>1. cfg = Apply(DefaultX509, Option("extraURIs", <<"ownToo">>))
    BY <1>4, ConfigureOne DEF LeafOptions
  <2>2. cfg = [DefaultX509 EXCEPT !.extraURIs = @ \o <<"ownToo">>]
    BY <2>1 DEF Apply, Option
  <2> QED BY <1>0, <1>4, <2>2, ShortConcat
<1>5. CASE t \in {"X9", "X13"}
  <2>1. cfg = Apply(DefaultX509, Option("uriOverride", <<"https">>))
    BY <1>5, ConfigureOne DEF LeafOptions
  <2>2. cfg = [DefaultX509 EXCEPT !.uriOverride = <<"https">>]
    BY <2>1 DEF Apply, Option
  <2> QED BY <1>0, <1>5, <2>2
<1>6. CASE t \in {"X1", "X3", "X4"}
  <2>1. cfg = DefaultX509
    BY <1>6, ConfigureNone DEF LeafOptions
  <2> QED BY <1>0, <1>6, <2>1
<1> QED BY <1>1, <1>2, <1>3, <1>4, <1>5, <1>6 DEF X509Tests

(* The leaf of a test breaks the rule it is about, if that is one of a     *)
(* leaf, and no other.                                                     *)
LEMMA LeafBreaksOne ==
  ASSUME NEW t \in X509Tests
  PROVE  {r \in LeafRules : ~LeafKeeps(Leaf(LeafID(t), LeafOptions(t)), r)}
           = RuleOf(t) \ {"chain", "signature"}
<1> DEFINE cfg == Configure(DefaultX509, LeafOptions(t))
           l == Leaf(LeafID(t), LeafOptions(t))
<1>1. /\ cfg.isCA <=> t \in {"X6", "X10"}
      /\ cfg.notBefore = (IF t = "X5" THEN -2 ELSE 0) /\ cfg.ttl = 1
      /\ cfg.keyUsage = IF t \in {"X7", "X11"} THEN {"certSign", "digitalSignature"} ELSE {}
      /\ cfg.extraURIs = IF t \in {"X8", "X12"} THEN <<"ownToo">> ELSE <<>>
      /\ cfg.uriOverride = IF t \in {"X9", "X13"} THEN <<"https">> ELSE <<>>
  BY LeafConfigured
<1>2. /\ (l.isCA <=> cfg.isCA) /\ l.from = cfg.notBefore /\ l.until = cfg.notBefore + cfg.ttl
      /\ l.uris = URIs(LeafID(t), cfg)
      /\ l.usage = IF cfg.keyUsage # {} THEN cfg.keyUsage ELSE {"digitalSignature", "keyAgreement"}
  BY DEF Leaf
<1> HIDE DEF cfg, l
<1>3. (~l.isCA) <=> t \notin {"X6", "X10"}
  BY <1>1, <1>2
<1>4. "certSign" \notin l.usage <=> t \notin {"X7", "X11"}
  BY <1>1, <1>2
<1>5. l.from <= 0 /\ 0 < l.until <=> t # "X5"
  BY <1>1, <1>2
<1>6. l.uris = IF t \in {"X9", "X13"} THEN <<"https">>
               ELSE IF t \in {"X8", "X12"} THEN <<LeafID(t), "ownToo">> ELSE <<LeafID(t)>>
  <2>1. <<"https">> # <<>>
    OBVIOUS
  <2>2. l.uris = IF t \in {"X9", "X13"} THEN <<"https">> ELSE <<LeafID(t)>> \o cfg.extraURIs
    BY <1>1, <1>2, <2>1 DEF URIs
  <2> QED BY <1>1, <2>2, ShortConcat
<1>7. Len(l.uris) = 1 <=> t \notin {"X8", "X12"}
  BY <1>6
<1>8. LeafID(t) \in SpiffeIDs
  BY DEF LeafID, SpiffeIDs
<1>9. ToSet(l.uris) \subseteq SpiffeIDs <=> t \notin {"X9", "X13"}
  BY <1>6, <1>8 DEF ToSet, SpiffeIDs
<1>10. /\ LeafKeeps(l, "leaf") <=> t \notin {"X6", "X10"}
       /\ LeafKeeps(l, "keyUsage") <=> t \notin {"X7", "X11"}
       /\ LeafKeeps(l, "oneID") <=> t \notin {"X8", "X12"}
       /\ LeafKeeps(l, "spiffeID") <=> t \notin {"X9", "X13"}
       /\ LeafKeeps(l, "validity") <=> t # "X5"
  BY <1>3, <1>4, <1>5, <1>7, <1>9 DEF LeafKeeps
<1>11. \A r \in LeafRules : ~LeafKeeps(l, r) <=> r \in RuleOf(t) \ {"chain", "signature"}
  BY <1>10 DEF LeafRules, RuleOf, X509Tests
<1>12. RuleOf(t) \ {"chain", "signature"} \subseteq LeafRules
  BY DEF LeafRules, RuleOf, X509Tests
<1> QED BY <1>11, <1>12 DEF l
-----------------------------------------------------------------------------
LEMMA TokenConfigured ==
  ASSUME NEW t \in JWTTests, NEW cfg, cfg = Configure(DefaultJWT, TokenOptions(t))
  PROVE  /\ cfg.ttl = IF t = "J6" THEN -1 ELSE 1
         /\ cfg.audience = IF t = "J3" THEN {"wrong"} ELSE {"conformance"}
         /\ cfg.extra = IF t = "J7" THEN [sub |-> "noID"] ELSE <<>>
         /\ cfg.deleteClaims = IF t = "J10" THEN <<"exp">> ELSE IF t = "J11" THEN <<"aud">> ELSE <<>>
         /\ cfg.extraHeaders = IF t = "J12" THEN [typ |-> "INVALID"] ELSE <<>>
<1> DEFINE base == [DefaultJWT EXCEPT !.audience = {"conformance"}]
<1>0. /\ base.ttl = 1 /\ base.audience = {"conformance"} /\ base.extra = <<>>
      /\ base.deleteClaims = <<>> /\ base.extraHeaders = <<>>
      /\ DOMAIN base = {"ttl", "audience", "extra", "deleteClaims", "extraHeaders"}
  BY DEF DefaultJWT
<1>1. Apply(DefaultJWT, Audience) = base
  BY DEF Apply, Option, Audience
<1>2. ASSUME NEW o, TokenOptions(t) = <<Audience, o>>
      PROVE  cfg = Apply(base, o)
  BY <1>1, <1>2, ConfigureTwo
<1>3. ASSUME NEW o, JWTOptions(t) = <<o>>
      PROVE  cfg = Apply(base, o)
  BY <1>2, <1>3, ShortConcat DEF TokenOptions
<1> HIDE DEF base
<1>4. CASE t = "J3"
  <2>1. cfg = Apply(base, Option("audience", {"wrong"}))
    BY <1>3, <1>4 DEF JWTOptions
  <2>2. cfg = [base EXCEPT !.audience = {"wrong"}]
    BY <2>1 DEF Apply, Option
  <2> QED BY <1>0, <1>4, <2>2
<1>5. CASE t = "J6"
  <2>1. cfg = Apply(base, Option("ttl", -1))
    BY <1>3, <1>5 DEF JWTOptions
  <2>2. cfg = [base EXCEPT !.ttl = -1]
    BY <2>1 DEF Apply, Option
  <2> QED BY <1>0, <1>5, <2>2
<1>6. CASE t = "J7"
  <2>1. cfg = Apply(base, Option("extra", [sub |-> "noID"]))
    BY <1>3, <1>6 DEF JWTOptions
  <2>2. cfg = [base EXCEPT !.extra = Written([sub |-> "noID"], <<>>)]
    BY <1>0, <2>1 DEF Apply, Option
  <2>3. Written([sub |-> "noID"], <<>>) = [sub |-> "noID"]
    BY DEF Written
  <2> QED BY <1>0, <1>6, <2>2, <2>3
<1>7. CASE t = "J10"
  <2>1. cfg = Apply(base, Option("deleteClaims", <<"exp">>))
    BY <1>3, <1>7 DEF JWTOptions
  <2>2. cfg = [base EXCEPT !.deleteClaims = <<>> \o <<"exp">>]
    BY <1>0, <2>1 DEF Apply, Option
  <2> QED BY <1>0, <1>7, <2>2, ShortConcat
<1>8. CASE t = "J11"
  <2>1. cfg = Apply(base, Option("deleteClaims", <<"aud">>))
    BY <1>3, <1>8 DEF JWTOptions
  <2>2. cfg = [base EXCEPT !.deleteClaims = <<>> \o <<"aud">>]
    BY <1>0, <2>1 DEF Apply, Option
  <2> QED BY <1>0, <1>8, <2>2, ShortConcat
<1>9. CASE t = "J12"
  <2>1. cfg = Apply(base, Option("extraHeaders", [typ |-> "INVALID"]))
    BY <1>3, <1>9 DEF JWTOptions
  <2>2. cfg = [base EXCEPT !.extraHeaders = Written([typ |-> "INVALID"], <<>>)]
    BY <1>0, <2>1 DEF Apply, Option
  <2>3. Written([typ |-> "INVALID"], <<>>) = [typ |-> "INVALID"]
    BY DEF Written
  <2> QED BY <1>0, <1>9, <2>2, <2>3
<1>10. CASE t \in {"J1", "J2", "J5", "J8"}
  <2>1. TokenOptions(t) = <<Audience>>
    BY <1>10, ShortConcat DEF TokenOptions, JWTOptions
  <2>2. cfg = base
    BY <1>1, <2>1, ConfigureOne
  <2> QED BY <1>0, <1>10, <2>2
<1> QED BY <1>4, <1>5, <1>6, <1>7, <1>8, <1>9, <1>10 DEF JWTTests

(* What is in a token whose options come to cfg.                           *)
LEMMA HeaderOf ==
  ASSUME NEW cfg, NEW k, NEW options, cfg = Configure(DefaultJWT, options),
         cfg.extraHeaders = <<>> \/ cfg.extraHeaders = [typ |-> "INVALID"],
         NEW h, h = Header(k, options)
  PROVE  /\ h.alg = "ES256" /\ h.typ = IF cfg.extraHeaders = <<>> THEN "JWT" ELSE "INVALID"
         /\ "kid" \in DOMAIN h /\ h.kid = k
<1>1. DOMAIN <<>> = {}
  OBVIOUS
<1>2. DOMAIN [typ |-> "INVALID"] = {"typ"}
  OBVIOUS
<1>3. h = Written(cfg.extraHeaders, [alg |-> "ES256", typ |-> "JWT", kid |-> k])
  BY DEF Header
<1> QED BY <1>1, <1>2, <1>3 DEF Written

ClaimsFrom(cfg, id) ==
  [x \in {"sub", "aud", "iat", "exp"} \ ToSet(cfg.deleteClaims) |->
     CASE x = "sub" -> IF cfg.extra = <<>> THEN id ELSE "noID"
       [] x = "aud" -> cfg.audience
       [] x = "iat" -> 0
       [] x = "exp" -> cfg.ttl]

LEMMA ClaimsOf ==
  ASSUME NEW cfg, NEW id, NEW options, cfg = Configure(DefaultJWT, options),
         cfg.extra = <<>> \/ cfg.extra = [sub |-> "noID"]
  PROVE  Claims(id, options) = ClaimsFrom(cfg, id)
<1>1. DOMAIN <<>> = {}
  OBVIOUS
<1>2. DOMAIN [sub |-> "noID"] = {"sub"}
  OBVIOUS
<1> DEFINE given == [sub |-> id, aud |-> cfg.audience, iat |-> 0, exp |-> cfg.ttl]
           all == Written(cfg.extra, given)
<1>3. Claims(id, options) = [x \in DOMAIN all \ ToSet(cfg.deleteClaims) |-> all[x]]
  BY DEF Claims
<1>4. /\ DOMAIN all = {"sub", "aud", "iat", "exp"}
      /\ all["sub"] = IF cfg.extra = <<>> THEN id ELSE "noID"
      /\ all["aud"] = cfg.audience /\ all["iat"] = 0 /\ all["exp"] = cfg.ttl
  BY <1>1, <1>2 DEF Written
<1> HIDE DEF all
<1> QED BY <1>3, <1>4 DEF ClaimsFrom

(* The token of a test breaks the rule it is about, if that is one of a    *)
(* token's content, and no other.                                          *)
LEMMA TokenBreaksOne ==
  ASSUME NEW t \in JWTTests, NEW k,
         NEW h, h = Header(k, TokenOptions(t)),
         NEW c, c = Claims(Subject(t), TokenOptions(t))
  PROVE  /\ h.alg = "ES256" /\ "kid" \in DOMAIN h /\ h.kid = k
         /\ {r \in TokenRules : ~TokenKeeps(h, c, r)} = RuleOf(t) \ {"key", "signature"}
<1> DEFINE cfg == Configure(DefaultJWT, TokenOptions(t))
<1>1. /\ cfg.ttl = IF t = "J6" THEN -1 ELSE 1
      /\ cfg.audience = IF t = "J3" THEN {"wrong"} ELSE {"conformance"}
      /\ cfg.extra = IF t = "J7" THEN [sub |-> "noID"] ELSE <<>>
      /\ cfg.deleteClaims = IF t = "J10" THEN <<"exp">> ELSE IF t = "J11" THEN <<"aud">> ELSE <<>>
      /\ cfg.extraHeaders = IF t = "J12" THEN [typ |-> "INVALID"] ELSE <<>>
  BY TokenConfigured
<1>2. [sub |-> "noID"] # <<>> /\ [typ |-> "INVALID"] # <<>>
  <2>1. DOMAIN <<>> = {} /\ DOMAIN [sub |-> "noID"] = {"sub"} /\ DOMAIN [typ |-> "INVALID"] = {"typ"}
    OBVIOUS
  <2> QED BY <2>1
<1>3. /\ h.alg = "ES256" /\ "kid" \in DOMAIN h /\ h.kid = k
      /\ h.typ = IF cfg.extraHeaders = <<>> THEN "JWT" ELSE "INVALID"
      /\ DOMAIN c = {"sub", "aud", "iat", "exp"} \ ToSet(cfg.deleteClaims)
      /\ "sub" \in DOMAIN c => c.sub = IF cfg.extra = <<>> THEN Subject(t) ELSE "noID"
      /\ "aud" \in DOMAIN c => c.aud = cfg.audience
      /\ "exp" \in DOMAIN c => c.exp = cfg.ttl
  <2>1. /\ cfg.extra = <<>> \/ cfg.extra = [sub |-> "noID"]
        /\ cfg.extraHeaders = <<>> \/ cfg.extraHeaders = [typ |-> "INVALID"]
    BY <1>1
  <2>2. /\ h.alg = "ES256" /\ h.typ = IF cfg.extraHeaders = <<>> THEN "JWT" ELSE "INVALID"
        /\ "kid" \in DOMAIN h /\ h.kid = k
    BY <2>1, HeaderOf
  <2>3. cfg = Configure(DefaultJWT, TokenOptions(t)) /\ c = Claims(Subject(t), TokenOptions(t))
    OBVIOUS
  <2> HIDE DEF cfg
  <2>4. c = ClaimsFrom(cfg, Subject(t))
    BY <2>1, <2>3, ClaimsOf
  <2>5. /\ DOMAIN c = {"sub", "aud", "iat", "exp"} \ ToSet(cfg.deleteClaims)
        /\ "sub" \in DOMAIN c => c.sub = IF cfg.extra = <<>> THEN Subject(t) ELSE "noID"
        /\ "aud" \in DOMAIN c => c.aud = cfg.audience
        /\ "exp" \in DOMAIN c => c.exp = cfg.ttl
    BY <2>4 DEF ClaimsFrom
  <2> QED BY <2>2, <2>5
<1> HIDE DEF cfg
<1>4. ToSet(cfg.deleteClaims) = IF t = "J10" THEN {"exp"} ELSE IF t = "J11" THEN {"aud"} ELSE {}
  BY <1>1 DEF ToSet
<1>5. /\ h.typ = IF t = "J12" THEN "INVALID" ELSE "JWT"
      /\ c.sub = IF t = "J7" THEN "noID" ELSE Subject(t)
      /\ ("aud" \in DOMAIN c <=> t # "J11") /\ (t # "J11" => c.aud = cfg.audience)
      /\ ("exp" \in DOMAIN c <=> t # "J10") /\ (t # "J10" => c.exp = cfg.ttl)
  BY <1>1, <1>2, <1>3, <1>4
<1>6. /\ TokenKeeps(h, c, "alg") /\ TokenKeeps(h, c, "kid")
      /\ TokenKeeps(h, c, "typ") <=> t # "J12"
      /\ TokenKeeps(h, c, "aud") <=> t \notin {"J3", "J11"}
      /\ TokenKeeps(h, c, "exp") <=> t \notin {"J6", "J10"}
      /\ TokenKeeps(h, c, "sub") <=> t # "J7"
      /\ TokenKeeps(h, c, "trustDomain") <=> t # "J8"
  BY <1>1, <1>3, <1>5 DEF TokenKeeps, Subject, SpiffeIDs
<1>7. \A r \in TokenRules : ~TokenKeeps(h, c, r) <=> r \in RuleOf(t) \ {"key", "signature"}
  BY <1>6 DEF TokenRules, RuleOf, JWTTests
<1>8. RuleOf(t) \ {"key", "signature"} \subseteq TokenRules
  BY DEF TokenRules, RuleOf, JWTTests
<1> QED BY <1>3, <1>7, <1>8

(* A forged token breaks the rule about the algorithm, names no key, and   *)
(* breaks no other rule about its content.                                 *)
LEMMA ForgedBreaksAlg ==
  ASSUME NEW alg \in {"none", "HS256"}, NEW h, h = BareHeader(alg),
         NEW c, c = Claims("own", <<Audience>>)
  PROVE  /\ h.alg = alg /\ "kid" \notin DOMAIN h
         /\ {r \in TokenRules : ~TokenKeeps(h, c, r)} = {"alg", "kid"}
<1>2. h.alg = alg /\ h.typ = "JWT" /\ "kid" \notin DOMAIN h
  BY DEF BareHeader
<1> DEFINE cfg == Configure(DefaultJWT, <<Audience>>)
<1>3. cfg = [DefaultJWT EXCEPT !.audience = {"conformance"}]
  <2>1. cfg = Apply(DefaultJWT, Audience)
    BY ConfigureOne
  <2> QED BY <2>1 DEF Apply, Option, Audience
<1>4. /\ cfg.ttl = 1 /\ cfg.audience = {"conformance"} /\ cfg.extra = <<>>
      /\ cfg.deleteClaims = <<>> /\ cfg.extraHeaders = <<>>
  BY <1>3 DEF DefaultJWT
<1> HIDE DEF cfg
<1>5. /\ DOMAIN c = {"sub", "aud", "iat", "exp"} \ ToSet(cfg.deleteClaims)
      /\ "sub" \in DOMAIN c => c.sub = "own"
      /\ "aud" \in DOMAIN c => c.aud = cfg.audience
      /\ "exp" \in DOMAIN c => c.exp = cfg.ttl
  <2>1. cfg = Configure(DefaultJWT, <<Audience>>)
    BY DEF cfg
  <2>2. c = ClaimsFrom(cfg, "own")
    BY <1>4, <2>1, ClaimsOf
  <2> QED BY <1>4, <2>2 DEF ClaimsFrom
<1>6. ToSet(cfg.deleteClaims) = {}
  BY <1>4 DEF ToSet
<1>7. /\ c.sub = "own" /\ "aud" \in DOMAIN c /\ c.aud = {"conformance"}
      /\ "exp" \in DOMAIN c /\ c.exp = 1
  BY <1>4, <1>5, <1>6
<1>8. /\ ~TokenKeeps(h, c, "alg") /\ ~TokenKeeps(h, c, "kid")
      /\ TokenKeeps(h, c, "typ") /\ TokenKeeps(h, c, "aud") /\ TokenKeeps(h, c, "exp")
      /\ TokenKeeps(h, c, "sub") /\ TokenKeeps(h, c, "trustDomain")
  BY <1>2, <1>7 DEF TokenKeeps, SpiffeIDs
<1> QED BY <1>2, <1>8 DEF TokenRules
-----------------------------------------------------------------------------
(* The keys of the environment's CA are not those of another hierarchy, so *)
(* that J2's token is one it has no key for.                               *)
LEMMA ForeignKey ==
  ASSUME CAInv, NEW c \in CAs, Tree(c) = c
  PROVE  FirstKey(c) \in Keys(1) <=> c = 1
<1>1. 1 \in CAs /\ 1 \in 1..cas[c].len /\ 1 \in 1..cas[1].len
  BY DEF CAInv, TypeOK, CAs
<1>2. FirstKey(1) \in Keys(1)
  BY <1>1 DEF FirstKey, Keys
<1>3. ASSUME FirstKey(c) \in Keys(1) PROVE c = 1
  <2>1. PICK i \in 1..cas[1].len : KeyAt(c, 1) = KeyAt(1, i)
    BY <1>3 DEF FirstKey, Keys
  <2>2. Tree(made[KeyAt(c, 1)].ca) = Tree(c) /\ Tree(made[KeyAt(1, i)].ca) = Tree(1)
    BY <1>1 DEF CAInv, KeysOfKin
  <2> QED BY <2>1, <2>2 DEF CAInv, FirstOfTest
<1> QED BY <1>2, <1>3

(* The environment's CA always has a key to try, and 0 is none.            *)
LEMMA KeysAreKeys ==
  ASSUME CAInv
  PROVE  Keys(1) # {} /\ 0 \notin Keys(1)
<1>1. 1 \in CAs /\ 1 \in 1..cas[1].len
  BY DEF CAInv, TypeOK, CAs
<1>2. \A i \in 1..cas[1].len : KeyAt(1, i) # 0
  BY <1>1 DEF CAInv, SlotsFilled
<1> QED BY <1>1, <1>2 DEF Keys

(* Whatever CAs and keys there are, the SVID of a negative test breaks the *)
(* rule the test is about and no other, and that of a positive control     *)
(* breaks none (IssueX509SVID, IssueJWT, the options of the tests), but    *)
(* J9's tokens name no key, and the one of HS256 verifies with none.       *)
THEOREM InputsAreExact == Spec => []InputsBreakTheirRule
<1>1. CAInv => InputsBreakTheirRule
  <2> SUFFICES ASSUME CAInv PROVE InputsBreakTheirRule
    OBVIOUS
  <2> DEFINE t == svid.test
  <2>1. ASSUME svid.kind = "x509" PROVE BrokenByCert = RuleOf(t)
    <3>1. /\ t \in X509Tests /\ svid.leaf = Leaf(LeafID(t), LeafOptions(t))
          /\ Tree(svid.issuer) = 1 <=> t # "X4"
          /\ svid.intact <=> t # "X3"
      BY <2>1 DEF CAInv, IssuedAsAsked
    <3> HIDE DEF t
    <3>2. {r \in LeafRules : ~LeafKeeps(svid.leaf, r)} = RuleOf(t) \ {"chain", "signature"}
      BY <3>1, LeafBreaksOne
    <3>3. ("chain" \in RuleOf(t) <=> t = "X4") /\ ("signature" \in RuleOf(t) <=> t = "X3")
      BY <3>1 DEF RuleOf, X509Tests
    <3> QED BY <3>1, <3>2, <3>3 DEF BrokenByCert
  <2>2. ASSUME svid.kind = "jwt", t # "J9"
        PROVE  BrokenByToken = RuleOf(t) \cup Besides(t, svid.header.alg)
    <3>1. /\ t \in JWTTests
          /\ svid.header = Header(svid.key, TokenOptions(t))
          /\ svid.claims = Claims(Subject(t), TokenOptions(t))
          /\ svid.root # 0 /\ Tree(svid.root) = svid.root
          /\ svid.root = 1 <=> t # "J2"
          /\ svid.intact <=> t # "J5"
      BY <2>2 DEF CAInv, IssuedAsAsked
    <3>2. svid.root \in CAs /\ svid.key = FirstKey(svid.root)
      BY <2>2, <3>1 DEF CAInv, SVIDOfItsCA
    <3> HIDE DEF t
    <3>3. svid.key \in Keys(1) <=> t # "J2"
      BY <3>1, <3>2, ForeignKey
    <3>4. /\ svid.header.alg = "ES256" /\ "kid" \in DOMAIN svid.header
          /\ svid.header.kid = svid.key
          /\ {r \in TokenRules : ~TokenKeeps(svid.header, svid.claims, r)}
               = RuleOf(t) \ {"key", "signature"}
      BY <3>1, TokenBreaksOne
    <3>5. /\ "key" \in RuleOf(t) <=> t = "J2"
          /\ "signature" \in RuleOf(t) <=> t = "J5"
          /\ t # "J9" /\ Besides(t, svid.header.alg) = {}
      BY <3>1 DEF RuleOf, JWTTests, Besides
    <3>6. Candidates = IF t # "J2" THEN {svid.key} ELSE {}
      BY <3>3, <3>4 DEF Candidates
    <3>7. Candidates # {} => (Verifies <=> t # "J5")
      BY <3>1, <3>4, <3>6 DEF Verifies
    <3> QED BY <3>4, <3>5, <3>6, <3>7 DEF BrokenByToken
  <2>3. ASSUME svid.kind = "jwt", t = "J9"
        PROVE  BrokenByToken = RuleOf(t) \cup Besides(t, svid.header.alg)
    <3>1. PICK alg \in {"none", "HS256"} : svid.header = BareHeader(alg)
      BY <2>3 DEF CAInv, IssuedAsAsked
    <3>2. svid.claims = Claims("own", <<Audience>>) /\ svid.key = 0
      BY <2>3 DEF CAInv, IssuedAsAsked
    <3>3. /\ svid.header.alg = alg /\ "kid" \notin DOMAIN svid.header
          /\ {r \in TokenRules : ~TokenKeeps(svid.header, svid.claims, r)} = {"alg", "kid"}
      BY <3>1, <3>2, ForgedBreaksAlg
    <3>4. Candidates = Keys(1) /\ Keys(1) # {} /\ 0 \notin Keys(1)
      BY <3>3, KeysAreKeys DEF Candidates
    <3>5. Verifies <=> alg = "none"
      BY <3>2, <3>3, <3>4 DEF Verifies
    <3>6. RuleOf(t) = {"alg"}
      BY <2>3 DEF RuleOf
    <3>7. Besides(t, alg) = IF alg = "none" THEN {"kid"} ELSE {"kid", "signature"}
      BY <2>3 DEF Besides
    <3> HIDE DEF t
    <3> QED BY <3>3, <3>4, <3>5, <3>6, <3>7 DEF BrokenByToken
  <2> QED BY <2>1, <2>2, <2>3 DEF InputsBreakTheirRule
<1> QED BY <1>1, CAInvariant, PTL
=============================================================================
