------------------------ MODULE CertificateAuthority ------------------------
(***************************************************************************)
(* The CAs of a test case, internal/ca/ca.go: the hierarchy that New and   *)
(* NewIntermediate build, the SVIDs issued in it, and the JWT keys that a  *)
(* CA and its intermediates publish.                                       *)
(*                                                                         *)
(* CAs and JWT keys are numbered in order of creation; a CA's number also  *)
(* stands for its certificate.  The keys of a CA are a Go slice: a length  *)
(* and an array, which NewIntermediate hands to the child as it is, so     *)
(* that parent and child append to one array as long as it has room.       *)
(***************************************************************************)
EXTENDS SVIDs

CONSTANTS
  MaxCAs,    \* bound on the CAs created
  MaxKeys    \* bound on the JWT keys generated

ASSUME CAAssumption == MaxCAs \in Nat \ {0} /\ MaxKeys \in Nat \ {0}

TrustDomains == {"test", "foreign"}

VARIABLES
  cas,       \* the CAs
  arrays,    \* the arrays of keys, of capacity cap; a slot that is 0 is nil
  svid,      \* the last SVID issued, of either kind
  bundle,    \* the last JWK Set
  \* history
  made       \* for each key the CA it was added to, and its place there

vars == <<cas, arrays, svid, bundle, made>>

(* A root, whose append to a nil slice makes an array of one.              *)
Root(td, n, array) ==
  [td |-> td, root |-> n, signer |-> n, intermediates |-> <<>>, array |-> array, len |-> 1]
FirstArray(k) == [cap |-> 1, slot |-> [i \in 1..MaxKeys |-> IF i = 1 THEN k ELSE 0]]

NoSVID   == [kind |-> "none"]
NoBundle == [root |-> 0, keys |-> {}]

(* The environment's CA, ca.New("spiffe://test.example.org"), is CA 1.     *)
Init ==
  /\ cas = <<Root("test", 1, 1)>>
  /\ arrays = <<FirstArray(1)>>
  /\ made = <<[ca |-> 1, at |-> 1]>>
  /\ svid = NoSVID /\ bundle = NoBundle

KeyAt(c, i) == arrays[cas[c].array].slot[i]
Keys(c)     == {KeyAt(c, i) : i \in 1..cas[c].len}
Tree(c)     == cas[c].root

NewKey == Len(made) + 1
MakeKey(c, i) ==
  /\ NewKey <= MaxKeys
  /\ made' = Append(made, [ca |-> c, at |-> i])
-----------------------------------------------------------------------------
New(td) ==
  LET n == Len(cas) + 1
  IN /\ n <= MaxCAs
     /\ cas' = Append(cas, Root(td, n, Len(arrays) + 1))
     /\ arrays' = Append(arrays, FirstArray(NewKey))
     /\ MakeKey(n, 1)
     /\ UNCHANGED <<svid, bundle>>

(* The child's certificate goes in front of the chain of its parent.       *)
(* Mutant: behind it.                                                      *)
ChainBehind(n, c)  == cas[c].intermediates \o <<n>>
ChainInFront(n, c) == <<n>> \o cas[c].intermediates

NewIntermediate(c) ==
  LET n == Len(cas) + 1
  IN /\ n <= MaxCAs
     /\ cas' = Append(cas, [cas[c] EXCEPT !.signer = c, !.intermediates = ChainInFront(n, c)])
     /\ UNCHANGED <<arrays, svid, bundle, made>>

(* append: into the array if it has room, else into a copy of it of twice  *)
(* the capacity.  Mutant: one slot too low.                                *)
NextTaken(c) == cas[c].len
NextSlot(c)  == cas[c].len + 1

Put(array, capacity, i, k) == [cap |-> capacity, slot |-> [array.slot EXCEPT ![i] = k]]
Slice(ca, array, length)   == [ca EXCEPT !.array = array, !.len = length]

(* An unsupported algorithm is an error that leaves everything as it is.   *)
AddJWTKey(c) ==
  LET a == cas[c].array
      i == NextSlot(c)
  IN /\ MakeKey(c, i)
     /\ IF cas[c].len < arrays[a].cap
        THEN /\ arrays' = [arrays EXCEPT ![a] = Put(@, @.cap, i, NewKey)]
             /\ cas' = [cas EXCEPT ![c] = Slice(@, a, @.len + 1)]
        ELSE /\ arrays' = Append(arrays, Put(arrays[a], 2 * arrays[a].cap, i, NewKey))
             /\ cas' = [cas EXCEPT ![c] = Slice(@, Len(arrays) + 1, @.len + 1)]
     /\ UNCHANGED <<svid, bundle>>

(* The material of test t, which the environment's CA issues; a valid SVID *)
(* may come from an intermediate of it, and X4's is of a CA of a foreign   *)
(* trust domain.  X3's is corrupted afterwards.                            *)
IssueX509SVID(c, t) ==
  /\ CASE t = "X1" -> Tree(c) = 1
       [] t = "X4" -> Tree(c) = c /\ cas[c].td = "foreign"
       [] OTHER    -> c = 1
  /\ svid' = [kind |-> "x509", test |-> t, issuer |-> c, intermediates |-> cas[c].intermediates,
              root |-> cas[c].root, leaf |-> Leaf(LeafID(t), LeafOptions(t)),
              intact |-> t # "X3"]
  /\ UNCHANGED <<cas, arrays, bundle, made>>

(* The token of test t, signed with the first key of the CA; J2's is of a  *)
(* second CA of the trust domain.  Mutant: with the last key.              *)
LastKey(c)  == KeyAt(c, cas[c].len)
FirstKey(c) == KeyAt(c, 1)

IssueJWT(c, t) ==
  /\ CASE t = "J1" -> Tree(c) = 1
       [] t = "J2" -> Tree(c) = c /\ c # 1 /\ cas[c].td = "test"
       [] OTHER    -> c = 1
  /\ svid' = [kind |-> "jwt", test |-> t, root |-> cas[c].root, key |-> FirstKey(c),
              header |-> Header(FirstKey(c), TokenOptions(t)),
              claims |-> Claims(Subject(t), TokenOptions(t)),
              intact |-> t # "J5"]
  /\ UNCHANGED <<cas, arrays, bundle, made>>

(* J9 signs the same claims with no key at all, or one of its own.         *)
ForgeJWT(alg) ==
  /\ svid' = [kind |-> "jwt", test |-> "J9", root |-> 0, key |-> 0,
               header |-> BareHeader(alg), claims |-> Claims("own", <<Audience>>),
               intact |-> TRUE]
  /\ UNCHANGED <<cas, arrays, bundle, made>>

JWKSBytes(c) ==
  /\ bundle' = [root |-> Tree(c), keys |-> Keys(c)]
  /\ UNCHANGED <<cas, arrays, svid, made>>

Next ==
  \/ \E td \in TrustDomains : New(td)
  \/ \E c \in 1..Len(cas) :
       \/ NewIntermediate(c) \/ AddJWTKey(c) \/ JWKSBytes(c)
       \/ \E t \in X509Tests : IssueX509SVID(c, t)
       \/ \E t \in JWTTests : IssueJWT(c, t)
  \/ \E alg \in {"none", "HS256"} : ForgeJWT(alg)

Spec == Init /\ [][Next]_vars
-----------------------------------------------------------------------------
CARecord ==
  [td : TrustDomains, root : Nat, signer : Nat, intermediates : Seq(Nat), array : Nat, len : Nat]
ArrayRecord == [cap : Nat, slot : [1..MaxKeys -> Nat]]

(* Every variable holds what the code can put in it; in particular every   *)
(* slice lies within its array.                                            *)
TypeOK ==
  /\ cas \in Seq(CARecord) /\ Len(cas) > 0
  /\ arrays \in Seq(ArrayRecord)
  /\ made \in Seq([ca : 1..Len(cas), at : 1..MaxKeys]) /\ Len(made) <= MaxKeys
  /\ \A c \in 1..Len(cas) :
       /\ cas[c].root \in 1..Len(cas)
       /\ cas[c].array \in 1..Len(arrays)
       /\ cas[c].len \in 1..MaxKeys /\ cas[c].len <= arrays[cas[c].array].cap

(* What a verifier does with a chain, leaf first: each certificate must be *)
(* signed by the next, and the last one by the root of the bundle.         *)
Path == svid.intermediates \o <<svid.root>>

(* The certificate chain of every SVID, however deep the CA that issued    *)
(* it, leads from the leaf to the root that is published for it, in order, *)
(* through CAs of one trust domain (NewIntermediate, CertChainDER).        *)
ChainVerifies ==
  svid.kind = "x509" =>
    /\ Path[1] = svid.issuer
    /\ \A i \in 1..(Len(Path) - 1) : cas[Path[i]].signer = Path[i + 1]
    /\ cas[svid.root].signer = svid.root
    /\ \A i \in 1..Len(Path) : cas[Path[i]].td = cas[svid.issuer].td

(* "The intermediate shares c's JWT keys": a token of any CA of a          *)
(* hierarchy verifies with the JWK Set of every CA of it, published before *)
(* or after, whatever keys were added to which of them in between          *)
(* (NewIntermediate, AddJWTKey, IssueJWT, JWKSBytes).  It is about the key *)
(* that IssueJWT takes by default: one given WithJWTKey may be lost.       *)
DefaultTokensVerify ==
  svid.kind = "jwt" /\ bundle.root # 0 /\ bundle.root = svid.root => svid.key \in bundle.keys

(* A key leaves the bundle of the CA it was added to only if a relative of *)
(* that CA later overwrote its slot; a CA that has no relatives, such as   *)
(* those of the test cases, keeps every key (AddJWTKey).                   *)
LostOnlyToRelatives ==
  \A k \in 1..Len(made) :
    LET c == made[k].ca
        j == KeyAt(c, made[k].at)
    IN j = k \/ (j > k /\ made[j].ca # c /\ Tree(made[j].ca) = Tree(c))

(* The rules an X.509-SVID and a token break for an SDK that has the root  *)
(* and the JWK Set of the environment's CA.  It looks for the key that the *)
(* header names, tries every key if it names none (kid is optional, JV-22, *)
(* though some SDKs demand it), and looks at a signature only if there is  *)
(* one, and a key to verify it with.                                       *)
BrokenByCert ==
  {r \in LeafRules : ~LeafKeeps(svid.leaf, r)}
    \cup (IF Tree(svid.issuer) = 1 THEN {} ELSE {"chain"})
    \cup (IF svid.intact THEN {} ELSE {"signature"})

Candidates ==
  IF "kid" \in DOMAIN svid.header THEN Keys(1) \cap {svid.header.kid} ELSE Keys(1)

Verifies == svid.header.alg = "none" \/ (svid.intact /\ svid.key \in Candidates)

BrokenByToken ==
  {r \in TokenRules : ~TokenKeeps(svid.header, svid.claims, r)}
    \cup (IF Candidates = {} THEN {"key"} ELSE {})
    \cup (IF Candidates = {} \/ Verifies THEN {} ELSE {"signature"})

(* A negative test says something about its rule only if its SVID breaks   *)
(* that rule and no other, and a positive control breaks none: an SDK that *)
(* forgot to look at the rule would accept it (the run functions of        *)
(* tests/x509 and tests/jwt, IssueX509SVID, IssueJWT and their options).   *)
(* J9 alone falls short: its HS256 token is signed with random bytes       *)
(* instead of "the public key bytes" (docs/TEST_CATALOGUE.md:176), so an   *)
(* SDK that forgot the rule about alg still rejects it, and neither token  *)
(* has the kid that tokens have "unless stated otherwise" (:165).          *)
InputsBreakTheirRule ==
  /\ svid.kind = "x509" => BrokenByCert = RuleOf(svid.test)
  /\ svid.kind = "jwt" =>
       BrokenByToken = RuleOf(svid.test) \cup Besides(svid.test, svid.header.alg)
=============================================================================
