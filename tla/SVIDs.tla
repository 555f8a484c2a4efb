------------------------------- MODULE SVIDs -------------------------------
(***************************************************************************)
(* What IssueX509SVID and IssueJWT put into an SVID (internal/ca/ca.go,    *)
(* options.go), what the test cases ask them for, and the rules an SDK may *)
(* find broken in the result.                                              *)
(*                                                                         *)
(* IDs are "own" and "ownToo" (SPIFFE IDs of the test's trust domain),     *)
(* "other" (one of another), and "https" and "noID", which are none.       *)
(* Times are hours from now.                                               *)
(***************************************************************************)
EXTENDS Integers, Sequences, SequencesExt

SpiffeIDs == {"own", "ownToo", "other"}

(* A functional option: the field of the configuration it sets, appends to *)
(* or, for the two maps, adds a binding to.                                *)
Option(field, value) == [field |-> field, value |-> value]

(* A map after the bindings of another have been written to it.            *)
Written(map, to) ==
  [k \in DOMAIN map \cup DOMAIN to |-> IF k \in DOMAIN map THEN map[k] ELSE to[k]]

Apply(cfg, o) ==
  [cfg EXCEPT ![o.field] =
     CASE o.field \in {"extra", "extraHeaders"}      -> Written(o.value, @)
       [] o.field \in {"extraURIs", "deleteClaims"}  -> @ \o o.value
       [] OTHER                                      -> o.value]

Configure(default, options) == FoldLeft(Apply, default, options)

(* nil: <<>> and {}.  DNS names, which no rule looks at, are left out.     *)
DefaultX509 == [ttl |-> 1, notBefore |-> 0, isCA |-> FALSE, keyUsage |-> {},
                extraURIs |-> <<>>, uriOverride |-> <<>>]

DefaultJWT == [ttl |-> 1, audience |-> {"test"}, extra |-> <<>>, deleteClaims |-> <<>>,
               extraHeaders |-> <<>>]

(* Mutant: an override is one URI more.                                    *)
AllURIs(id, cfg) == <<id>> \o cfg.extraURIs \o cfg.uriOverride
URIs(id, cfg)    == IF cfg.uriOverride # <<>> THEN cfg.uriOverride ELSE <<id>> \o cfg.extraURIs

Leaf(id, options) ==
  LET cfg == Configure(DefaultX509, options)
  IN [uris  |-> URIs(id, cfg),
      usage |-> IF cfg.keyUsage # {} THEN cfg.keyUsage ELSE {"digitalSignature", "keyAgreement"},
      isCA  |-> cfg.isCA,
      from  |-> cfg.notBefore,
      until |-> cfg.notBefore + cfg.ttl]

Claims(id, options) ==
  LET cfg == Configure(DefaultJWT, options)
      all == Written(cfg.extra, [sub |-> id, aud |-> cfg.audience, iat |-> 0, exp |-> cfg.ttl])
  IN [c \in DOMAIN all \ ToSet(cfg.deleteClaims) |-> all[c]]

(* The header names the key k that signs; an option may overwrite that.    *)
Header(k, options) ==
  Written(Configure(DefaultJWT, options).extraHeaders,
          [alg |-> "ES256", typ |-> "JWT", kid |-> k])

(* The header of a token made with the JWT library alone names no key.     *)
BareHeader(alg) == [alg |-> alg, typ |-> "JWT"]
-----------------------------------------------------------------------------
(* What the test cases ask for.  X1 and J1 stand for the valid SVIDs; X3   *)
(* and J5 tamper with one, X4 and J2 take one of a CA of their own, and J9 *)
(* makes its tokens without a CA.  X10 to X13 show theirs as clients.      *)
X509Tests == {"X1", "X3", "X4", "X5", "X6", "X7", "X8", "X9", "X10", "X11", "X12", "X13"}
JWTTests  == {"J1", "J2", "J3", "J5", "J6", "J7", "J8", "J10", "J11", "J12"}

LeafOptions(t) ==
  CASE t = "X5" -> <<Option("notBefore", -2), Option("ttl", 1)>>
    [] t \in {"X6", "X10"} -> <<Option("isCA", TRUE)>>
    [] t \in {"X7", "X11"} -> <<Option("keyUsage", {"certSign", "digitalSignature"})>>
    [] t \in {"X8", "X12"} -> <<Option("extraURIs", <<"ownToo">>)>>
    [] t \in {"X9", "X13"} -> <<Option("uriOverride", <<"https">>)>>
    [] OTHER    -> <<>>

LeafID(t) == IF t = "X4" THEN "other" ELSE "own"

Audience == Option("audience", {"conformance"})

JWTOptions(t) ==
  CASE t = "J3"  -> <<Option("audience", {"wrong"})>>
    [] t = "J6"  -> <<Option("ttl", -1)>>
    [] t = "J7"  -> <<Option("extra", [sub |-> "noID"])>>
    [] t = "J10" -> <<Option("deleteClaims", <<"exp">>)>>
    [] t = "J11" -> <<Option("deleteClaims", <<"aud">>)>>
    [] t = "J12" -> <<Option("extraHeaders", [typ |-> "INVALID"])>>
    [] OTHER     -> <<>>

(* rejectIssued.  Mutant: the audience of the test has the last word.      *)
AudienceLast(t) == JWTOptions(t) \o <<Audience>>
TokenOptions(t) == <<Audience>> \o JWTOptions(t)

Subject(t) == IF t = "J8" THEN "other" ELSE "own"
-----------------------------------------------------------------------------
(* The rules of X509-SVID and JWT-SVID, each one on its own.               *)

LeafRules == {"leaf", "keyUsage", "oneID", "spiffeID", "validity"}

LeafKeeps(l, rule) ==
  CASE rule = "leaf"      -> ~l.isCA
    [] rule = "keyUsage"  -> "certSign" \notin l.usage
    [] rule = "oneID"     -> Len(l.uris) = 1
    [] rule = "spiffeID"  -> ToSet(l.uris) \subseteq SpiffeIDs
    [] rule = "validity"  -> l.from <= 0 /\ 0 < l.until

TokenRules == {"alg", "typ", "kid", "aud", "exp", "sub", "trustDomain"}

TokenKeeps(header, claims, rule) ==
  CASE rule = "alg" -> header.alg = "ES256"
    [] rule = "typ" -> header.typ \in {"JWT", "JOSE"}
    [] rule = "kid" -> "kid" \in DOMAIN header
    [] rule = "aud" -> "aud" \in DOMAIN claims /\ "conformance" \in claims.aud
    [] rule = "exp" -> "exp" \in DOMAIN claims /\ 0 < claims.exp
    [] rule = "sub" -> claims.sub \in SpiffeIDs
    [] rule = "trustDomain" -> claims.sub # "other"

(* What each test says of its SVID, in its description.                    *)
RuleOf(t) ==
  CASE t \in {"X3", "J5"} -> {"signature"}
    [] t = "X4"           -> {"chain"}
    [] t = "X5"           -> {"validity"}
    [] t \in {"X6", "X10"} -> {"leaf"}
    [] t \in {"X7", "X11"} -> {"keyUsage"}
    [] t \in {"X8", "X12"} -> {"oneID"}
    [] t \in {"X9", "X13"} -> {"spiffeID"}
    [] t = "J2"           -> {"key"}
    [] t \in {"J3", "J11"} -> {"aud"}
    [] t \in {"J6", "J10"} -> {"exp"}
    [] t = "J7"           -> {"sub"}
    [] t = "J8"           -> {"trustDomain"}
    [] t = "J9"           -> {"alg"}
    [] t = "J12"          -> {"typ"}
    [] t \in {"X1", "J1"} -> {}

(* The rules that J9's tokens break besides: neither names a key, and the  *)
(* key of HS256 is a random one.                                           *)
Besides(t, alg) ==
  CASE t = "J9" /\ alg = "none"  -> {"kid"}
    [] t = "J9" /\ alg = "HS256" -> {"kid", "signature"}
    [] t # "J9"                  -> {}
=============================================================================
