--------------------------- MODULE MintingProofs ----------------------------
(***************************************************************************)
(* What holds of every key the daemon mints, for any number of workers,     *)
(* services, start-ups and Headscale users: it belongs to the configured    *)
(* user, its tag is the service's own or one the operator's patterns match, *)
(* and the gateway it goes to reads back the one target it is for.  What    *)
(* the text functions compute is from LabelsProofs.                         *)
(***************************************************************************)
EXTENDS Minting, LabelsProofs
-----------------------------------------------------------------------------
(* The environment's patterns *)

\* TagList goes through the pieces one by one.
TagListEqs(P, f) ==
    f = [i \in 0 .. Len(P) |-> IF i = 0 THEN <<>> ELSE AddTag(f[i - 1], Trim(P[i]))]
TagListSteps(text, P, f) ==
    /\ f[0] = <<>>
    /\ \A i \in 1 .. Len(P) : f[i] = AddTag(f[i - 1], Trim(P[i]))
    /\ TagList(text) = f[Len(P)]

\* The lists on the way form a function.
LEMMA TagListComputes ==
    ASSUME NEW A, NEW text \in Seq(A), NEW P \in Seq(Seq(A)), CommaList(text) = P
    PROVE  \E f \in [0 .. Len(P) -> Seq(Seq(A))] : TagListSteps(text, P, f)
<1> DEFINE V == Seq(Seq(A))
           n == Len(P)
           c == <<>>
           tags == CHOOSE f : TagListEqs(P, f)
<1>1. TagList(text) = tags[Len(P)]
  BY DEF TagList, TagListEqs
<1>2. n \in Nat /\ c \in V
  <2>1. <<>> \in Seq(Seq(A))
    OBVIOUS
  <2> QED
    BY <2>1, LenProperties, Zenon
<1>3. ASSUME NEW i \in 1 .. n, NEW l \in V PROVE AddTag(l, Trim(P[i])) \in V
  <2>1. P[i] \in Seq(A)
    BY ElementOfSeq, Zenon
  <2>2. Trim(P[i]) \in Seq(A)
    BY <2>1, TrimRun
  <2>3. Append(l, Trim(P[i])) \in V
    BY <2>2, AppendProperties, Zenon
  <2> HIDE DEF V
  <2> QED
    BY <2>3 DEF AddTag
<1>4. \E f : TagListEqs(P, f)
  <2> DEFINE F == [i \in 1 .. n |-> [l \in V |-> AddTag(l, Trim(P[i]))]]
             pre == [i \in 1 .. n |-> i - 1]
  <2> HIDE DEF n, V, c
  <2>1. F \in [1 .. n -> [V -> V]]
    BY <1>3
  <2>2. Earlier(pre, n)
    BY <1>2 DEF Earlier
  <2>3. PICK f \in [0 .. n -> V] : Solves(f, n, c, pre, F)
    <3> HIDE DEF F, pre
    <3> QED
      BY <1>2, <2>1, <2>2, Recursion
  <2>4. ASSUME NEW i \in 1 .. n PROVE f[i] = AddTag(f[i - 1], Trim(P[i]))
    <3>1. f[i - 1] \in V /\ pre[i] = i - 1
      BY <1>2
    <3> QED
      BY <2>3, <3>1 DEF Solves
  <2>5. TagListEqs(P, f)
    BY <1>2, <2>3, <2>4 DEF Solves, TagListEqs, n, c
  <2> QED
    BY <2>5
<1>5. TagListEqs(P, tags)
  <2> HIDE DEF n, V
  <2> QED
    BY <1>4
<1> HIDE DEF tags
<1>6. /\ tags[0] = c
      /\ \A i \in 1 .. n : tags[i] = AddTag(tags[i - 1], Trim(P[i]))
      /\ tags = [i \in 0 .. n |-> tags[i]]
  <2> DEFINE R(i) == IF i = 0 THEN c ELSE AddTag(tags[i - 1], Trim(P[i]))
  <2>1. tags = [i \in 0 .. n |-> R(i)]
    BY <1>5 DEF TagListEqs
  <2> HIDE DEF n, c
  <2>2. \A i \in 0 .. n : tags[i] = R(i)
    BY <2>1
  <2>3. tags = [i \in 0 .. n |-> tags[i]]
    <3> HIDE DEF R
    <3> QED
      BY <2>1
  <2>4. 0 \in 0 .. n /\ \A i \in 1 .. n : i \in 0 .. n /\ i # 0
    BY <1>2
  <2> QED
    BY <2>2, <2>3, <2>4
<1>7. tags \in [0 .. n -> V]
  <2> DEFINE S == {i \in 0 .. n : tags[i] \in V}
  <2> HIDE DEF n, V, c
  <2>1. 0 \in S
    BY <1>2, <1>6
  <2>2. ASSUME NEW i \in 0 .. n - 1, i \in S PROVE i + 1 \in S
    <3>1. tags[i] \in V /\ i + 1 \in 1 .. n /\ (i + 1) - 1 = i
      BY <1>2, <2>2
    <3>2. tags[i + 1] = AddTag(tags[i], Trim(P[i + 1]))
      BY <1>6, <3>1
    <3> QED
      BY <1>2, <1>3, <3>1, <3>2
  <2>3. 0 .. n \subseteq S
    <3> HIDE DEF S
    <3>1. \A i \in 0 .. n - 1 : i \in S => i + 1 \in S
      BY <2>2
    <3> QED
      BY <1>2, <2>1, <3>1, UpTo
  <2> QED
    BY <1>6, <2>3
<1> QED
  BY <1>1, <1>6, <1>7 DEF TagListSteps

\* What is in the list once a pattern is added.
LEMMA AddTagSet ==
    ASSUME NEW A, NEW l \in Seq(A), NEW tag \in A
    PROVE  ToSet(AddTag(l, tag)) = ToSet(l) \cup ({tag} \ {<<>>})
<1>1. CASE tag = <<>>
  BY <1>1 DEF AddTag
<1>2. CASE tag # <<>>
  <2> DEFINE q == Append(l, tag)
             n == Len(l)
  <2>1. n \in Nat /\ DOMAIN l = 1 .. n
    OBVIOUS
  <2>2. DOMAIN q = 1 .. n + 1 /\ q[n + 1] = tag /\ \A i \in 1 .. n : q[i] = l[i]
    OBVIOUS
  <2>3. AddTag(l, tag) = q
    BY <1>2 DEF AddTag
  <2> HIDE DEF q, n
  <2>4. ToSet(q) = ToSet(l) \cup {tag}
    BY <2>1, <2>2 DEF ToSet
  <2> QED
    BY <1>2, <2>3, <2>4
<1> QED
  BY <1>1, <1>2

\* The list has the pieces of the text, trimmed, and not one that is blank.
LEMMA TagListPatterns ==
    ASSUME NEW A, NEW text \in Seq(A)
    PROVE  /\ TagList(text) \in Seq(Seq(A))
           /\ ToSet(TagList(text)) = {Trim(piece) : piece \in ToSet(CommaList(text))} \ {<<>>}
<1> DEFINE Q == CommaList(text)
<1>1. Q \in Seq(Seq(A)) /\ CommaList(text) = Q
  BY SplitCuts DEF CommaList
<1> HIDE DEF Q
<1> DEFINE n == Len(Q)
           V == Seq(Seq(A))
           T(i) == {Trim(Q[j]) : j \in 1 .. i} \ {<<>>}
<1>2. n \in Nat /\ DOMAIN Q = 1 .. n
  BY <1>1
<1>3. PICK f \in [0 .. n -> V] : TagListSteps(text, Q, f)
  BY <1>1, TagListComputes
<1>4. /\ f[0] = <<>>
      /\ \A i \in 1 .. n : f[i] = AddTag(f[i - 1], Trim(Q[i]))
      /\ TagList(text) = f[n]
  BY <1>3 DEF TagListSteps
<1>5. \A i \in 1 .. n : Trim(Q[i]) \in Seq(A)
  <2> SUFFICES ASSUME NEW i \in 1 .. n PROVE Trim(Q[i]) \in Seq(A)
    OBVIOUS
  <2>1. Q[i] \in Seq(A)
    BY <1>1, ElementOfSeq, Zenon
  <2> QED
    BY <2>1, TrimRun
<1> HIDE DEF n
<1> DEFINE S == {i \in 0 .. n : ToSet(f[i]) = T(i)}
<1>6. 0 \in S
  <2>1. ToSet(<<>>) = {}
    BY DEF ToSet
  <2>2. 1 .. 0 = {}
    OBVIOUS
  <2>3. T(0) = {}
    BY <2>2
  <2> QED
    BY <1>2, <1>4, <2>1, <2>3
<1>7. ASSUME NEW i \in 0 .. n - 1, i \in S PROVE i + 1 \in S
  <2>1. i + 1 \in 1 .. n /\ i + 1 \in 0 .. n /\ i \in 0 .. n /\ (i + 1) - 1 = i
    BY <1>2
  <2>2. f[i + 1] = AddTag(f[i], Trim(Q[i + 1])) /\ f[i] \in V /\ Trim(Q[i + 1]) \in Seq(A)
    BY <1>4, <1>5, <2>1
  <2>3. ToSet(f[i + 1]) = ToSet(f[i]) \cup ({Trim(Q[i + 1])} \ {<<>>})
    BY <2>2, AddTagSet
  <2>4. 1 .. i + 1 = (1 .. i) \cup {i + 1}
    BY <1>2
  <2>5. T(i + 1) = T(i) \cup ({Trim(Q[i + 1])} \ {<<>>})
    BY <2>4
  <2>6. ToSet(f[i]) = T(i)
    BY <1>7
  <2> HIDE DEF T
  <2> QED
    BY <2>1, <2>3, <2>5, <2>6
<1>8. n \in S
  <2> HIDE DEF S
  <2>1. \A i \in 0 .. n - 1 : i \in S => i + 1 \in S
    BY <1>7
  <2>2. 0 .. n \subseteq S
    BY <1>2, <1>6, <2>1, UpTo
  <2> QED
    BY <1>2, <2>2
<1>9. TagList(text) \in V /\ ToSet(TagList(text)) = T(n)
  BY <1>2, <1>4, <1>8
<1>10. T(n) = {Trim(piece) : piece \in ToSet(Q)} \ {<<>>}
  BY <1>2 DEF ToSet
<1> QED
  BY <1>9, <1>10 DEF Q
-----------------------------------------------------------------------------
\* A key's tag has passed the check of the label parser, under the patterns
\* that were loaded and for the service of the worker that minted it.
TagChecked == \A k \in minted : tagAllowed(k.req.tag, derivedTag(svc[k.worker]), cfg.allowedTags)

\* A tag that is not the service's own is a text.
TagText == \A k \in minted : k.req.tag = derivedTag(svc[k.worker]) \/ k.req.tag \in Seq(STRING)

\* A key is minted for a request of its worker, and goes into that one's specs.
SpecOfRequest == \A k \in minted : /\ k.worker \in Workers
                                    /\ k.req \in Requests(k.worker)
                                    /\ k.spec = GatewaySpecs(k.worker, k.req)
-----------------------------------------------------------------------------
(* The inductive invariant *)

\* The configuration is one the start-up loads.
Loadable == Load(boot.file, boot.env, boot.keyFile)
Loaded == /\ svc \in Shards
          /\ phase = "boot" => cfg = Unset
          /\ phase \in {"image", "running"} => cfg \in Loadable
          /\ cfg # Unset => cfg \in Loadable

\* What the EXCEPTs of the workers need of the tables they update.
Shape == /\ DOMAIN job = Workers
         /\ \A w \in Workers : job[w] = [pc |-> job[w].pc, req |-> job[w].req, id |-> job[w].id]
         /\ DOMAIN got = Workers
         /\ named \in [UserIds -> SUBSET Names]

\* Nothing is cached, asked for or minted before the daemon runs.
NotYet == phase # "running" => /\ cache = None
                               /\ minted = {}
                               /\ \A w \in Workers : job[w] = Idle /\ got[w] = {}

\* The targets are what Parse makes of the services, all the while.
Parsed == phase = "running" => tgt = [w \in Workers |-> Parse(svc[w], Networks, cfg)]

\* The history has the names users have now.
HadName == \A i \in UserIds : users[i] \in Names => users[i] \in named[i]

\* An ID in the cache, or on its way to or from it, has had the configured name.
Resolved(id) == id \in UserIds /\ cfg.user \in named[id]
CacheResolved == cache # None => Resolved(cache)
JobsResolved  == \A w \in Workers : job[w].pc \in {"write", "post"} => Resolved(job[w].id)

IInv == /\ TypeOK
        /\ Shape
        /\ NotYet
        /\ Parsed
        /\ Loaded
        /\ HadName
        /\ CacheResolved
        /\ JobsResolved
        /\ KeyOfConfiguredUser
        /\ TagChecked
        /\ TagText
        /\ SpecOfRequest
-----------------------------------------------------------------------------
\* Every mint the labels of a service call for has a tag that tagAllowed
\* passes: Parse serves neither direction when an override is refused.
LEMMA ParsedTagsAllowed ==
    ASSUME NEW s, NEW c,
           NEW p \in Parse(s, Networks, c).ingress \cup Parse(s, Networks, c).egress
    PROVE  tagAllowed(p.tag, derivedTag(s), c.allowedTags)
<1> DEFINE labels == s.labels[c.namespace]
           ing    == parseIngress(s, labels, Networks, c)
           eg     == parseEgress(s, labels, Networks, c)
<1>1. (p = ing /\ ing.ok) \/ (p = eg /\ eg.ok)
  BY DEF Parse
<1>2. CASE p = ing /\ ing.ok
  <2>1. p.tag = Or(labels.tag, derivedTag(s)) /\ TagOk(s, c.allowedTags, labels.tag)
    BY <1>2 DEF parseIngress
  <2> QED
    BY <2>1 DEF Or, TagOk, tagAllowed
<1>3. CASE p = eg /\ eg.ok
  <2>1. p.tag = Or(labels.egTag, derivedTag(s)) /\ TagOk(s, c.allowedTags, labels.egTag)
    BY <1>3 DEF parseEgress
  <2> QED
    BY <2>1 DEF Or, TagOk, tagAllowed
<1> QED
  BY <1>1, <1>2, <1>3

\* A tag that Parse serves is the service's own or that of a label.
LEMMA ParsedTagsTexts ==
    ASSUME NEW s, NEW c,
           {s.labels[c.namespace].tag, s.labels[c.namespace].egTag} \subseteq Seq(STRING),
           NEW p \in Parse(s, Networks, c).ingress \cup Parse(s, Networks, c).egress
    PROVE  p.tag = derivedTag(s) \/ p.tag \in Seq(STRING)
<1> DEFINE labels == s.labels[c.namespace]
           ing    == parseIngress(s, labels, Networks, c)
           eg     == parseEgress(s, labels, Networks, c)
<1>1. p = ing \/ p = eg
  BY DEF Parse
<1>2. CASE p = ing
  <2>1. p.tag = Or(labels.tag, derivedTag(s))
    BY <1>2 DEF parseIngress
  <2> QED
    BY <2>1 DEF Or
<1>3. CASE p = eg
  <2>1. p.tag = Or(labels.egTag, derivedTag(s))
    BY <1>3 DEF parseEgress
  <2> QED
    BY <2>1 DEF Or
<1> QED
  BY <1>1, <1>2, <1>3

\* Both, of a request of a worker while the targets are the parsed ones.
LEMMA RequestsAllowed ==
    ASSUME tgt = [w \in Workers |-> Parse(svc[w], Networks, cfg)],
           boot \in Boots, svc \in Shards, cfg \in Loadable,
           NEW w \in Workers, NEW r \in Requests(w)
    PROVE  /\ tagAllowed(r.tag, derivedTag(svc[w]), cfg.allowedTags)
           /\ r.tag = derivedTag(svc[w]) \/ r.tag \in Seq(STRING)
<1>1. PICK p \in tgt[w].ingress \cup tgt[w].egress : r.tag = p.tag
  BY DEF Requests, Request
<1>2. tgt[w] = Parse(svc[w], Networks, cfg)
  OBVIOUS
<1>3. {svc[w].labels[cfg.namespace].tag, svc[w].labels[cfg.namespace].egTag} \subseteq Seq(STRING)
  BY ServiceTexts DEF Loadable, Texts
<1> QED
  BY <1>1, <1>2, <1>3, ParsedTagsAllowed, ParsedTagsTexts
-----------------------------------------------------------------------------
(* The address of a target *)

\* Division by ten.
LEMMA ByTen ==
    ASSUME NEW i \in Nat
    PROVE  /\ i \div 10 \in Nat /\ i % 10 \in 0 .. 9
           /\ i = 10 * (i \div 10) + (i % 10)
           /\ i >= 1 => i \div 10 < i
  OBVIOUS

\* Decimal goes from a number to its tenth.
LastDigit(i) == <<Digits[(i % 10) + 1]>>
DecimalEqs(n, f) ==
    f = [i \in 0 .. n |-> IF i < 10 THEN <<Digits[i + 1]>> ELSE f[i \div 10] \o LastDigit(i)]
DecimalSteps(n, f) ==
    /\ \A i \in 0 .. n : f[i] = IF i < 10 THEN <<Digits[i + 1]>> ELSE f[i \div 10] \o LastDigit(i)
    /\ Decimal(n) = f[n]

\* The texts on the way form a function.
LEMMA DecimalComputes ==
    ASSUME NEW A, ToSet(Digits) \subseteq A, NEW n \in Nat
    PROVE  \E f : DecimalSteps(n, f)
<1> DEFINE V == Seq(A)
           c == <<Digits[1]>>
           dec == CHOOSE f : DecimalEqs(n, f)
<1>1. Decimal(n) = dec[n]
  BY DEF Decimal, DecimalEqs, LastDigit
<1>2. \A d \in 0 .. 9 : Digits[d + 1] \in A
  <2>1. \A d \in 0 .. 9 : d + 1 \in DOMAIN Digits
    BY TenDigits
  <2>2. \A d \in 0 .. 9 : Digits[d + 1] \in ToSet(Digits)
    BY <2>1 DEF ToSet
  <2> QED
    BY <2>2
<1>3. c \in V /\ \A i \in 1 .. n : LastDigit(i) \in V /\ (i < 10 => <<Digits[i + 1]>> \in V)
  <2>1. \A i \in 1 .. n : i % 10 \in 0 .. 9 /\ (i < 10 => i \in 0 .. 9)
    OBVIOUS
  <2>2. \A d \in 0 .. 9 : <<Digits[d + 1]>> \in V
    BY <1>2
  <2>3. c = <<Digits[0 + 1]>> /\ 0 \in 0 .. 9
    OBVIOUS
  <2> HIDE DEF V, c
  <2> QED
    BY <2>1, <2>2, <2>3 DEF LastDigit
<1>4. ASSUME NEW i \in 1 .. n, NEW v \in V
      PROVE  (IF i < 10 THEN <<Digits[i + 1]>> ELSE v \o LastDigit(i)) \in V
  <2>1. v \o LastDigit(i) \in V
    BY <1>3
  <2> HIDE DEF V
  <2> QED
    BY <1>3, <2>1
<1>5. \E f : DecimalEqs(n, f)
  <2> DEFINE F == [i \in 1 .. n |-> [v \in V |-> IF i < 10 THEN <<Digits[i + 1]>> ELSE v \o LastDigit(i)]]
             pre == [i \in 1 .. n |-> i \div 10]
  <2> HIDE DEF V, c
  <2>1. F \in [1 .. n -> [V -> V]]
    BY <1>4
  <2>2. Earlier(pre, n)
    <3>1. \A i \in 1 .. n : i \div 10 \in 0 .. n /\ i \div 10 < i
      BY ByTen
    <3> QED
      BY <3>1 DEF Earlier
  <2>3. PICK f \in [0 .. n -> V] : Solves(f, n, c, pre, F)
    <3> HIDE DEF F, pre
    <3> QED
      BY <1>3, <2>1, <2>2, Recursion
  <2>4. ASSUME NEW i \in 1 .. n
        PROVE  f[i] = IF i < 10 THEN <<Digits[i + 1]>> ELSE f[i \div 10] \o LastDigit(i)
    <3>1. i \div 10 \in 0 .. n
      BY ByTen
    <3>2. f[i \div 10] \in V /\ pre[i] = i \div 10
      BY <3>1
    <3> QED
      BY <2>3, <3>2 DEF Solves
  <2>5. f[0] = <<Digits[0 + 1]>>
    BY <2>3 DEF Solves, c
  <2>6. DecimalEqs(n, f)
    <3> DEFINE R(i) == IF i < 10 THEN <<Digits[i + 1]>> ELSE f[i \div 10] \o LastDigit(i)
    <3>1. \A i \in 0 .. n : f[i] = R(i)
      <4>1. \A i \in 0 .. n : i = 0 \/ i \in 1 .. n
        OBVIOUS
      <4>2. R(0) = <<Digits[0 + 1]>>
        OBVIOUS
      <4>3. \A i \in 1 .. n : f[i] = R(i)
        BY <2>4
      <4> HIDE DEF R
      <4> QED
        BY <2>5, <4>1, <4>2, <4>3
    <3>2. f = [i \in 0 .. n |-> R(i)]
      <4> HIDE DEF R
      <4> QED
        BY <3>1
    <3> QED
      BY <3>2 DEF DecimalEqs
  <2> QED
    BY <2>6
<1>6. DecimalEqs(n, dec)
  BY <1>5
<1> HIDE DEF dec
<1>7. \A i \in 0 .. n : dec[i] = IF i < 10 THEN <<Digits[i + 1]>> ELSE dec[i \div 10] \o LastDigit(i)
  <2> DEFINE R(i) == IF i < 10 THEN <<Digits[i + 1]>> ELSE dec[i \div 10] \o LastDigit(i)
  <2>1. dec = [i \in 0 .. n |-> R(i)]
    BY <1>6 DEF DecimalEqs
  <2>2. \A i \in 0 .. n : dec[i] = R(i)
    <3> HIDE DEF R
    <3> QED
      BY <2>1
  <2> QED
    BY <2>2
<1> QED
  BY <1>1, <1>7 DEF DecimalSteps

\* The text of a number, which Number reads back.
Numeral(A, text, i) == text \in Seq(A) /\ text # <<>> /\ Numeric(text) /\ Number(text) = i

\* The digits of a longer number.
LEMMA LongerNumeral ==
    ASSUME NEW A, ToSet(Digits) \subseteq A, NEW text \in Seq(A), Numeric(text), Number(text) \in Nat,
           NEW d \in 0 .. 9
    PROVE  Numeral(A, Append(text, Digits[d + 1]), 10 * Number(text) + d)
<1> DEFINE c == Digits[d + 1]
           longer == Append(text, c)
           n == Len(text)
<1>1. c \in ToSet(Digits) /\ c \in A
  <2>1. d + 1 \in DOMAIN Digits
    BY TenDigits
  <2> QED
    BY <2>1 DEF ToSet
<1>2. Number(longer) = 10 * Number(text) + d
  BY NumberAppend
<1> HIDE DEF c
<1>3. /\ longer \in Seq(A) /\ longer # <<>> /\ Len(longer) = n + 1 /\ longer[n + 1] = c
      /\ \A i \in 1 .. n : longer[i] = text[i]
  BY <1>1, AppendProperties DEF n
<1> HIDE DEF longer
<1>4. Numeric(longer)
  <2>1. n \in Nat
    OBVIOUS
  <2>2. ASSUME NEW i \in 1 .. n + 1 PROVE longer[i] \in ToSet(Digits)
    <3>1. i \in 1 .. n \/ i = n + 1
      BY <2>1
    <3> QED
      BY <1>1, <1>3, <3>1 DEF Numeric
  <2> QED
    BY <1>3, <2>2 DEF Numeric
<1> QED
  BY <1>2, <1>3, <1>4 DEF Numeral, longer, c

\* Decimal writes what Number reads.
LEMMA DecimalNumeral ==
    ASSUME NEW A, ToSet(Digits) \subseteq A, NEW n \in Nat
    PROVE  Numeral(A, Decimal(n), n)
<1>1. PICK f : DecimalSteps(n, f)
  BY DecimalComputes
<1> DEFINE T == {i \in 0 .. n : ~Numeral(A, f[i], i)}
<1>2. SUFFICES ASSUME T # {} PROVE FALSE
  <2>1. n \in 0 .. n
    OBVIOUS
  <2> QED
    BY <1>1, <2>1 DEF DecimalSteps
<1>3. PICK x \in T : \A y \in T : x <= y
  <2>1. T \in SUBSET Nat
    OBVIOUS
  <2> HIDE DEF T
  <2> QED
    BY <1>2, <2>1, LeastNat
<1>4. x \in 0 .. n /\ ~Numeral(A, f[x], x)
  BY <1>3
<1>5. \A d \in 0 .. 9 : Digits[d + 1] \in A
  <2>1. \A d \in 0 .. 9 : d + 1 \in DOMAIN Digits
    BY TenDigits
  <2>2. \A d \in 0 .. 9 : Digits[d + 1] \in ToSet(Digits)
    BY <2>1 DEF ToSet
  <2> QED
    BY <2>2
<1>6. CASE x < 10
  <2> DEFINE e == <<>>
             c == Digits[x + 1]
  <2>1. e \in Seq(A) /\ Len(e) = 0 /\ Numeric(e)
    BY DEF Numeric
  <2>2. Number(e) = 0
    <3> HIDE DEF e
    <3>1. Len(e) \in Nat
      BY <2>1
    <3>2. PICK g \in [0 .. Len(e) -> Nat] : NumberSteps(e, g)
      BY <2>1, <3>1, NumberComputes
    <3> QED
      BY <2>1, <3>2 DEF NumberSteps
  <2>3. x \in 0 .. 9
    BY <1>4, <1>6
  <2>4. Numeral(A, Append(e, c), 10 * Number(e) + x)
    <3>1. Number(e) \in Nat
      BY <2>2
    <3> HIDE DEF e
    <3> QED
      BY <2>1, <2>3, <3>1, LongerNumeral
  <2>5. Append(e, c) = <<c>> /\ 10 * Number(e) + x = x
    BY <2>2, <2>3
  <2>6. f[x] = <<c>>
    BY <1>1, <1>4, <1>6 DEF DecimalSteps
  <2> HIDE DEF e, c
  <2> QED
    BY <1>4, <2>4, <2>5, <2>6
<1>7. CASE ~ (x < 10)
  <2> DEFINE q == x \div 10
             d == x % 10
             c == Digits[d + 1]
             text == f[q]
  <2>1. q \in Nat /\ d \in 0 .. 9 /\ x = 10 * q + d /\ q < x /\ q \in 0 .. n
    BY <1>4, <1>7, ByTen
  <2>2. f[x] = text \o <<c>>
    BY <1>1, <1>4, <1>7 DEF DecimalSteps, LastDigit
  <2> HIDE DEF q, d
  <2>3. q \notin T
    BY <1>3, <1>4, <2>1
  <2>4. Numeral(A, text, q)
    BY <2>1, <2>3
  <2> HIDE DEF text
  <2>5. text \in Seq(A) /\ Numeric(text) /\ Number(text) = q
    BY <2>4 DEF Numeral
  <2>6. Numeral(A, Append(text, c), 10 * Number(text) + d)
    BY <2>1, <2>5, LongerNumeral
  <2>7. c \in A
    BY <1>5, <2>1
  <2> HIDE DEF c
  <2>8. Append(text, c) = text \o <<c>>
    BY <2>5, <2>7, AppendIsConcat
  <2>9. 10 * Number(text) + d = x
    BY <2>1, <2>5
  <2> QED
    BY <1>4, <2>2, <2>6, <2>8, <2>9
<1> QED
  BY <1>6, <1>7

\* What names, labels and addresses are made of.
Symbols == STRING \cup ToSet(Digits) \cup {":", "-", "_", "egress"}

\* A text of a label is a text of these.
LEMMA TextSymbols == ASSUME NEW text \in Seq(STRING) PROVE text \in Seq(Symbols)
<1>1. STRING \subseteq Symbols
  BY Zenon DEF Symbols
<1>2. ASSUME NEW S, NEW T, S \subseteq T, NEW s \in Seq(S) PROVE s \in Seq(T)
  BY <1>2
<1> QED
  BY <1>1, <1>2, Zenon

\* A gateway reads back from the address of a target that target.
LEMMA AddressReadBack ==
    ASSUME NEW t \in TargetsOf(Symbols)
    PROVE  /\ parseEgressTargets(addr(t)).ok
           /\ parseEgressTargets(addr(t)).out = <<t>>
<1> DEFINE A == Symbols
           h == t.host
           p == t.port
           d == Decimal(p)
           c == ":"
<1>1. ToSet(Digits) \subseteq A /\ c \in A
  BY Zenon DEF Symbols
<1>2. h \in Seq(A) /\ p \in 1 .. MaxPort /\ IsHost(h) /\ t = [host |-> h, port |-> p]
  BY DEF TargetsOf
<1>3. Numeral(A, d, p)
  <2>1. p \in Nat
    BY <1>2, MaxPortAssumption
  <2> HIDE DEF A, p
  <2> QED
    BY <1>1, <2>1, DecimalNumeral
<1>4. d \in Seq(A) /\ d # <<>> /\ Numeric(d) /\ Number(d) = p
  BY <1>3 DEF Numeral
<1>5. addr(t) = h \o <<c>> \o d
  BY DEF addr
<1> HIDE DEF A, h, p, d, c
<1>6. addr(t) \in Seq(A) /\ Joined(addr(t), h, c, d)
  BY <1>1, <1>2, <1>4, <1>5, JoinedPlaces
<1>7. Joined(addr(t), h, ":", d)
  BY <1>6 DEF c
<1> QED
  BY <1>2, <1>4, <1>6, <1>7, ReadBack

\* Two targets have the same address only if they are the same.
LEMMA AddressesDiffer ==
    ASSUME NEW t \in TargetsOf(Symbols), NEW u \in TargetsOf(Symbols), addr(t) = addr(u)
    PROVE  t = u
<1>1. <<t>> = <<u>>
  BY AddressReadBack
<1> QED
  BY <1>1

\* Whether gatewayHostname cuts a name.
LongName(eg, t) == ~ (Len(eg.hostname \o <<"-">> \o t.host) <= MaxHostname)

\* A name that is not cut ends with the host.
LEMMA ShortNameEnds ==
    ASSUME NEW eg, eg.hostname \in Seq(Symbols), NEW t \in TargetsOf(Symbols), ~LongName(eg, t)
    PROVE  LET name == gatewayHostname(eg, t) IN
           /\ Joined(name, eg.hostname, "-", t.host)
           /\ name # <<>>
           /\ name[Len(name)] \in ToSet(t.host)
<1> DEFINE A == Symbols
           e == eg.hostname
           h == t.host
           c == "-"
           name == e \o <<c>> \o h
<1>1. gatewayHostname(eg, t) = name
  BY DEF gatewayHostname, LongName
<1>2. c \in A
  BY Zenon DEF Symbols
<1>3. e \in Seq(A) /\ h \in Seq(A) /\ h # <<>>
  BY DEF TargetsOf, IsHost
<1> HIDE DEF A, e, h, c
<1>4. name \in Seq(A) /\ Joined(name, e, c, h)
  BY <1>2, <1>3, JoinedPlaces
<1> HIDE DEF name
<1>5. Len(e) \in Nat /\ Len(h) \in Nat /\ Len(h) >= 1
  BY <1>3
<1>6. Len(h) \in 1 .. Len(h) /\ Len(name) = Len(e) + 1 + Len(h)
  BY <1>4, <1>5 DEF Joined
<1>7. name[Len(name)] = h[Len(h)]
  BY <1>4, <1>6 DEF Joined
<1>8. h[Len(h)] \in ToSet(h)
  BY <1>3, <1>6 DEF ToSet
<1>9. name # <<>>
  BY <1>5, <1>6
<1> QED
  BY <1>1, <1>4, <1>7, <1>8, <1>9 DEF c, e, h

\* A name that is cut ends with the digest of the target.
LEMMA LongNameEnds ==
    ASSUME NEW eg, eg.hostname \in Seq(Symbols), NEW t \in TargetsOf(Symbols), LongName(eg, t)
    PROVE  LET name == gatewayHostname(eg, t) IN
           name # <<>> /\ name[Len(name)] = Digest(addr(t))
<1> DEFINE D == Digest(addr(t))
           A == Symbols \cup {D}
           c == "-"
           full == eg.hostname \o <<c>> \o t.host
           m == MaxHostname - DigestLen
           cut == SubSeq(full, 1, m)
           name == cut \o <<D>>
<1>1. gatewayHostname(eg, t) = name /\ Len(full) > MaxHostname
  <2>1. ~ (Len(full) <= MaxHostname)
    BY DEF LongName
  <2>2. full \in Seq(Symbols)
    <3>1. c \in Symbols
      BY Zenon DEF Symbols
    <3>2. t.host \in Seq(Symbols)
      BY DEF TargetsOf
    <3> HIDE DEF c
    <3> QED
      BY <3>1, <3>2, JoinedPlaces
  <2>3. gatewayHostname(eg, t) = name
    BY <2>1 DEF gatewayHostname
  <2> HIDE DEF full
  <2>4. Len(full) \in Nat
    BY <2>2, LenProperties, Zenon
  <2> QED
    BY <2>1, <2>3, <2>4, HostnameAssumption
<1>2. full \in Seq(A)
  <2>1. c \in A /\ Symbols \subseteq A
    BY Zenon DEF Symbols
  <2>2. t.host \in Seq(Symbols)
    BY DEF TargetsOf
  <2> HIDE DEF c, A
  <2>3. t.host \in Seq(A) /\ eg.hostname \in Seq(A)
    BY <2>1, <2>2
  <2> QED
    BY <2>1, <2>3, JoinedPlaces
<1>3. D \in A
  OBVIOUS
<1> HIDE DEF A, D, full
<1>4. cut \in Seq(A)
  <2>1. m \in Int /\ m <= Len(full) /\ Len(full) \in Nat
    BY <1>1, <1>2, HostnameAssumption
  <2>2. \A i \in 1 .. m : i \in 1 .. Len(full)
    BY <2>1
  <2>3. \A i \in 1 .. m : full[i] \in A
    BY <1>2, <2>2, ElementOfSeq, Zenon
  <2> HIDE DEF m
  <2> QED
    BY <1>2, <2>1, <2>3, SubSeqProperties
<1> HIDE DEF cut
<1>5. name = Append(cut, D)
  BY <1>3, <1>4, AppendIsConcat
<1>6. name # <<>> /\ Len(name) = Len(cut) + 1 /\ name[Len(cut) + 1] = D
  BY <1>3, <1>4, <1>5, AppendProperties
<1> HIDE DEF name
<1> QED
  BY <1>1, <1>6 DEF D

\* A digest tells targets apart and is no part of a host.
Distinct(t, u) == /\ Digest(addr(t)) = Digest(addr(u)) => addr(t) = addr(u)
                  /\ Digest(addr(t)) \notin ToSet(u.host)
                  /\ Digest(addr(u)) \notin ToSet(t.host)

\* Targets on two hosts have gateways of two names.
LEMMA NamesDiffer ==
    ASSUME NEW eg, eg.hostname \in Seq(Symbols),
           NEW t \in TargetsOf(Symbols), NEW u \in TargetsOf(Symbols), t.host # u.host, Distinct(t, u)
    PROVE  gatewayHostname(eg, u) # gatewayHostname(eg, t)
<1> DEFINE m == gatewayHostname(eg, t)
           n == gatewayHostname(eg, u)
<1> SUFFICES ASSUME m = n PROVE FALSE
  OBVIOUS
<1>1. CASE LongName(eg, t) /\ LongName(eg, u)
  <2>1. Digest(addr(t)) = Digest(addr(u))
    BY <1>1, LongNameEnds
  <2>2. addr(t) = addr(u)
    BY <2>1 DEF Distinct
  <2> QED
    BY <2>2, AddressesDiffer
<1>2. CASE LongName(eg, t) /\ ~LongName(eg, u)
  <2>1. m[Len(m)] = Digest(addr(t))
    BY <1>2, LongNameEnds
  <2>2. n[Len(n)] \in ToSet(u.host)
    BY <1>2, ShortNameEnds
  <2> QED
    BY <2>1, <2>2 DEF Distinct
<1>3. CASE ~LongName(eg, t) /\ LongName(eg, u)
  <2>1. n[Len(n)] = Digest(addr(u))
    BY <1>3, LongNameEnds
  <2>2. m[Len(m)] \in ToSet(t.host)
    BY <1>3, ShortNameEnds
  <2> QED
    BY <2>1, <2>2 DEF Distinct
<1>4. CASE ~LongName(eg, t) /\ ~LongName(eg, u)
  <2> DEFINE e == eg.hostname
             h == t.host
             g == u.host
  <2>1. Joined(m, e, "-", h) /\ Joined(m, e, "-", g)
    BY <1>4, ShortNameEnds
  <2>2. h \in Seq(Symbols) /\ g \in Seq(Symbols)
    BY DEF TargetsOf
  <2> HIDE DEF m, e, h, g
  <2>3. Len(e) \in Nat /\ Len(h) \in Nat /\ Len(g) \in Nat
    <3>1. e \in Seq(Symbols)
      BY DEF e
    <3> QED
      BY <2>2, <3>1, LenProperties, Zenon
  <2>4. Len(h) = Len(g)
    BY <2>1, <2>3 DEF Joined
  <2>5. \A x \in 1 .. Len(h) : h[x] = g[x]
    BY <2>1, <2>4 DEF Joined
  <2>6. h = g
    BY <2>2, <2>4, <2>5, SeqEqual
  <2> QED
    BY <2>6 DEF h, g
<1> QED
  BY <1>1, <1>2, <1>3, <1>4
-----------------------------------------------------------------------------
\* The invariant holds when the daemon starts.
LEMMA InitIInv == Init => IInv
<1> SUFFICES ASSUME Init PROVE IInv
  OBVIOUS
<1> USE DEF Init, Idle
<1>1. TypeOK
  BY DEF TypeOK
<1>2. Shape /\ NotYet /\ Parsed
  BY DEF Shape, NotYet, Parsed
<1>3. HadName /\ CacheResolved /\ JobsResolved
  BY MintingConstants DEF HadName, CacheResolved, JobsResolved
<1>4. KeyOfConfiguredUser /\ TagChecked /\ TagText /\ SpecOfRequest
  BY DEF KeyOfConfiguredUser, TagChecked, TagText, SpecOfRequest
<1>5. Loaded
  BY DEF Loaded
<1> QED
  BY <1>1, <1>2, <1>3, <1>4, <1>5 DEF IInv

\* Start-up keeps it: nothing has been minted yet, and the daemon begins to
\* run with its services parsed.
LEMMA StartIInv == IInv /\ (LoadConfig \/ DiscoverImage) => IInv'
<1> SUFFICES ASSUME IInv, LoadConfig \/ DiscoverImage PROVE IInv'
  OBVIOUS
<1> USE DEF IInv
<1>1. /\ cache = None /\ minted = {}
      /\ \A w \in Workers : job[w] = Idle /\ got[w] = {}
      /\ phase' \in {"image", "running", "exited"}
      /\ UNCHANGED <<boot, users, named, svc, cache, job, got, minted>>
  BY DEF NotYet, LoadConfig, DiscoverImage, scene
<1>2. /\ TypeOK' /\ Shape' /\ NotYet' /\ HadName' /\ CacheResolved' /\ JobsResolved'
      /\ KeyOfConfiguredUser' /\ TagChecked' /\ TagText' /\ SpecOfRequest'
  BY <1>1 DEF TypeOK, Shape, NotYet, HadName, CacheResolved, JobsResolved, KeyOfConfiguredUser,
              TagChecked, TagText, SpecOfRequest, Idle, Resolved
<1>3. Parsed'
  BY DEF Parsed, LoadConfig, DiscoverImage, scene
<1>4. Loaded'
  <2>1. Loadable' = Loadable /\ svc' = svc
    BY <1>1 DEF Loadable
  <2>2. CASE LoadConfig
    <3>1. \/ cfg' \in Loadable /\ phase' = "image"
          \/ cfg' = Unset /\ phase' = "exited"
      BY <2>2 DEF LoadConfig, Loadable, Loaded
    <3> QED
      BY <2>1, <3>1 DEF Loaded
  <2>3. CASE DiscoverImage
    <3>1. cfg' = cfg /\ cfg \in Loadable /\ phase' \in {"running", "exited"}
      BY <2>3 DEF DiscoverImage, Loaded
    <3> QED
      BY <2>1, <3>1 DEF Loaded
  <2> QED
    BY <2>2, <2>3
<1> QED
  BY <1>2, <1>3, <1>4

\* A worker's step keeps it.
LEMMA MintIInv == ASSUME IInv, NEW w \in Workers, Mint(w) PROVE IInv'
<1> USE DEF IInv
<1>1. /\ phase = "running"
      /\ UNCHANGED <<phase, boot, cfg, image, tgt, users, named, svc>>
  <2>1. UNCHANGED <<daemon, scene>> /\ phase = "running"
    <3>1. CASE Begin(w) \/ Limit(w) \/ ReadCache(w)
      BY <3>1 DEF Begin, Limit, ReadCache, At
    <3>2. CASE LookupOk(w) \/ WriteCache(w) \/ RequestFails(w)
      BY <3>2 DEF LookupOk, WriteCache, RequestFails, At
    <3>3. CASE PostOk(w)
      BY <3>3 DEF PostOk, At
    <3> QED
      BY <3>1, <3>2, <3>3 DEF Mint
  <2> QED
    BY <2>1 DEF daemon, scene
<1>2. NotYet' /\ Parsed' /\ Loaded' /\ HadName'
  BY <1>1 DEF NotYet, Parsed, Loaded, Loadable, HadName
<1>3. \A v \in Workers : Requests(v)' = Requests(v)
  BY <1>1 DEF Requests
<1>4. CASE Begin(w)
  <2>1. PICK r \in Requests(w) : job' = [job EXCEPT ![w] = [Idle EXCEPT !.pc = "limit", !.req = {r}]]
    BY <1>4 DEF Begin
  <2>2. /\ DOMAIN job' = Workers
        /\ job'[w] = [pc |-> "limit", req |-> {r}, id |-> None]
        /\ \A v \in Workers \ {w} : job'[v] = job[v]
    BY <2>1 DEF Shape, Idle
  <2>3. UNCHANGED <<cache, got>> /\ minted' = {}
    BY <1>4 DEF Begin
  <2> QED
    BY <1>1, <1>2, <1>3, <2>2, <2>3 DEF TypeOK, Shape, CacheResolved, JobsResolved, Resolved,
       KeyOfConfiguredUser, TagChecked, TagText, SpecOfRequest
<1>5. CASE Limit(w) \/ RequestFails(w)
  <2>1. /\ DOMAIN job' = Workers
        /\ job'[w] = Idle \/ (job'[w] = [pc |-> "cache", req |-> job[w].req, id |-> job[w].id])
        /\ \A v \in Workers \ {w} : job'[v] = job[v]
    BY <1>5 DEF Shape, Limit, RequestFails, Goto, Fail
  <2>2. UNCHANGED <<cache, got>> /\ minted' = {}
    BY <1>5 DEF Limit, RequestFails
  <2> QED
    BY <1>1, <1>2, <1>3, <2>1, <2>2 DEF TypeOK, Shape, CacheResolved, JobsResolved, Resolved,
       KeyOfConfiguredUser, TagChecked, TagText, SpecOfRequest, Idle
<1>6. CASE ReadCache(w)
  <2>1. /\ DOMAIN job' = Workers
        /\ job'[w] = [pc |-> IF cache = None THEN "lookup" ELSE "post", req |-> job[w].req, id |-> cache]
        /\ \A v \in Workers \ {w} : job'[v] = job[v]
    BY <1>6 DEF Shape, ReadCache
  <2>2. UNCHANGED <<cache, got>> /\ minted' = {}
    BY <1>6 DEF ReadCache
  <2> QED
    BY <1>1, <1>2, <1>3, <2>1, <2>2 DEF TypeOK, Shape, CacheResolved, JobsResolved, Resolved,
       KeyOfConfiguredUser, TagChecked, TagText, SpecOfRequest
<1>7. CASE LookupOk(w)
  <2>1. PICK i \in UserIds : /\ users[i] \in Names /\ users[i] = cfg.user
                             /\ job' = [job EXCEPT ![w] = [pc |-> "write", req |-> @.req, id |-> i]]
    BY <1>7 DEF LookupOk
  <2>2. /\ DOMAIN job' = Workers
        /\ job'[w] = [pc |-> "write", req |-> job[w].req, id |-> i]
        /\ \A v \in Workers \ {w} : job'[v] = job[v]
    BY <2>1 DEF Shape
  <2>3. Resolved(i)
    BY <2>1 DEF HadName, Resolved
  <2>4. UNCHANGED <<cache, got>> /\ minted' = {}
    BY <1>7 DEF LookupOk
  <2> QED
    BY <1>1, <1>2, <1>3, <2>2, <2>3, <2>4 DEF TypeOK, Shape, CacheResolved, JobsResolved, Resolved,
       KeyOfConfiguredUser, TagChecked, TagText, SpecOfRequest
<1>8. CASE WriteCache(w)
  <2>1. /\ DOMAIN job' = Workers
        /\ job'[w] = [pc |-> "post", req |-> job[w].req, id |-> job[w].id]
        /\ \A v \in Workers \ {w} : job'[v] = job[v]
    BY <1>8 DEF Shape, WriteCache, Goto
  <2>2. Resolved(job[w].id)
    BY <1>8 DEF WriteCache, At, JobsResolved
  <2>3. cache' = job[w].id /\ got' = got /\ minted' = {}
    BY <1>8 DEF WriteCache
  <2> QED
    BY <1>1, <1>2, <1>3, <2>1, <2>2, <2>3 DEF TypeOK, Shape, CacheResolved, JobsResolved, Resolved,
       KeyOfConfiguredUser, TagChecked, TagText, SpecOfRequest
<1>9. CASE PostOk(w)
  <2>1. PICK r \in job[w].req :
            /\ got' = [got EXCEPT ![w] = @ \cup {r}]
            /\ minted' = {[worker |-> w, req |-> r, user |-> job[w].id, spec |-> GatewaySpecs(w, r)]}
    BY <1>9 DEF PostOk
  <2>2. /\ DOMAIN job' = Workers
        /\ job'[w] = Idle
        /\ \A v \in Workers \ {w} : job'[v] = job[v]
    BY <1>9 DEF Shape, PostOk, Fail
  <2>3. /\ DOMAIN got' = Workers
        /\ got'[w] = got[w] \cup {r}
        /\ \A v \in Workers \ {w} : got'[v] = got[v]
    BY <2>1 DEF Shape
  <2>4. Resolved(job[w].id) /\ r \in Requests(w)
    BY <1>1, <1>9, <2>1 DEF PostOk, At, JobsResolved, TypeOK
  <2>5. /\ tagAllowed(r.tag, derivedTag(svc[w]), cfg.allowedTags)
        /\ r.tag = derivedTag(svc[w]) \/ r.tag \in Seq(STRING)
    BY <1>1, <2>4, RequestsAllowed DEF Parsed, Loaded, TypeOK
  <2>6. KeyOfConfiguredUser' /\ TagChecked' /\ TagText'
    <3> SUFFICES ASSUME NEW k \in minted'
                 PROVE  /\ cfg.user \in named[k.user]
                        /\ tagAllowed(k.req.tag, derivedTag(svc[k.worker]), cfg.allowedTags)
                        /\ k.req.tag = derivedTag(svc[k.worker]) \/ k.req.tag \in Seq(STRING)
      BY <1>1 DEF KeyOfConfiguredUser, TagChecked, TagText
    <3>1. k.worker = w /\ k.req = r /\ k.user = job[w].id
      BY <2>1
    <3> QED
      BY <3>1, <2>4, <2>5 DEF Resolved
  <2>7. UNCHANGED cache
    BY <1>9 DEF PostOk
  <2>8. SpecOfRequest'
    <3> SUFFICES ASSUME NEW k \in minted'
                 PROVE  /\ k.worker \in Workers
                        /\ k.req \in Requests(k.worker)'
                        /\ k.spec = GatewaySpecs(k.worker, k.req)'
      BY DEF SpecOfRequest
    <3>1. k.worker = w /\ k.req = r /\ k.spec = GatewaySpecs(w, r)
      BY <2>1
    <3>2. GatewaySpecs(w, r)' = GatewaySpecs(w, r)
      BY <1>1 DEF GatewaySpecs
    <3> QED
      BY <1>3, <2>4, <3>1, <3>2
  <2> QED
    BY <1>1, <1>2, <1>3, <2>2, <2>3, <2>4, <2>6, <2>7, <2>8 DEF TypeOK, Shape, CacheResolved, JobsResolved,
       Resolved, Idle
<1> QED
  BY <1>4, <1>5, <1>6, <1>7, <1>8, <1>9 DEF Mint

\* Renaming, deleting and creating users keeps it: an ID never loses a name
\* from its history.
LEMMA AdminIInv ==
    ASSUME IInv, NEW i \in UserIds, RenameUser(i) \/ DeleteUser(i) \/ CreateUser(i) PROVE IInv'
<1> USE DEF IInv
<1>1. PICK n \in Names \cup {None} : SetUser(i, n)
  BY DEF RenameUser, DeleteUser, CreateUser
<1>2. /\ users' = [users EXCEPT ![i] = n]
      /\ named' = [named EXCEPT ![i] = @ \cup ({n} \cap Names)]
      /\ minted' = {}
      /\ UNCHANGED <<phase, boot, cfg, image, tgt, svc, cache, job, got>>
  BY <1>1 DEF SetUser, daemon
<1>3. named' \in [UserIds -> SUBSET Names] /\ \A j \in UserIds : named[j] \subseteq named'[j]
  BY <1>2 DEF Shape
<1>4. \A w \in Workers : Requests(w)' = Requests(w)
  BY <1>2 DEF Requests
<1>5. TypeOK'
  BY <1>2, <1>4 DEF TypeOK
<1>6. /\ Shape' /\ NotYet' /\ Parsed' /\ Loaded'
      /\ KeyOfConfiguredUser' /\ TagChecked' /\ TagText' /\ SpecOfRequest'
  BY <1>2, <1>3 DEF Shape, NotYet, Parsed, Loaded, Loadable, KeyOfConfiguredUser, TagChecked, TagText,
                    SpecOfRequest
<1>7. HadName'
  BY <1>2, <1>3, MintingConstants DEF HadName, TypeOK, Shape
<1>8. CacheResolved' /\ JobsResolved'
  BY <1>2, <1>3 DEF CacheResolved, JobsResolved, Resolved
<1> QED
  BY <1>5, <1>6, <1>7, <1>8

\* Every step keeps the invariant.
LEMMA Inductive == IInv /\ [Next]_vars => IInv'
<1> SUFFICES ASSUME IInv, [Next]_vars PROVE IInv'
  OBVIOUS
<1>1. CASE LoadConfig \/ DiscoverImage
  BY <1>1, StartIInv
<1>2. CASE \E w \in Workers : Mint(w)
  BY <1>2, MintIInv
<1>3. CASE \E i \in UserIds : RenameUser(i) \/ DeleteUser(i) \/ CreateUser(i)
  BY <1>3, AdminIInv
<1>4. CASE UNCHANGED vars
  <2>1. UNCHANGED <<phase, boot, cfg, image, users, named, cache, svc, tgt, job, got, minted>>
    BY <1>4 DEF vars
  <2>2. /\ \A w \in Workers : Requests(w)' = Requests(w)
        /\ \A w, r : GatewaySpecs(w, r)' = GatewaySpecs(w, r)
    BY <2>1 DEF Requests, GatewaySpecs
  <2>3. TypeOK' /\ SpecOfRequest'
    BY <2>1, <2>2 DEF IInv, TypeOK, SpecOfRequest
  <2> QED
    BY <2>1, <2>3 DEF IInv, Shape, NotYet, Parsed, HadName, CacheResolved, JobsResolved,
       Resolved, KeyOfConfiguredUser, TagChecked, TagText, Loaded, Loadable
<1> QED
  BY <1>1, <1>2, <1>3, <1>4 DEF Next, Settled
-----------------------------------------------------------------------------
\* The process has its types, and no worker ever asks for a key its service's
\* labels do not call for.
THEOREM TypeCorrect == Spec => []TypeOK
<1>1. IInv => TypeOK
  BY DEF IInv
<1> QED
  BY InitIInv, Inductive, <1>1, PTL DEF Spec

\* Headscale.CreateEphemeralKey mints for a user that has had the configured
\* name, whichever worker filled the cache, in whatever order the two holds of
\* its mutex and the administrator's renames fall.
THEOREM KeysOfConfiguredUser == Spec => []KeyOfConfiguredUser
<1>1. IInv => KeyOfConfiguredUser
  BY DEF IInv
<1> QED
  BY InitIInv, Inductive, <1>1, PTL DEF Spec

\* The patterns a start-up loads are texts, and the operator's.
LEMMA LoadedPatterns ==
    ASSUME boot \in Boots, NEW c \in Loadable
    PROVE  c.allowedTags \in Seq(Seq(STRING)) /\ ToSet(c.allowedTags) = OperatorPatterns
<1> DEFINE env  == boot.env
           file == boot.file
           base == mergeConfig(defaultConfig, file)
<1>1. "allowedTags" \in Settings
  BY DEF Settings, defaultConfig
<1>2. file # Unreadable /\ c.allowedTags = applyEnv(base, env).allowedTags
  <2> DEFINE merged == applyEnv(base, env)
  <2>1. /\ file # Unreadable
        /\ c = merged \/ c = [merged EXCEPT !.apiKey = boot.keyFile]
    BY DEF Loadable, Load
  <2>2. merged = [f \in Settings |-> merged[f]]
    BY DEF applyEnv, mergeConfig
  <2>3. c.allowedTags = merged.allowedTags
    <3> HIDE DEF merged
    <3> QED
      BY <1>1, <2>1, <2>2
  <2> QED
    BY <2>1, <2>3
<1>3. env.allowedTags \in Seq(STRING) \cup {Unset} /\ file.allowedTags \in Seq(Seq(STRING)) \cup {Unset}
  BY <1>2, BootTexts
<1>4. base.allowedTags = IF file.allowedTags = Unset THEN <<>> ELSE file.allowedTags
  BY <1>1 DEF mergeConfig, defaultConfig
<1>5. CASE env.allowedTags = Unset
  <2>1. c.allowedTags = base.allowedTags
    BY <1>1, <1>2, <1>5 DEF applyEnv, mergeConfig
  <2>2. ToSet(<<>>) = {} /\ <<>> \in Seq(Seq(STRING))
    BY DEF ToSet
  <2> HIDE DEF base
  <2> QED
    BY <1>3, <1>4, <1>5, <2>1, <2>2 DEF OperatorPatterns
<1>6. CASE env.allowedTags # Unset
  <2> DEFINE tags == TagList(env.allowedTags)
  <2>1. /\ tags \in Seq(Seq(STRING))
        /\ ToSet(tags) = {Trim(piece) : piece \in ToSet(CommaList(env.allowedTags))} \ {<<>>}
    BY <1>3, <1>6, TagListPatterns
  <2>2. tags # Unset
    BY <2>1, UnsetAssumption
  <2> DEFINE set == [env EXCEPT !.allowedTags = tags]
  <2>3. applyEnv(base, env) = mergeConfig(base, set)
    BY <1>6 DEF applyEnv
  <2>4. c.allowedTags = IF set.allowedTags = Unset THEN base.allowedTags ELSE set.allowedTags
    <3> HIDE DEF base, set
    <3> QED
      BY <1>1, <1>2, <2>3 DEF mergeConfig
  <2>5. set.allowedTags = tags
    OBVIOUS
  <2> HIDE DEF tags, set, base
  <2> QED
    BY <1>6, <2>1, <2>2, <2>4, <2>5 DEF OperatorPatterns
<1> QED
  BY <1>5, <1>6

\* No key is minted for a tag the operator did not allow, whatever the labels,
\* the namespace and the settings are: Parse checks the tag the key gets, under
\* the operator's patterns and no others, and matchGlob is right about them.
THEOREM MintedTagsAllowed == Spec => []MintedTagAllowed
<1>1. IInv => MintedTagAllowed
  <2> SUFFICES ASSUME IInv PROVE MintedTagAllowed
    OBVIOUS
  <2>1. boot \in Boots /\ TagChecked /\ TagText /\ Loaded /\ NotYet
    BY DEF IInv, TypeOK
  <2>2. cfg # Unset => ToSet(cfg.allowedTags) = OperatorPatterns
    BY <2>1, LoadedPatterns DEF Loaded
  <2>3. ASSUME NEW k \in minted, k.req.tag # derivedTag(svc[k.worker])
        PROVE  \E p \in OperatorPatterns : GlobMatches(p, k.req.tag)
    <3>1. phase = "running"
      BY <2>1 DEF NotYet
    <3>2. cfg \in Loadable
      BY <2>1, <3>1 DEF Loaded
    <3> DEFINE list == cfg.allowedTags
    <3>3. list \in Seq(Seq(STRING)) /\ ToSet(list) = OperatorPatterns
      BY <2>1, <3>2, LoadedPatterns
    <3>4. k.req.tag \in Seq(STRING)
      BY <2>1, <2>3 DEF TagText
    <3>5. PICK i \in DOMAIN list : matchGlob(list[i], k.req.tag)
      BY <2>1, <2>3 DEF TagChecked, tagAllowed
    <3> HIDE DEF list
    <3>6. list[i] \in Seq(STRING) /\ list[i] \in ToSet(list)
      BY <3>3, <3>5 DEF ToSet
    <3>7. GlobMatches(list[i], k.req.tag)
      BY <3>4, <3>5, <3>6, MatchGlobCorrect
    <3> QED
      BY <3>3, <3>6, <3>7
  <2> QED
    BY <2>2, <2>3 DEF MintedTagAllowed
<1> QED
  BY InitIInv, Inductive, <1>1, PTL DEF Spec

\* A gateway's name begins with a text.
LEMMA EgressHostname ==
    ASSUME NEW s, NEW labels, NEW c, {s.name, s.stack, labels.egHostname} \subseteq Seq(STRING)
    PROVE  parseEgress(s, labels, Networks, c).hostname \in Seq(Symbols)
<1> DEFINE A == Symbols
           name == s.name
           stack == s.stack
           u == "_"
           d == "-"
           e == "egress"
           prefix == stack \o <<u>>
           short == shortName(s)
           base == baseName(s)
<1>1. u \in A /\ d \in A /\ e \in A
  BY Zenon DEF Symbols
<1>2. name \in Seq(A) /\ stack \in Seq(A) /\ labels.egHostname \in Seq(A)
  BY TextSymbols
<1>3. short = (IF IsPrefix(prefix, name) THEN Drop(name, Len(prefix)) ELSE name)
  BY DEF shortName
<1>4. base = (IF stack = <<>> THEN <<>> ELSE stack \o <<d>>) \o short
  BY DEF baseName
<1>5. parseEgress(s, labels, Networks, c).hostname = Or(labels.egHostname, base \o <<d, e>>)
  BY DEF parseEgress
<1> HIDE DEF A, name, stack, u, d, e, base, short
<1>6. Drop(name, Len(prefix)) \in Seq(A)
  <2>1. prefix \in Seq(A)
    BY <1>1, <1>2
  <2>2. Len(prefix) \in Nat /\ Len(name) \in Nat
    BY <1>2, <2>1, LenProperties, Zenon
  <2> HIDE DEF prefix
  <2>3. \A i \in Len(prefix) + 1 .. Len(name) : i \in 1 .. Len(name)
    BY <2>2
  <2>4. \A i \in Len(prefix) + 1 .. Len(name) : name[i] \in A
    BY <1>2, <2>3, ElementOfSeq, Zenon
  <2> QED
    BY <1>2, <2>2, <2>4, SubSeqProperties DEF Drop
<1> HIDE DEF prefix
<1>7. short \in Seq(A)
  BY <1>2, <1>3, <1>6
<1>8. base \in Seq(A)
  <2>1. <<>> \in Seq(A) /\ stack \o <<d>> \in Seq(A)
    BY <1>1, <1>2
  <2> DEFINE front == IF stack = <<>> THEN <<>> ELSE stack \o <<d>>
  <2>2. front \in Seq(A)
    BY <2>1
  <2>3. base = front \o short
    BY <1>4
  <2> HIDE DEF front
  <2> QED
    BY <1>7, <2>2, <2>3
<1>9. base \o <<d, e>> \in Seq(A)
  <2>1. <<d, e>> \in Seq(A)
    BY <1>1
  <2> QED
    BY <1>8, <2>1
<1> QED
  BY <1>2, <1>5, <1>9 DEF Or, A

\* Load leaves no empty directory.
LEMMA LoadedStateDir ==
    ASSUME boot \in Boots, NEW c \in Loadable
    PROVE  c.stateDir # ""
<1> DEFINE env  == boot.env
           file == boot.file
           base == mergeConfig(defaultConfig, file)
           set  == IF env.allowedTags = Unset THEN env
                   ELSE [env EXCEPT !.allowedTags = TagList(env.allowedTags)]
           merged == mergeConfig(base, set)
           none == ""
<1>1. "stateDir" \in Settings
  BY DEF Settings, defaultConfig
<1>2. merged = applyEnv(base, env)
  BY DEF applyEnv
<1>3. /\ file # Unreadable
      /\ c = merged \/ c = [merged EXCEPT !.apiKey = boot.keyFile]
  BY <1>2 DEF Loadable, Load
<1>4. env.stateDir # none /\ file.stateDir # none /\ defaultConfig.stateDir # none
  <2>1. env.stateDir # none /\ file.stateDir # none
    BY <1>3, BootTexts
  <2>2. defaultConfig.stateDir = "/var/lib/tailswarm"
    BY DEF defaultConfig
  <2>3. "/var/lib/tailswarm" # ""
    BY Zenon
  <2> QED
    BY <2>1, <2>2, <2>3, Zenon
<1>5. c.stateDir = merged.stateDir
  <2>1. merged = [f \in Settings |-> merged[f]]
    BY DEF mergeConfig
  <2> HIDE DEF merged
  <2> QED
    BY <1>1, <1>3, <2>1
<1>6. base.stateDir = IF file.stateDir = Unset THEN defaultConfig.stateDir ELSE file.stateDir
  BY <1>1 DEF mergeConfig
<1>7. merged.stateDir = IF set.stateDir = Unset THEN base.stateDir ELSE set.stateDir
  <2> HIDE DEF base, set
  <2> QED
    BY <1>1 DEF mergeConfig
<1>8. set.stateDir = env.stateDir
  OBVIOUS
<1> HIDE DEF env, file, base, set, merged, none
<1>9. c.stateDir # none
  BY <1>4, <1>5, <1>6, <1>7, <1>8
<1> QED
  BY <1>9 DEF none

\* What Parse makes of a service's egress labels.
LEMMA EgressTargets ==
    ASSUME boot \in Boots, svc \in Shards, cfg \in Loadable, NEW w \in Workers,
           NEW eg \in Parse(svc[w], Networks, cfg).egress
    PROVE  /\ eg.hostname \in Seq(Symbols)
           /\ ToSet(eg.targets) \subseteq TargetsOf(Symbols)
           /\ \A t, u \in ToSet(eg.targets) : Distinct(t, u)
           /\ \A other \in Parse(svc[w], Networks, cfg).egress : other = eg
<1> DEFINE labels == svc[w].labels[cfg.namespace]
           parsed == parseEgressTargets(labels.egTargets)
<1>1. /\ eg = parseEgress(svc[w], labels, Networks, cfg)
      /\ \A other \in Parse(svc[w], Networks, cfg).egress : other = eg
  BY DEF Parse
<1>2. /\ {svc[w].name, svc[w].stack, labels.egHostname} \subseteq Seq(STRING)
      /\ labels.egTargets \in Seq(STRING)
  BY ServiceTexts DEF Loadable, Texts
<1>3. eg.hostname \in Seq(Symbols)
  <2> HIDE DEF labels
  <2> QED
    BY <1>1, <1>2, EgressHostname
<1>4. eg.targets = parsed.out
  BY <1>1 DEF parseEgress
<1>5. parsed.out \in Seq(TargetsOf(Symbols))
  <2>1. labels.egTargets \in Seq(Symbols)
    BY <1>2, TextSymbols
  <2> HIDE DEF labels
  <2> QED
    BY <2>1, ParsedTargets
<1>6. ToSet(eg.targets) \subseteq TargetsOf(Symbols)
  <2> HIDE DEF parsed
  <2>1. DOMAIN parsed.out = 1 .. Len(parsed.out)
    BY <1>5, LenProperties, Zenon
  <2>2. \A i \in DOMAIN parsed.out : parsed.out[i] \in TargetsOf(Symbols)
    BY <1>5, <2>1, ElementOfSeq, Zenon
  <2> QED
    BY <1>4, <2>2 DEF ToSet
<1>7. \A t, u \in ToSet(eg.targets) : Distinct(t, u)
  <2> SUFFICES ASSUME NEW t \in ToSet(eg.targets), NEW u \in ToSet(eg.targets) PROVE Distinct(t, u)
    OBVIOUS
  <2>1. cfg \in Load(boot.file, boot.env, boot.keyFile)
    BY DEF Loadable
  <2>2. \A x, y \in ToSet(eg.targets) :
            /\ Digest(addr(x)) = Digest(addr(y)) => addr(x) = addr(y)
            /\ Digest(addr(x)) \notin ToSet(y.host)
    BY <2>1, DigestAssumption, Zenon
  <2> QED
    BY <2>2, Zenon DEF Distinct
<1> QED
  BY <1>1, <1>3, <1>6, <1>7

\* The contract between the daemon and its gateways holds of every key that is
\* minted: gatewaySpec's environment says the one target, in the form that
\* RunGateway's parser reads back, with the tag of the key and the hash the
\* daemon compares with, under a name that no other host's gateway has.
THEOREM GatewaysKeepContract == Spec => []GatewayContract
<1>1. IInv => GatewayContract
  <2> SUFFICES ASSUME IInv, NEW k \in minted, NEW spec \in k.spec, NEW t \in k.req.targets,
                      NEW eg \in tgt[k.worker].egress
               PROVE  /\ RunGateway(spec.env).ok
                      /\ RunGateway(spec.env).targets = <<t>>
                      /\ RunGateway(spec.env).tag = k.req.tag
                      /\ liveGatewayHash(spec) = targetGatewayHash(eg, t, image)
                      /\ \A u \in ToSet(eg.targets) :
                            u.host # t.host => gatewayHostname(eg, u) # gatewayHostname(eg, t)
    BY DEF GatewayContract
  <2> DEFINE w == k.worker
             r == k.req
  <2>1. w \in Workers /\ r \in Requests(w) /\ spec \in GatewaySpecs(w, r)
    BY DEF IInv, SpecOfRequest
  <2>2. phase = "running" /\ boot \in Boots /\ svc \in Shards /\ cfg \in Loadable
    BY DEF IInv, NotYet, Loaded, TypeOK
  <2>3. tgt[w] = Parse(svc[w], Networks, cfg)
    BY <2>1, <2>2 DEF IInv, Parsed
  <2>4. /\ eg.hostname \in Seq(Symbols)
        /\ ToSet(eg.targets) \subseteq TargetsOf(Symbols)
        /\ \A x, y \in ToSet(eg.targets) : Distinct(x, y)
        /\ \A other \in tgt[w].egress : other = eg
    BY <2>1, <2>2, <2>3, EgressTargets
  <2> HIDE DEF w, r
  <2>5. r.tag = eg.tag /\ r.targets = {t} /\ t \in ToSet(eg.targets)
    <3>1. t \in r.targets
      BY DEF r
    <3>2. PICK other \in tgt[w].egress :
              \E x \in ToSet(other.targets) : r = Request("egress", other.tag, {x})
      BY <2>1, <3>1 DEF Requests, Request
    <3>3. PICK x \in ToSet(other.targets) : r = Request("egress", other.tag, {x})
      BY <3>2
    <3>4. other = eg /\ x = t
      BY <2>4, <3>1, <3>3 DEF Request
    <3> QED
      BY <3>3, <3>4 DEF Request
  <2>6. spec = gatewaySpec(eg, t, w, cfg, image, <<"secret">>)
    BY <2>1, <2>4, <2>5 DEF GatewaySpecs
  <2>7. t \in TargetsOf(Symbols)
    BY <2>4, <2>5
  <2> DEFINE env == spec.env
             name == gatewayHostname(eg, t)
  <2>8. /\ env.targets = addr(t) /\ env.hostname = name /\ env.tag = eg.tag
        /\ env.stateDir = cfg.stateDir
        /\ spec.network = eg.network /\ spec.image = image
    BY <2>6 DEF gatewaySpec
  <2>9. name # <<>>
    BY <2>4, <2>7, ShortNameEnds, LongNameEnds
  <2>10. cfg.stateDir # ""
    BY <2>2, LoadedStateDir
  <2>11. /\ parseEgressTargets(addr(t)).ok
         /\ parseEgressTargets(addr(t)).out = <<t>>
    BY <2>7, AddressReadBack
  <2>12. liveGatewayHash(spec) = targetGatewayHash(eg, t, image)
    <3> HIDE DEF name
    <3> QED
      BY <2>8 DEF liveGatewayHash, targetGatewayHash, name
  <2> HIDE DEF env, name
  <2>13. /\ RunGateway(env).ok = (/\ parseEgressTargets(env.targets).ok
                                  /\ parseEgressTargets(env.targets).out # <<>>
                                  /\ env.hostname # <<>>
                                  /\ env.stateDir # "")
         /\ RunGateway(env).targets = parseEgressTargets(env.targets).out
         /\ RunGateway(env).tag = env.tag
    BY DEF RunGateway
  <2>14. <<t>> # <<>>
    OBVIOUS
  <2>15. RunGateway(env).ok /\ RunGateway(env).targets = <<t>> /\ RunGateway(env).tag = r.tag
    BY <2>5, <2>8, <2>9, <2>10, <2>11, <2>13, <2>14, Zenon
  <2>16. ASSUME NEW u \in ToSet(eg.targets), u.host # t.host
         PROVE  gatewayHostname(eg, u) # gatewayHostname(eg, t)
    <3>1. Distinct(t, u) /\ u \in TargetsOf(Symbols)
      BY <2>4, <2>5
    <3> QED
      BY <2>4, <2>7, <2>16, <3>1, NamesDiffer
  <2> QED
    BY <2>12, <2>15, <2>16 DEF env, r
<1> QED
  BY InitIInv, Inductive, <1>1, PTL DEF Spec
=============================================================================
