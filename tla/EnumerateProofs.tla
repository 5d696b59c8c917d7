--------------------------- MODULE EnumerateProofs ---------------------------
(***************************************************************************)
(* Proofs about Enumerate, for feature lists of any length, any number of  *)
(* ports and any set of private features.                                  *)
(***************************************************************************)
EXTENDS Enumerate, FiniteSetTheorems, SequenceTheorems, TLAPS

-----------------------------------------------------------------------------
(* The inductive invariant.                                                *)

Keys(D) == {Key(d) : d \in D}

\* The device being built, if it has an id.
Building == IF cur = NoDev \/ cur.id < 0 THEN {} ELSE {cur}

VarsOK ==
  /\ state \in {"unbound", "parsing", "failing", "destroying", "bound", "oops"}
  /\ part \in 0..MaxPorts
  /\ seen \in Seq(Header)
  /\ cur \in Device \cup {NoDev}
  /\ fme_dev \in Device \cup {NoDev}
  /\ port_dev_list \in Seq(Device)
  /\ uafu_size \in {0, 1}
  /\ pr \in {"none", "found", "missing"}

\* drvdata knows an FME and ports, with ids, and no port twice.
ListInv ==
  /\ fme_dev # NoDev => fme_dev.type = "fme" /\ fme_dev.id >= 0
  /\ \A n \in DOMAIN port_dev_list :
       port_dev_list[n].type = "port" /\ port_dev_list[n].id >= 0
  /\ \A m, n \in DOMAIN port_dev_list : port_dev_list[m].id = port_dev_list[n].id => m = n

\* The ids are those of the devices drvdata knows, which are the registered
\* ones, and of the device being built, which is none of them.
IdInv ==
  /\ ids = Keys(Listed \cup Building)
  /\ cur # NoDev => Key(cur) \notin Keys(Listed)
  /\ registered = IF state = "destroying" THEN {} ELSE Keys(Listed)

\* The device being built, while the walk goes on, has an id, is the only FME,
\* and is the one the size of the user AFU belongs to.
BuildInv ==
  /\ state \in {"unbound", "destroying", "bound"} => cur = NoDev
  /\ state = "unbound" => fme_dev = NoDev /\ port_dev_list = <<>>
  /\ state = "parsing" /\ cur # NoDev =>
       /\ cur.id >= 0
       /\ cur.type = "fme" => fme_dev = NoDev
       /\ cur.type = "port" /\ uafu_size = 1 => cur.mmio = 1

\* A user AFU is only given to a port that has one.
UafuInv ==
  /\ \A d \in Listed : "uafu" \in d.features => d.mmio = 1
  /\ cur # NoDev /\ "uafu" \in cur.features => cur.mmio = 1

\* Starts, FeaturesFrom and DevicesAt as functions of the headers w of a walk,
\* the list of ports and the FME.
StartsIn(w) == {i \in DOMAIN w : w[i].kind \in {"fme", "port"}}
After(w, i) == {j \in DOMAIN w : j > i /\ \A k \in StartsIn(w) : k > i => j < k}
FeaturesIn(w, i) ==
  {w[j].id : j \in {j \in After(w, i) : w[j].kind = "private" /\ w[j].id \in Features}}
    \cup {"uafu" : j \in {j \in After(w, i) : w[i].kind = "port" /\ w[j].kind = "afu"}}
KindIn(w, S, kind) == {i \in S : w[i].kind = kind}
PortsMatch(w, ports, list) ==
  \E at \in [DOMAIN list -> ports] :
    /\ Range(at) = ports
    /\ \A m, n \in DOMAIN at : m < n => at[m] > at[n]
    /\ \A n \in DOMAIN at : list[n].features = FeaturesIn(w, at[n])
FmeMatches(w, fmes, fme) ==
  /\ fme = NoDev <=> fmes = {}
  /\ \A i \in fmes : fmes = {i} /\ fme.features = FeaturesIn(w, i)
Match(w, S, list, fme) ==
  /\ PortsMatch(w, KindIn(w, S, "port"), list)
  /\ FmeMatches(w, KindIn(w, S, "fme"), fme)

LastStart(w, s) == s \in StartsIn(w) /\ \A i \in StartsIn(w) : i <= s

\* The device dev is that of the header at s, with the features found since.
BuiltAt(w, s, dev) == w[s].kind = dev.type /\ dev.features = FeaturesIn(w, s)

\* The device being built is that of the last header that starts one, and the
\* others are known.
WalkInv ==
  /\ state = "parsing" /\ cur = NoDev =>
       StartsIn(seen) = {} /\ Match(seen, {}, port_dev_list, fme_dev)
  /\ state = "parsing" /\ cur # NoDev =>
       \E s \in StartsIn(seen) :
         /\ LastStart(seen, s)
         /\ BuiltAt(seen, s, cur)
         /\ Match(seen, StartsIn(seen) \ {s}, port_dev_list, fme_dev)
  /\ state = "bound" => Match(seen, StartsIn(seen), port_dev_list, fme_dev)

IndInv == VarsOK /\ ListInv /\ IdInv /\ BuildInv /\ UafuInv /\ WalkInv

-----------------------------------------------------------------------------
(* The walk: what one more header changes.                                 *)

StartKinds == {"fme", "port"}

\* A sequence of headers and one more.
LEMMA AppendFacts ==
  ASSUME NEW w \in Seq(Header), NEW h \in Header
  PROVE  /\ Append(w, h) \in Seq(Header)
         /\ Len(w) \in Nat
         /\ DOMAIN w = 1..Len(w)
         /\ DOMAIN Append(w, h) = 1..(Len(w) + 1)
         /\ \A i \in 1..Len(w) : Append(w, h)[i] = w[i]
         /\ Append(w, h)[Len(w) + 1] = h
<1> HIDE DEF Header
<1> QED BY AppendProperties

\* The headers that start a device, when one more is met.
LEMMA AppendStarts ==
  ASSUME NEW w \in Seq(Header), NEW h \in Header
  PROVE  /\ StartsIn(w) \subseteq 1..Len(w)
         /\ h.kind \in StartKinds => StartsIn(Append(w, h)) = StartsIn(w) \cup {Len(w) + 1}
         /\ h.kind \notin StartKinds => StartsIn(Append(w, h)) = StartsIn(w)
<1> PICK v : v = Append(w, h) OBVIOUS
<1>1. /\ Len(w) \in Nat /\ DOMAIN w = 1..Len(w) /\ DOMAIN v = 1..(Len(w) + 1)
      /\ \A i \in 1..Len(w) : v[i] = w[i]
      /\ v[Len(w) + 1] = h
  BY AppendFacts
<1> QED BY <1>1 DEF StartsIn, StartKinds

\* A device that is not the last keeps the features found for it.
LEMMA EarlierFeatures ==
  ASSUME NEW w \in Seq(Header), NEW h \in Header, NEW i \in StartsIn(w),
         h.kind \in StartKinds \/ \E k \in StartsIn(w) : k > i
  PROVE  FeaturesIn(Append(w, h), i) = FeaturesIn(w, i)
<1> PICK v : v = Append(w, h) OBVIOUS
<1>1. /\ Len(w) \in Nat /\ DOMAIN w = 1..Len(w) /\ DOMAIN v = 1..(Len(w) + 1)
      /\ \A j \in 1..Len(w) : v[j] = w[j]
  BY AppendFacts
<1>2. /\ StartsIn(w) \subseteq 1..Len(w)
      /\ StartsIn(v) = StartsIn(w) \/ StartsIn(v) = StartsIn(w) \cup {Len(w) + 1}
      /\ \E k \in StartsIn(v) : k > i
  <2>1. StartsIn(w) \subseteq 1..Len(w)
    BY AppendStarts
  <2>2. CASE h.kind \in StartKinds
    BY <1>1, <2>1, <2>2, AppendStarts
  <2>3. CASE h.kind \notin StartKinds
    BY <2>1, <2>3, AppendStarts
  <2> QED BY <2>1, <2>2, <2>3
<1>3. After(v, i) = After(w, i)
  BY <1>1, <1>2 DEF After
<1>4. \A j \in After(w, i) : v[j] = w[j]
  BY <1>1 DEF After
<1>5. v[i] = w[i]
  BY <1>1, <1>2
<1> QED BY <1>3, <1>4, <1>5, Zenon DEF FeaturesIn

\* The last device gains the feature of the header, if it is one.
LEMMA LastFeatures ==
  ASSUME NEW w \in Seq(Header), NEW h \in Header, NEW s, LastStart(w, s),
         h.kind \notin StartKinds
  PROVE  FeaturesIn(Append(w, h), s) =
           FeaturesIn(w, s)
             \cup (IF h.kind = "private" /\ h.id \in Features THEN {h.id} ELSE {})
             \cup (IF w[s].kind = "port" /\ h.kind = "afu" THEN {"uafu"} ELSE {})
<1> PICK v : v = Append(w, h) OBVIOUS
<1> PICK l : l = Len(w) + 1 OBVIOUS
<1>1. /\ Len(w) \in Nat /\ DOMAIN w = 1..Len(w) /\ DOMAIN v = 1..l
      /\ \A j \in 1..Len(w) : v[j] = w[j]
      /\ v[l] = h
  BY AppendFacts
<1>2. /\ StartsIn(w) \subseteq 1..Len(w) /\ StartsIn(v) = StartsIn(w)
      /\ s \in StartsIn(w) /\ \A k \in StartsIn(w) : k <= s
  BY AppendStarts DEF LastStart
<1>3. After(v, s) = After(w, s) \cup {l}
  BY <1>1, <1>2 DEF After
<1>4. \A j \in After(w, s) : v[j] = w[j]
  BY <1>1 DEF After
<1>5. v[s] = w[s]
  BY <1>1, <1>2
<1> DEFINE P(x, j) == x[j].kind = "private" /\ x[j].id \in Features
           Q(x, j) == x[s].kind = "port" /\ x[j].kind = "afu"
           B == After(w, s)
<1>6. {v[j].id : j \in {j \in B \cup {l} : P(v, j)}}
        = {w[j].id : j \in {j \in B : P(w, j)}}
            \cup (IF h.kind = "private" /\ h.id \in Features THEN {h.id} ELSE {})
  <2> HIDE DEF B
  <2>1. {v[j].id : j \in {j \in B : P(v, j)}} = {w[j].id : j \in {j \in B : P(w, j)}}
    BY <1>4, Zenon DEF B
  <2>2. {v[j].id : j \in {j \in B \cup {l} : P(v, j)}}
          = {v[j].id : j \in {j \in B : P(v, j)}}
              \cup (IF h.kind = "private" /\ h.id \in Features THEN {h.id} ELSE {})
    BY <1>1
  <2> QED BY <2>1, <2>2
<1>7. {"uafu" : j \in {j \in B \cup {l} : Q(v, j)}}
        = {"uafu" : j \in {j \in B : Q(w, j)}}
            \cup (IF w[s].kind = "port" /\ h.kind = "afu" THEN {"uafu"} ELSE {})
  <2> HIDE DEF B
  <2>1. {"uafu" : j \in {j \in B : Q(v, j)}} = {"uafu" : j \in {j \in B : Q(w, j)}}
    BY <1>4, <1>5, Zenon DEF B
  <2>2. {"uafu" : j \in {j \in B \cup {l} : Q(v, j)}}
          = {"uafu" : j \in {j \in B : Q(v, j)}}
              \cup (IF w[s].kind = "port" /\ h.kind = "afu" THEN {"uafu"} ELSE {})
    BY <1>1, <1>5
  <2> QED BY <2>1, <2>2
<1>8. /\ FeaturesIn(v, s) = {v[j].id : j \in {j \in B \cup {l} : P(v, j)}}
                             \cup {"uafu" : j \in {j \in B \cup {l} : Q(v, j)}}
      /\ FeaturesIn(w, s) = {w[j].id : j \in {j \in B : P(w, j)}}
                             \cup {"uafu" : j \in {j \in B : Q(w, j)}}
  BY <1>3, Zenon DEF FeaturesIn
<1> HIDE DEF P, Q, B
<1> QED BY <1>6, <1>7, <1>8

\* A device that begins has no features.
LEMMA NewFeatures ==
  ASSUME NEW w \in Seq(Header), NEW h \in Header
  PROVE  FeaturesIn(Append(w, h), Len(w) + 1) = {}
<1> PICK v : v = Append(w, h) OBVIOUS
<1>1. Len(w) \in Nat /\ DOMAIN v = 1..(Len(w) + 1)
  BY AppendFacts
<1>2. After(v, Len(w) + 1) = {}
  BY <1>1 DEF After
<1> QED BY <1>2 DEF FeaturesIn

\* What matched the headers S, all but the last of which are followed by another,
\* still matches them.
LEMMA AppendMatch ==
  ASSUME NEW w \in Seq(Header), NEW h \in Header, NEW S, S \subseteq StartsIn(w),
         NEW list, NEW fme, Match(w, S, list, fme),
         \A i \in S : h.kind \in StartKinds \/ \E k \in StartsIn(w) : k > i
  PROVE  Match(Append(w, h), S, list, fme)
<1> PICK v : v = Append(w, h) OBVIOUS
<1>1. \A i \in S : FeaturesIn(v, i) = FeaturesIn(w, i)
  BY EarlierFeatures
<1>2. \A i \in S : v[i] = w[i]
  BY AppendFacts, AppendStarts
<1>3. KindIn(v, S, "port") = KindIn(w, S, "port") /\ KindIn(v, S, "fme") = KindIn(w, S, "fme")
  BY <1>2 DEF KindIn
<1>4. KindIn(w, S, "port") \subseteq S /\ KindIn(w, S, "fme") \subseteq S
  BY DEF KindIn
<1>5. PortsMatch(v, KindIn(w, S, "port"), list)
  <2>1. PICK at \in [DOMAIN list -> KindIn(w, S, "port")] :
          /\ Range(at) = KindIn(w, S, "port")
          /\ \A m, n \in DOMAIN at : m < n => at[m] > at[n]
          /\ \A n \in DOMAIN at : list[n].features = FeaturesIn(w, at[n])
    BY DEF Match, PortsMatch
  <2>2. \A n \in DOMAIN at : at[n] \in S
    BY <1>4, <2>1
  <2>3. \A n \in DOMAIN at : list[n].features = FeaturesIn(v, at[n])
    BY <1>1, <2>1, <2>2
  <2> QED BY <2>1, <2>3, Zenon DEF PortsMatch
<1>6. FmeMatches(v, KindIn(w, S, "fme"), fme)
  BY <1>1, <1>4, Zenon DEF Match, FmeMatches
<1> QED BY <1>3, <1>5, <1>6, Zenon DEF Match

\* The device being built joins the ones that are known, a port at the front.
LEMMA CommitMatch ==
  ASSUME NEW w, NEW s, LastStart(w, s), StartsIn(w) \subseteq Nat,
         NEW list \in Seq(Device), NEW fme, NEW dev \in Device, BuiltAt(w, s, dev),
         dev.type = "fme" => fme = NoDev,
         Match(w, StartsIn(w) \ {s}, list, fme)
  PROVE  Match(w, StartsIn(w), IF dev.type = "port" THEN <<dev>> \o list ELSE list,
                               IF dev.type = "fme" THEN dev ELSE fme)
<1> DEFINE R == StartsIn(w) \ {s}
           Q == KindIn(w, R, "port")
           G == KindIn(w, R, "fme")
<1>1. s \in StartsIn(w) /\ s \in Nat /\ \A i \in R : i \in Nat /\ i < s
  BY DEF LastStart
<1>2. PortsMatch(w, Q, list) /\ FmeMatches(w, G, fme)
  BY DEF Match
<1>3. CASE dev.type = "port"
  <2>1. KindIn(w, StartsIn(w), "fme") = G /\ KindIn(w, StartsIn(w), "port") = Q \cup {s}
    BY <1>1, <1>3 DEF KindIn, BuiltAt
  <2> DEFINE list2 == <<dev>> \o list
  <2>2. /\ Len(list) \in Nat /\ DOMAIN list = 1..Len(list)
        /\ DOMAIN list2 = 1..(Len(list) + 1)
        /\ list2[1] = dev
        /\ \A n \in 2..(Len(list) + 1) : list2[n] = list[n - 1]
    <3> HIDE DEF Device
    <3>1. <<dev>> \in Seq(Device) /\ Len(<<dev>>) = 1 /\ <<dev>>[1] = dev
      OBVIOUS
    <3>2. /\ list2 \in Seq(Device) /\ Len(list2) = 1 + Len(list)
          /\ \A n \in 1..(1 + Len(list)) :
               list2[n] = IF n <= 1 THEN <<dev>>[n] ELSE list[n - 1]
      BY <3>1, ConcatProperties
    <3> QED BY <3>1, <3>2
  <2>3. PICK at \in [DOMAIN list -> Q] :
          /\ Range(at) = Q
          /\ \A m, n \in DOMAIN at : m < n => at[m] > at[n]
          /\ \A n \in DOMAIN at : list[n].features = FeaturesIn(w, at[n])
    BY <1>2 DEF PortsMatch
  <2> DEFINE bt == [n \in 1..(Len(list) + 1) |-> IF n = 1 THEN s ELSE at[n - 1]]
  <2>4. \A n \in 2..(Len(list) + 1) : n - 1 \in DOMAIN list /\ at[n - 1] \in Q
    <3> HIDE DEF Q, list2
    <3>1. \A n \in 2..(Len(list) + 1) : n - 1 \in 1..Len(list)
      BY <2>2
    <3> QED BY <2>2, <2>3, <3>1
  <2>5. bt \in [DOMAIN list2 -> Q \cup {s}]
    <3> HIDE DEF Q, list2
    <3>1. \A n \in 1..(Len(list) + 1) : n = 1 \/ n \in 2..(Len(list) + 1)
      BY <2>2
    <3>2. \A n \in 1..(Len(list) + 1) : (IF n = 1 THEN s ELSE at[n - 1]) \in Q \cup {s}
      BY <2>4, <3>1
    <3> QED BY <2>2, <3>2
  <2>6. Range(bt) = Q \cup {s}
    <3>1. Range(bt) \subseteq Q \cup {s}
      BY <2>5 DEF Range
    <3>2. s \in Range(bt)
      <4>1. 1 \in DOMAIN bt /\ bt[1] = s
        BY <2>2
      <4> QED BY <4>1, Zenon DEF Range
    <3>3. ASSUME NEW q \in Q PROVE q \in Range(bt)
      <4>1. PICK n \in DOMAIN list : at[n] = q
        BY <2>3 DEF Range
      <4>2. n + 1 \in DOMAIN bt /\ bt[n + 1] = q
        BY <2>2, <4>1
      <4> QED BY <4>2, Zenon DEF Range
    <3> QED BY <3>1, <3>2, <3>3
  <2>7. ASSUME NEW m \in DOMAIN bt, NEW n \in DOMAIN bt, m < n PROVE bt[m] > bt[n]
    <3>1. n \in 2..(Len(list) + 1) /\ bt[n] = at[n - 1] /\ at[n - 1] \in Q
      <4> HIDE DEF Q, list2
      <4>1. n \in 2..(Len(list) + 1)
        BY <2>2, <2>7
      <4> QED BY <2>2, <2>4, <4>1
    <3>2. bt[n] \in Nat /\ bt[n] < s
      BY <1>1, <3>1 DEF KindIn
    <3>3. CASE m = 1
      BY <1>1, <2>2, <3>2, <3>3
    <3>4. CASE m # 1
      <4>1. m - 1 \in DOMAIN at /\ n - 1 \in DOMAIN at /\ m - 1 < n - 1 /\ bt[m] = at[m - 1]
        BY <2>2, <2>3, <2>7, <3>1, <3>4
      <4> QED BY <2>3, <3>1, <4>1
    <3> QED BY <3>3, <3>4
  <2>8. ASSUME NEW n \in DOMAIN bt PROVE list2[n].features = FeaturesIn(w, bt[n])
    <3>1. CASE n = 1
      BY <2>2, <3>1 DEF BuiltAt
    <3>2. CASE n # 1
      <4>1. n \in 2..(Len(list) + 1) /\ n - 1 \in DOMAIN at /\ bt[n] = at[n - 1]
        BY <2>2, <2>3, <3>2
      <4> QED BY <2>2, <2>3, <4>1
    <3> QED BY <3>1, <3>2
  <2>9. PortsMatch(w, Q \cup {s}, list2)
    <3> HIDE DEF bt, list2, Q
    <3> QED BY <2>5, <2>6, <2>7, <2>8, Zenon DEF PortsMatch
  <2> QED BY <1>2, <1>3, <2>1, <2>9 DEF Match
<1>4. CASE dev.type = "fme"
  <2>1. KindIn(w, StartsIn(w), "port") = Q /\ KindIn(w, StartsIn(w), "fme") = G \cup {s}
    BY <1>1, <1>4 DEF KindIn, BuiltAt
  <2>2. G = {}
    BY <1>2, <1>4 DEF FmeMatches
  <2>3. dev # NoDev
    BY DEF Device, NoDev
  <2>4. FmeMatches(w, {s}, dev)
    BY <2>3 DEF FmeMatches, BuiltAt
  <2> QED BY <1>2, <1>4, <2>1, <2>2, <2>4 DEF Match
<1> QED BY <1>3, <1>4 DEF Device

-----------------------------------------------------------------------------
(* Ids.                                                                    *)

\* A set of natural numbers that is not empty has a minimum.
LEMMA MinIsMember ==
  ASSUME NEW S \in SUBSET Nat, S # {}
  PROVE  Min(S) \in S
<1> DEFINE T == {0..i : i \in S}
<1>1. T \subseteq FiniteSubsetsOf(Nat)
  <2>1. ASSUME NEW i \in S PROVE 0..i \in FiniteSubsetsOf(Nat)
    <3>1. IsFiniteSet(0..i) /\ 0..i \subseteq Nat
      BY FS_Interval
    <3> QED BY <3>1 DEF FiniteSubsetsOf
  <2> QED BY <2>1
<1>2. PICK X \in T : \A Y \in T : <<Y, X>> \notin StrictSubsetOrdering(Nat)
  <2>1. T # {}
    OBVIOUS
  <2> HIDE DEF T
  <2> QED BY <1>1, <2>1, WFMin, FS_StrictSubsetOrderingWellFounded
<1>3. PICK x \in S : X = 0..x
  OBVIOUS
<1>4. ASSUME NEW y \in S PROVE x <= y
  <2>1. 0..y \in T /\ 0..y \subseteq Nat /\ 0..x \subseteq Nat
    OBVIOUS
  <2>2. ~(0..y \subseteq 0..x /\ 0..y # 0..x)
    BY <1>2, <1>3, <2>1 DEF StrictSubsetOrdering
  <2>3. SUFFICES ASSUME y < x PROVE FALSE
    OBVIOUS
  <2>4. 0..y \subseteq 0..x /\ x \in 0..x /\ x \notin 0..y
    BY <2>3
  <2> QED BY <2>2, <2>4
<1> QED BY <1>4 DEF Min

\* idr_alloc finds an id that is not in use.
LEMMA FreeIdIsFree ==
  ASSUME NEW type, IsFiniteSet(ids)
  PROVE  FreeId(type) \in Nat /\ <<type, FreeId(type)>> \notin ids
<1> DEFINE c == Cardinality(ids)
           S == {i \in 0..c : <<type, i>> \notin ids}
           f == [i \in 0..c |-> <<type, i>>]
<1>1. c \in Nat
  BY FS_CardinalityType
<1>2. S # {}
  <2>1. SUFFICES ASSUME S = {} PROVE FALSE
    OBVIOUS
  <2>2. f \in Injection(0..c, ids)
    BY <1>1, <2>1 DEF Injection, IsInjective
  <2>3. IsFiniteSet(0..c) /\ Cardinality(0..c) = c + 1
    BY <1>1, FS_Interval
  <2>4. Cardinality(0..c) <= c
    BY <2>2, FS_Injection
  <2> QED BY <1>1, <2>3, <2>4
<1>3. S \in SUBSET Nat
  BY <1>1
<1>4. Min(S) \in S
  <2> HIDE DEF S
  <2> QED BY <1>2, <1>3, MinIsMember
<1> QED BY <1>3, <1>4 DEF FreeId

\* The number of keys of devices that differ in their keys.
LEMMA KeysCounted ==
  ASSUME NEW D, IsFiniteSet(D), \A d, e \in D : Key(d) = Key(e) => d = e
  PROVE  IsFiniteSet(Keys(D)) /\ Cardinality(Keys(D)) = Cardinality(D)
<1> DEFINE f == [d \in D |-> Key(d)]
<1>1. f \in Bijection(D, Keys(D))
  <2>1. f \in Injection(D, Keys(D))
    BY Zenon DEF Injection, IsInjective, Keys
  <2>2. f \in Surjection(D, Keys(D))
    BY Zenon DEF Surjection, Keys
  <2> QED BY <2>1, <2>2 DEF Bijection
<1> QED BY <1>1, FS_Bijection DEF ExistsBijection

\* A list without repetitions has as many members as places.
LEMMA RangeCounted ==
  ASSUME NEW list \in Seq(Device), \A m, n \in DOMAIN list : list[m] = list[n] => m = n
  PROVE  IsFiniteSet(Range(list)) /\ Cardinality(Range(list)) = Len(list)
<1> HIDE DEF Device
<1>1. Len(list) \in Nat /\ DOMAIN list = 1..Len(list)
  OBVIOUS
<1>2. list \in Bijection(1..Len(list), Range(list))
  <2>1. list \in [1..Len(list) -> Range(list)]
    BY <1>1 DEF Range
  <2> QED BY <1>1, <2>1 DEF Bijection, Injection, Surjection, IsInjective, Range
<1>3. IsFiniteSet(1..Len(list)) /\ Cardinality(1..Len(list)) = Len(list)
  BY <1>1, FS_Interval
<1> QED BY <1>2, <1>3, FS_Bijection DEF ExistsBijection

\* The devices drvdata knows have ids, and no two the same.
LEMMA ListedFacts ==
  ASSUME VarsOK, ListInv
  PROVE  /\ \A d \in Listed : d \in Device /\ d.id >= 0
         /\ \A d \in Range(port_dev_list) : d \in Device /\ d.type = "port"
         /\ \A d, e \in Listed : Key(d) = Key(e) => d = e
         /\ fme_dev # NoDev => fme_dev \in Listed /\ fme_dev \notin Range(port_dev_list)
<1>1. \A d \in Range(port_dev_list) :
        d \in Device /\ \E n \in DOMAIN port_dev_list : d = port_dev_list[n]
  <2> HIDE DEF Device
  <2> QED BY DEF VarsOK, Range
<1>2. \A d \in Range(port_dev_list) : d.type = "port" /\ d.id >= 0
  <2>1. TAKE d \in Range(port_dev_list)
  <2>2. PICK n \in DOMAIN port_dev_list : d = port_dev_list[n]
    BY <1>1
  <2> QED BY <2>2 DEF ListInv
<1>3. \A d, e \in Range(port_dev_list) : Key(d) = Key(e) => d = e
  <2>1. TAKE d, e \in Range(port_dev_list)
  <2>2. HAVE Key(d) = Key(e)
  <2>3. d.id = e.id
    BY <2>2 DEF Key
  <2> QED BY <1>1, <2>3, Zenon DEF ListInv
<1>4. fme_dev # NoDev => fme_dev \in Device /\ fme_dev.type = "fme" /\ fme_dev.id >= 0
  BY DEF VarsOK, ListInv
<1>5. \A d \in Listed : (d = fme_dev /\ fme_dev # NoDev) \/ d \in Range(port_dev_list)
  BY DEF Listed
<1>6. \A d, e \in Listed : Key(d) = Key(e) => d = e
  <2>1. TAKE d, e \in Listed
  <2>2. HAVE Key(d) = Key(e)
  <2>3. d.type = e.type
    BY <2>2 DEF Key
  <2>4. CASE d \in Range(port_dev_list)
    BY <1>2, <1>3, <1>4, <1>5, <2>2, <2>3, <2>4
  <2>5. CASE d = fme_dev /\ fme_dev # NoDev
    BY <1>2, <1>4, <1>5, <2>3, <2>5
  <2> QED BY <1>5, <2>4, <2>5
<1> QED BY <1>1, <1>2, <1>4, <1>5, <1>6 DEF Listed

\* The ids are as many as the devices.
LEMMA IdsCounted ==
  ASSUME VarsOK, ListInv, IdInv
  PROVE  /\ IsFiniteSet(ids)
         /\ Cardinality(ids) = Len(port_dev_list)
              + Cardinality((Listed \cup Building) \ Range(port_dev_list))
<1> DEFINE D == Listed \cup Building
           P == Range(port_dev_list)
<1>1. P \subseteq D
  BY DEF Listed
<1>2. IsFiniteSet(P) /\ Cardinality(P) = Len(port_dev_list)
  <2>1. \A m, n \in DOMAIN port_dev_list : port_dev_list[m] = port_dev_list[n] => m = n
    BY DEF ListInv
  <2> QED BY <2>1, RangeCounted DEF VarsOK
<1>3. IsFiniteSet(D)
  <2>1. D = P \cup (IF fme_dev = NoDev THEN {} ELSE {fme_dev}) \cup Building
    BY DEF Listed
  <2>2. IsFiniteSet(IF fme_dev = NoDev THEN {} ELSE {fme_dev})
    BY FS_EmptySet, FS_Singleton, Zenon
  <2>3. IsFiniteSet(Building)
    BY FS_EmptySet, FS_Singleton, Zenon DEF Building
  <2> QED BY <1>2, <2>1, <2>2, <2>3, FS_Union, Zenon
<1>4. \A d, e \in D : Key(d) = Key(e) => d = e
  <2>1. \A d \in Building : d = cur /\ cur # NoDev
    BY DEF Building
  <2>2. \A d \in Listed : Key(d) \in Keys(Listed)
    BY DEF Keys
  <2> QED BY <2>1, <2>2, ListedFacts DEF IdInv
<1>5. IsFiniteSet(ids) /\ Cardinality(ids) = Cardinality(D)
  <2> HIDE DEF D
  <2>1. IsFiniteSet(Keys(D)) /\ Cardinality(Keys(D)) = Cardinality(D)
    BY <1>3, <1>4, KeysCounted
  <2> QED BY <2>1, Zenon DEF IdInv, D
<1> HIDE DEF D, P
<1>6. IsFiniteSet(D \ P) /\ D = P \cup (D \ P) /\ P \cap (D \ P) = {}
  BY <1>1, <1>3, FS_Subset
<1>7. Cardinality(P \cup (D \ P))
        = Cardinality(P) + Cardinality(D \ P) - Cardinality(P \cap (D \ P))
  BY <1>2, <1>6, FS_Union
<1>8. Cardinality(P \cap (D \ P)) = 0
  BY <1>6, FS_EmptySet, Zenon
<1>9. Cardinality(P) \in Nat /\ Cardinality(D \ P) \in Nat
  BY <1>2, <1>6, FS_CardinalityType
<1>10. Cardinality(D) = Cardinality(P) + Cardinality(D \ P)
  <2>1. Cardinality(D) = Cardinality(P \cup (D \ P))
    BY <1>6, Zenon
  <2> QED BY <1>7, <1>8, <1>9, <2>1
<1> QED BY <1>2, <1>5, <1>10 DEF D, P

\* The id found is a natural number.
LEMMA FreeIdIsId ==
  ASSUME IndInv, NEW type
  PROVE  FreeId(type) \in Nat
<1>1. IsFiniteSet(ids)
  BY IdsCounted DEF IndInv
<1> QED BY <1>1, FreeIdIsFree

-----------------------------------------------------------------------------
(* What the operations share.                                              *)

\* build_info_commit_dev hands the device being built to drvdata.
LEMMA CommitStep ==
  ASSUME IndInv, state = "parsing", build_info_commit_dev
  PROVE  /\ fme_dev' \in Device \cup {NoDev} /\ port_dev_list' \in Seq(Device)
         /\ ListInv'
         /\ Listed' = Listed \cup Building
         /\ registered' = Keys(Listed')
         /\ \A d \in Listed' : "uafu" \in d.features => d.mmio = 1
         /\ Match(seen, StartsIn(seen), port_dev_list', fme_dev')
<1> USE DEF IndInv
<1>1. CASE cur = NoDev
  <2>1. cur.type = "none"
    BY <1>1 DEF NoDev
  <2>2. fme_dev' = fme_dev /\ port_dev_list' = port_dev_list /\ registered' = registered
    BY <1>1, <2>1 DEF build_info_commit_dev
  <2>3. Building = {} /\ Listed' = Listed
    BY <1>1, <2>2 DEF Building, Listed
  <2>4. registered = Keys(Listed)
    BY DEF IdInv
  <2>5. Match(seen, StartsIn(seen), port_dev_list', fme_dev')
    BY <1>1, <2>2 DEF WalkInv
  <2>6. ListInv'
    BY <2>2 DEF ListInv
  <2> QED BY <2>2, <2>3, <2>4, <2>5, <2>6 DEF VarsOK, UafuInv
<1>2. CASE cur # NoDev
  <2>1. /\ cur \in Device /\ cur.id \in Int /\ cur.id >= 0 /\ cur.type \in {"fme", "port"}
        /\ cur.type = "fme" => fme_dev = NoDev
    BY <1>2 DEF VarsOK, BuildInv, Device
  <2>2. Building = {cur}
    BY <1>2, <2>1 DEF Building
  <2>3. registered' = Keys(Listed) \cup {Key(cur)} /\ Keys(Listed \cup {cur}) = Keys(Listed) \cup {Key(cur)}
    BY <1>2 DEF build_info_commit_dev, IdInv, Keys
  <2>4. PICK s \in StartsIn(seen) :
          /\ LastStart(seen, s)
          /\ BuiltAt(seen, s, cur)
          /\ Match(seen, StartsIn(seen) \ {s}, port_dev_list, fme_dev)
    BY <1>2 DEF WalkInv
  <2>5. StartsIn(seen) \subseteq Nat
    <3> HIDE DEF Header
    <3>1. DOMAIN seen = 1..Len(seen) /\ Len(seen) \in Nat
      BY DEF VarsOK
    <3> QED BY <3>1 DEF StartsIn
  <2>6. Match(seen, StartsIn(seen), port_dev_list', fme_dev')
    <3>1. /\ fme_dev' = IF cur.type = "fme" THEN cur ELSE fme_dev
          /\ port_dev_list' = IF cur.type = "port" THEN <<cur>> \o port_dev_list ELSE port_dev_list
      BY DEF build_info_commit_dev
    <3>2. port_dev_list \in Seq(Device)
      BY DEF VarsOK
    <3> QED BY <2>1, <2>4, <2>5, <3>1, <3>2, CommitMatch
  <2>7. "uafu" \in cur.features => cur.mmio = 1
    BY <1>2 DEF UafuInv
  <2>8. CASE cur.type = "fme"
    <3>1. fme_dev' = cur /\ port_dev_list' = port_dev_list /\ fme_dev = NoDev
      BY <2>1, <2>8 DEF build_info_commit_dev
    <3>2. Listed' = Listed \cup {cur}
      BY <1>2, <3>1 DEF Listed
    <3>3. ListInv'
      BY <2>1, <2>8, <3>1 DEF ListInv
    <3> QED BY <2>1, <2>2, <2>3, <2>6, <2>7, <3>1, <3>2, <3>3 DEF VarsOK, UafuInv
  <2>9. CASE cur.type = "port"
    <3> DEFINE l == Len(port_dev_list)
    <3>1. fme_dev' = fme_dev /\ port_dev_list' = <<cur>> \o port_dev_list
      BY <2>9 DEF build_info_commit_dev
    <3>2. l \in Nat /\ DOMAIN port_dev_list = 1..l
      <4> HIDE DEF Device
      <4> QED BY DEF VarsOK
    <3>3. /\ port_dev_list' \in Seq(Device)
          /\ DOMAIN port_dev_list' = 1..(l + 1)
          /\ port_dev_list'[1] = cur
          /\ \A n \in 2..(l + 1) : port_dev_list'[n] = port_dev_list[n - 1]
      <4> HIDE DEF Device
      <4>1. <<cur>> \in Seq(Device) /\ Len(<<cur>>) = 1 /\ <<cur>>[1] = cur
        BY <2>1
      <4>2. PICK c, p : c = cur /\ p = port_dev_list
        OBVIOUS
      <4>3. /\ <<c>> \o p \in Seq(Device) /\ Len(<<c>> \o p) = 1 + Len(p)
            /\ \A n \in 1..(1 + Len(p)) :
                 (<<c>> \o p)[n] = IF n <= 1 THEN <<c>>[n] ELSE p[n - 1]
        BY <4>1, <4>2, ConcatProperties DEF VarsOK
      <4>4. port_dev_list' = <<c>> \o p
        BY <3>1, <4>2
      <4> QED BY <3>2, <4>1, <4>2, <4>3, <4>4
    <3>4. \A n \in 1..(l + 1) : n = 1 \/ (n \in 2..(l + 1) /\ n - 1 \in 1..l)
      BY <3>2
    <3>5. Range(port_dev_list') = Range(port_dev_list) \cup {cur}
      <4>1. \A n \in 1..l : n + 1 \in 2..(l + 1) /\ (n + 1) - 1 = n /\ n + 1 \in 1..(l + 1)
        BY <3>2
      <4>2. 1 \in 1..(l + 1)
        BY <3>2
      <4>3. \A n \in 1..l : port_dev_list'[n + 1] = port_dev_list[n]
        BY <3>3, <4>1
      <4>4. ASSUME NEW d \in Range(port_dev_list) PROVE d \in Range(port_dev_list')
        <5>1. PICK n \in 1..l : d = port_dev_list[n]
          BY <3>2 DEF Range
        <5> QED BY <3>3, <4>1, <4>3, <5>1 DEF Range
      <4>5. cur \in Range(port_dev_list')
        BY <3>3, <4>2 DEF Range
      <4>6. ASSUME NEW d \in Range(port_dev_list') PROVE d \in Range(port_dev_list) \cup {cur}
        <5>1. PICK n \in 1..(l + 1) : d = port_dev_list'[n]
          BY <3>3 DEF Range
        <5> QED BY <3>2, <3>3, <3>4, <5>1 DEF Range
      <4> QED BY <4>4, <4>5, <4>6
    <3>6. Listed' = Listed \cup {cur}
      BY <3>1, <3>5 DEF Listed
    <3>7. \A n \in 1..l : port_dev_list[n].id # cur.id
      <4>1. TAKE n \in 1..l
      <4>2. port_dev_list[n] \in Listed /\ port_dev_list[n].type = "port"
        BY <3>2 DEF ListInv, Listed, Range
      <4>3. Key(cur) \notin Keys(Listed)
        BY <1>2 DEF IdInv
      <4> QED BY <2>9, <4>2, <4>3 DEF Key, Keys
    <3>8. ListInv'
      <4>1. \A n \in 1..l : /\ port_dev_list[n].type = "port" /\ port_dev_list[n].id >= 0
                            /\ \A m \in 1..l : port_dev_list[m].id = port_dev_list[n].id => m = n
        BY <3>2 DEF ListInv
      <4>2. \A n \in 1..(l + 1) : port_dev_list'[n].type = "port" /\ port_dev_list'[n].id >= 0
        BY <2>1, <2>9, <3>3, <3>4, <4>1
      <4>3. ASSUME NEW m \in 1..(l + 1), NEW n \in 1..(l + 1),
                   port_dev_list'[m].id = port_dev_list'[n].id
            PROVE  m = n
        <5>1. CASE m = 1 /\ n # 1
          BY <3>3, <3>4, <3>7, <4>3, <5>1
        <5>2. CASE m # 1 /\ n = 1
          BY <3>3, <3>4, <3>7, <4>3, <5>2
        <5>3. CASE m # 1 /\ n # 1
          <6>1. m - 1 = n - 1
            BY <3>3, <3>4, <4>1, <4>3, <5>3
          <6> QED BY <3>2, <6>1
        <5> QED BY <5>1, <5>2, <5>3
      <4>4. fme_dev' # NoDev => fme_dev'.type = "fme" /\ fme_dev'.id >= 0
        BY <3>1 DEF ListInv
      <4> QED BY <3>3, <4>2, <4>3, <4>4 DEF ListInv
    <3> QED BY <2>2, <2>3, <2>6, <2>7, <3>1, <3>3, <3>6, <3>8 DEF VarsOK, UafuInv
  <2> QED BY <2>1, <2>8, <2>9
<1> QED BY <1>1, <1>2

\* The device created after a commit has an id of its own, or none.
LEMMA CreateStep ==
  ASSUME IndInv, state = "parsing", build_info_commit_dev,
         NEW type \in {"fme", "port"}, NEW mmio \in {0, 1}, NEW id \in Int,
         cur' = NewDev(type, id, mmio),
         \/ id = FreeId(type) /\ ids' = ids \cup {Key(cur')}
         \/ id = -1 /\ ids' = ids
  PROVE  /\ cur' \in Device /\ cur'.type = type /\ cur'.mmio = mmio /\ cur'.id = id
         /\ cur'.features = {}
         /\ id = -1 \/ id >= 0
         /\ ids' = Keys((Listed \cup Building)')
         /\ Key(cur') \notin Keys(Listed')
<1> USE DEF IndInv
<1>1. /\ cur' \in Device /\ cur'.type = type /\ cur'.mmio = mmio /\ cur'.id = id
      /\ cur'.features = {}
  BY DEF NewDev, VarsOK, Device
<1>2. Listed' = Listed \cup Building
  BY CommitStep
<1>3. ids = Keys(Listed')
  BY <1>2 DEF IdInv
<1>4. IsFiniteSet(ids)
  BY IdsCounted
<1>5. Key(cur') = <<type, id>> /\ cur' # NoDev
  BY <1>1 DEF Key, Device, NoDev
<1>6. CASE id = FreeId(type) /\ ids' = ids \cup {Key(cur')}
  <2>1. id \in Nat /\ <<type, id>> \notin ids
    BY <1>4, <1>6, FreeIdIsFree
  <2>2. Building' = {cur'}
    BY <1>1, <1>5, <2>1 DEF Building
  <2>3. Keys(Listed' \cup {cur'}) = Keys(Listed') \cup {Key(cur')}
    BY DEF Keys
  <2> QED BY <1>1, <1>3, <1>5, <1>6, <2>1, <2>2, <2>3
<1>7. CASE id = -1 /\ ids' = ids
  <2>1. Building' = {}
    BY <1>1, <1>7 DEF Building
  <2>2. (Listed \cup Building)' = Listed'
    BY <2>1
  <2>3. \A d \in Listed' : d.id >= 0 /\ Key(d) # <<type, id>>
    <3>1. \A d \in Listed : d.id \in Int /\ d.id >= 0
      BY ListedFacts DEF Device
    <3>2. \A d \in Building : d.id \in Int /\ d.id >= 0
      BY DEF Building, VarsOK, Device
    <3>3. \A d \in Listed' : d.id \in Int /\ d.id >= 0
      BY <1>2, <3>1, <3>2
    <3> QED BY <1>7, <3>3 DEF Key
  <2> QED BY <1>1, <1>3, <1>5, <1>7, <2>2, <2>3 DEF Keys
<1> QED BY <1>6, <1>7

\* It belongs to the header just met.
LEMMA WalkCreates ==
  ASSUME IndInv, state = "parsing", build_info_commit_dev,
         NEW h \in Header, seen' = Append(seen, h), h.kind \in StartKinds,
         cur' \in Device, cur'.type = h.kind, cur'.features = {}, state' # "bound"
  PROVE  WalkInv'
<1> USE DEF IndInv
<1>1. seen \in Seq(Header)
  BY DEF VarsOK
<1> DEFINE l == Len(seen) + 1
<1>2. /\ seen'[l] = h /\ StartsIn(seen') = StartsIn(seen) \cup {l}
      /\ StartsIn(seen) \subseteq 1..Len(seen) /\ Len(seen) \in Nat
  BY <1>1, AppendFacts, AppendStarts
<1>3. LastStart(seen', l)
  BY <1>2 DEF LastStart
<1>4. StartsIn(seen') \ {l} = StartsIn(seen)
  BY <1>2
<1>5. BuiltAt(seen', l, cur')
  <2>1. FeaturesIn(seen', l) = {}
    BY <1>1, NewFeatures
  <2> QED BY <1>2, <2>1 DEF BuiltAt
<1>6. Match(seen', StartsIn(seen), port_dev_list', fme_dev')
  <2>1. PICK w, S : w = seen /\ S = StartsIn(seen)
    OBVIOUS
  <2>2. Match(w, S, port_dev_list', fme_dev')
    BY <2>1, CommitStep
  <2>3. Match(Append(w, h), S, port_dev_list', fme_dev')
    BY <1>1, <2>1, <2>2, AppendMatch
  <2> QED BY <2>1, <2>3
<1>7. cur' # NoDev
  BY DEF Device, NoDev
<1>8. \E s \in StartsIn(seen') :
         /\ LastStart(seen', s)
         /\ BuiltAt(seen', s, cur')
         /\ Match(seen', StartsIn(seen') \ {s}, port_dev_list', fme_dev')
  <2> HIDE DEF l
  <2>1. l \in StartsIn(seen')
    BY <1>2
  <2>2. Match(seen', StartsIn(seen') \ {l}, port_dev_list', fme_dev')
    BY <1>4, <1>6
  <2> QED BY <1>3, <1>5, <2>1, <2>2
<1> QED BY <1>7, <1>8 DEF WalkInv

\* What a header that starts no device adds to the one being built.
Gain(h, dev) ==
  (IF h.kind = "private" /\ h.id \in Features THEN {h.id} ELSE {})
    \cup (IF dev.type = "port" /\ h.kind = "afu" THEN {"uafu"} ELSE {})

\* A header that starts no device belongs to the one being built.
LEMMA WalkGoesOn ==
  ASSUME IndInv, state = "parsing", NEW h \in Header,
         seen' = Append(seen, h), h.kind \notin StartKinds,
         UNCHANGED <<port_dev_list, fme_dev>>,
         state' \in {"parsing", "failing"},
         state' = "parsing" =>
           \/ cur = NoDev /\ cur' = NoDev
           \/ cur # NoDev /\ cur' # NoDev /\ cur'.type = cur.type
                /\ cur'.features = cur.features \cup Gain(h, cur)
  PROVE  WalkInv'
<1> USE DEF IndInv
<1>1. seen \in Seq(Header)
  BY DEF VarsOK
<1>2. StartsIn(seen') = StartsIn(seen)
  BY <1>1, AppendStarts
<1>3. SUFFICES ASSUME state' = "parsing" PROVE WalkInv'
  BY DEF WalkInv
<1>4. PICK w, v, list, fme : w = seen /\ v = seen' /\ list = port_dev_list /\ fme = fme_dev
  OBVIOUS
<1>5. v = Append(w, h) /\ StartsIn(v) = StartsIn(w) /\ w \in Seq(Header)
  BY <1>1, <1>2, <1>4
<1>6. port_dev_list' = list /\ fme_dev' = fme
  BY <1>4
<1>7. CASE cur = NoDev /\ cur' = NoDev
  <2>1. StartsIn(w) = {} /\ Match(w, {}, list, fme)
    BY <1>4, <1>7 DEF WalkInv
  <2>2. Match(v, {}, list, fme)
    BY <1>5, <2>1, AppendMatch
  <2> QED BY <1>3, <1>4, <1>5, <1>6, <1>7, <2>1, <2>2 DEF WalkInv
<1>8. CASE cur # NoDev /\ cur' # NoDev /\ cur'.type = cur.type
             /\ cur'.features = cur.features \cup Gain(h, cur)
  <2>1. PICK s \in StartsIn(w) : /\ LastStart(w, s)
                                 /\ BuiltAt(w, s, cur)
                                 /\ Match(w, StartsIn(w) \ {s}, list, fme)
    BY <1>4, <1>8 DEF WalkInv
  <2>2. LastStart(v, s)
    BY <1>5, <2>1 DEF LastStart
  <2>3. v[s] = w[s] /\ StartsIn(w) \subseteq Nat
    BY <1>5, <2>1, AppendFacts, AppendStarts
  <2>4. FeaturesIn(v, s) = FeaturesIn(w, s)
             \cup (IF h.kind = "private" /\ h.id \in Features THEN {h.id} ELSE {})
             \cup (IF w[s].kind = "port" /\ h.kind = "afu" THEN {"uafu"} ELSE {})
    BY <1>5, <2>1, LastFeatures
  <2>5. BuiltAt(v, s, cur')
    BY <1>8, <2>1, <2>3, <2>4 DEF BuiltAt, Gain
  <2>6. Match(v, StartsIn(v) \ {s}, list, fme)
    <3>1. \A i \in StartsIn(w) \ {s} : s > i
      BY <2>1, <2>3 DEF LastStart
    <3>2. \A i \in StartsIn(w) \ {s} : \E k \in StartsIn(w) : k > i
      BY <2>1, <3>1
    <3> DEFINE S == StartsIn(w) \ {s}
    <3>3. S \subseteq StartsIn(w) /\ Match(w, S, list, fme)
      BY <2>1
    <3>4. Match(Append(w, h), S, list, fme)
      <4> HIDE DEF S
      <4> QED BY <1>5, <3>2, <3>3, AppendMatch DEF S
    <3> QED BY <1>5, <3>4
  <2>7. \E q \in StartsIn(v) : /\ LastStart(v, q)
                               /\ BuiltAt(v, q, cur')
                               /\ Match(v, StartsIn(v) \ {q}, list, fme)
    BY <1>5, <2>1, <2>2, <2>5, <2>6
  <2> QED BY <1>3, <1>4, <1>6, <1>8, <2>7 DEF WalkInv
<1> QED BY <1>3, <1>7, <1>8

-----------------------------------------------------------------------------
(* The invariant is inductive.                                             *)

\* The invariant holds before the first probe.
LEMMA InitInd == Init => IndInv
<1> SUFFICES ASSUME Init PROVE IndInv
  OBVIOUS
<1> USE DEF Init
<1>1. Listed = {} /\ Building = {}
  BY DEF Listed, Building, Range
<1>2. VarsOK
  BY EnumAssumption DEF VarsOK
<1>3. ListInv
  BY DEF ListInv
<1>4. IdInv
  BY <1>1 DEF IdInv, Keys
<1>5. BuildInv /\ UafuInv
  BY <1>1 DEF BuildInv, UafuInv
<1>6. WalkInv
  BY DEF WalkInv
<1> QED BY <1>2, <1>3, <1>4, <1>5, <1>6 DEF IndInv

\* A header starts a device.
LEMMA CreateInd ==
  ASSUME IndInv, NEW h \in Header, Meet(h), build_info_commit_dev,
         NEW type \in {"fme", "port"}, h.kind = type,
         NEW mmio \in {0, 1}, NEW id \in Int,
         cur' = NewDev(type, id, mmio),
         \/ id = FreeId(type) /\ ids' = ids \cup {Key(cur')}
         \/ id = -1 /\ ids' = ids,
         state' \in {"parsing", "failing", "oops"}, uafu_size' \in {0, 1},
         state' = "parsing" => /\ id # -1
                               /\ type = "fme" => fme_dev' = NoDev
                               /\ type = "port" => uafu_size' = mmio
  PROVE  IndInv'
<1>1. state = "parsing" /\ seen' = Append(seen, h) /\ part' = part /\ pr' = pr
  BY DEF Meet
<1>2. /\ cur' \in Device /\ cur'.type = type /\ cur'.mmio = mmio /\ cur'.id = id
      /\ cur'.features = {}
      /\ id = -1 \/ id >= 0
      /\ ids' = Keys((Listed \cup Building)')
      /\ Key(cur') \notin Keys(Listed')
  BY <1>1, CreateStep
<1>3. /\ fme_dev' \in Device \cup {NoDev} /\ port_dev_list' \in Seq(Device)
      /\ ListInv'
      /\ registered' = Keys(Listed')
      /\ \A d \in Listed' : "uafu" \in d.features => d.mmio = 1
  BY <1>1, CommitStep
<1>4. VarsOK'
  <2>1. seen' \in Seq(Header)
    BY <1>1, AppendFacts DEF IndInv, VarsOK
  <2> QED BY <1>1, <1>2, <1>3, <2>1 DEF IndInv, VarsOK
<1>5. IdInv'
  BY <1>2, <1>3 DEF IdInv
<1>6. BuildInv'
  BY <1>2 DEF BuildInv
<1>7. UafuInv'
  BY <1>2, <1>3 DEF UafuInv
<1>8. WalkInv'
  BY <1>1, <1>2, WalkCreates DEF StartKinds
<1> QED BY <1>3, <1>4, <1>5, <1>6, <1>7, <1>8 DEF IndInv

\* A header starts a device that cannot be allocated.
LEMMA NoDeviceInd ==
  ASSUME IndInv, NEW h \in Header, Meet(h), build_info_commit_dev,
         cur' = NoDev, ids' = ids,
         state' \in {"failing", "oops"}, uafu_size' \in {0, 1}
  PROVE  IndInv'
<1>1. state = "parsing" /\ seen' = Append(seen, h) /\ part' = part /\ pr' = pr
  BY DEF Meet
<1>2. /\ fme_dev' \in Device \cup {NoDev} /\ port_dev_list' \in Seq(Device)
      /\ ListInv'
      /\ Listed' = Listed \cup Building
      /\ registered' = Keys(Listed')
      /\ \A d \in Listed' : "uafu" \in d.features => d.mmio = 1
  BY <1>1, CommitStep
<1>3. VarsOK'
  <2>1. seen' \in Seq(Header)
    BY <1>1, AppendFacts DEF IndInv, VarsOK
  <2> QED BY <1>1, <1>2, <2>1 DEF IndInv, VarsOK
<1>4. IdInv'
  <2>1. Building' = {}
    BY DEF Building
  <2>2. (Listed \cup Building)' = Listed \cup Building
    BY <1>2, <2>1
  <2> QED BY <1>2, <2>2 DEF IndInv, IdInv
<1>5. BuildInv' /\ UafuInv'
  BY <1>2 DEF BuildInv, UafuInv
<1>6. WalkInv'
  BY DEF WalkInv
<1> QED BY <1>2, <1>3, <1>4, <1>5, <1>6 DEF IndInv

\* A step that builds no other device and commits none.
LEMMA KeepInd ==
  ASSUME IndInv, UNCHANGED devVars, WalkInv',
         part' \in 0..MaxPorts, seen' \in Seq(Header), pr' \in {"none", "found", "missing"},
         state = state' \/ (state = "parsing" /\ state' = "failing"),
         uafu_size' \in {0, uafu_size} \/ (uafu_size' \in {0, 1} /\ state' = "failing"),
         \/ cur' = cur
         \/ /\ cur # NoDev
            /\ \E f \in Features \cup {"uafu"} :
                 cur' = [cur EXCEPT !.features = @ \cup {f}] /\ (f = "uafu" => cur.mmio = 1)
  PROVE  IndInv'
<1> USE DEF IndInv
<1>1. fme_dev' = fme_dev /\ port_dev_list' = port_dev_list /\ registered' = registered /\ ids' = ids
  BY DEF devVars
<1>2. Listed' = Listed
  BY <1>1 DEF Listed
<1>3. /\ cur' \in Device \cup {NoDev}
      /\ cur' = NoDev <=> cur = NoDev
      /\ cur # NoDev => /\ cur'.id = cur.id /\ cur'.type = cur.type /\ cur'.mmio = cur.mmio
                        /\ "uafu" \in cur'.features => "uafu" \in cur.features \/ cur.mmio = 1
  <2>1. CASE cur' = cur
    BY <2>1 DEF VarsOK
  <2>2. CASE cur' # cur
    <3>1. PICK f \in Features \cup {"uafu"} :
            cur' = [cur EXCEPT !.features = @ \cup {f}] /\ (f = "uafu" => cur.mmio = 1)
      BY <2>2
    <3>2. cur \in Device /\ cur # NoDev
      BY <2>2 DEF VarsOK
    <3>3. cur' \in Device /\ cur'.features = cur.features \cup {f}
          /\ cur'.id = cur.id /\ cur'.type = cur.type /\ cur'.mmio = cur.mmio
      BY <3>1, <3>2 DEF Device
    <3>4. cur' # NoDev
      BY <3>3 DEF Device, NoDev
    <3> QED BY <3>1, <3>2, <3>3, <3>4
  <2> QED BY <2>1, <2>2
<1>4. VarsOK'
  BY <1>1, <1>3 DEF VarsOK
<1>5. ListInv'
  BY <1>1 DEF ListInv
<1>6. Keys(Building') = Keys(Building) /\ (cur # NoDev => Key(cur') = Key(cur))
  BY <1>3 DEF Building, Keys, Key
<1>7. IdInv'
  <2>1. \A A, B : Keys(A \cup B) = Keys(A) \cup Keys(B)
    BY DEF Keys
  <2>2. ids' = Keys((Listed \cup Building)')
    <3>1. Keys(Listed \cup Building) = Keys(Listed) \cup Keys(Building)
      BY <2>1
    <3>2. Keys(Listed' \cup Building') = Keys(Listed') \cup Keys(Building')
      BY <2>1
    <3> QED BY <1>1, <1>2, <1>6, <3>1, <3>2 DEF IdInv
  <2>3. cur' # NoDev => Key(cur') \notin Keys(Listed')
    BY <1>2, <1>3, <1>6 DEF IdInv
  <2>4. registered' = IF state' = "destroying" THEN {} ELSE Keys(Listed')
    BY <1>1, <1>2 DEF IdInv
  <2> QED BY <2>2, <2>3, <2>4 DEF IdInv
<1>8. BuildInv'
  BY <1>1, <1>3 DEF BuildInv
<1>9. UafuInv'
  BY <1>2, <1>3 DEF UafuInv
<1> QED BY <1>4, <1>5, <1>7, <1>8, <1>9

\* A header starts a device, but the one before it cannot be committed.
LEMMA CommitFailsInd ==
  ASSUME IndInv, NEW h \in Header, Meet(h), CommitFails, state' = "failing",
         uafu_size' \in {0, 1}
  PROVE  IndInv'
<1>1. state = "parsing" /\ seen' = Append(seen, h) /\ part' = part /\ pr' = pr
  BY DEF Meet
<1>2. seen' \in Seq(Header) /\ part' \in 0..MaxPorts /\ pr' \in {"none", "found", "missing"}
  BY <1>1, AppendFacts DEF IndInv, VarsOK
<1>3. WalkInv'
  BY DEF WalkInv
<1>4. cur' = cur /\ UNCHANGED devVars
  BY DEF CommitFails
<1> QED BY <1>1, <1>2, <1>3, <1>4, KeepInd

\* A header starts a device and a part of creating it fails.
LEMMA CreateFailsInd ==
  ASSUME IndInv, NEW h \in Header, Meet(h), NEW type \in {"fme", "port"}, h.kind = type,
         NEW mmio \in {0, 1}, CreateFails(type, mmio),
         state' \in {"failing", "oops"}, uafu_size' \in {0, 1}
  PROVE  IndInv'
<1>1. build_info_commit_dev
  BY DEF CreateFails
<1>2. CASE cur' = NoDev /\ ids' = ids
  BY <1>1, <1>2, NoDeviceInd
<1>3. CASE cur' = NewDev(type, -1, mmio) /\ ids' = ids
  BY <1>1, <1>3, CreateInd
<1>4. CASE cur' = NewDev(type, FreeId(type), mmio) /\ ids' = ids \cup {Key(cur')}
  <2>1. FreeId(type) \in Int
    BY FreeIdIsId
  <2> QED BY <1>1, <1>4, <2>1, CreateInd
<1> QED BY <1>2, <1>3, <1>4 DEF CreateFails

\* A header that starts no device.
LEMMA FeatureInd ==
  ASSUME IndInv, NEW h \in Header, Meet(h), h.kind \notin StartKinds, UNCHANGED devVars,
         state' \in {"parsing", "failing"},
         uafu_size' \in {0, uafu_size},
         state' = "failing" => cur' = cur,
         state' = "parsing" =>
           \/ cur' = cur /\ (cur = NoDev \/ Gain(h, cur) = {})
           \/ /\ cur # NoDev
              /\ \E f \in Features \cup {"uafu"} :
                   /\ cur' = [cur EXCEPT !.features = @ \cup {f}]
                   /\ f = "uafu" => cur.mmio = 1
                   /\ Gain(h, cur) = {f}
  PROVE  IndInv'
<1>1. state = "parsing" /\ seen' = Append(seen, h) /\ part' = part /\ pr' = pr
  BY DEF Meet
<1>2. seen' \in Seq(Header) /\ part' \in 0..MaxPorts /\ pr' \in {"none", "found", "missing"}
  BY <1>1, AppendFacts DEF IndInv, VarsOK
<1>3. UNCHANGED <<port_dev_list, fme_dev>>
  BY DEF devVars
<1>4. CASE cur' = cur /\ (state' = "failing" \/ cur = NoDev \/ Gain(h, cur) = {})
  <2>1. cur'.features = cur.features \cup {}
    BY <1>4
  <2>2. WalkInv'
    BY <1>1, <1>3, <1>4, <2>1, WalkGoesOn
  <2> QED BY <1>1, <1>2, <1>4, <2>2, KeepInd
<1>5. CASE /\ state' = "parsing" /\ cur # NoDev
           /\ \E f \in Features \cup {"uafu"} :
                   /\ cur' = [cur EXCEPT !.features = @ \cup {f}]
                   /\ f = "uafu" => cur.mmio = 1
                   /\ Gain(h, cur) = {f}
  <2>1. PICK f \in Features \cup {"uafu"} :
                   /\ cur' = [cur EXCEPT !.features = @ \cup {f}]
                   /\ f = "uafu" => cur.mmio = 1
                   /\ Gain(h, cur) = {f}
    BY <1>5
  <2>2. cur \in Device
    BY <1>5 DEF IndInv, VarsOK
  <2>3. cur' \in Device /\ cur'.type = cur.type /\ cur'.features = cur.features \cup {f}
    BY <2>1, <2>2 DEF Device
  <2>4. cur' # NoDev
    BY <2>3 DEF Device, NoDev
  <2>5. WalkInv'
    BY <1>1, <1>3, <1>5, <2>1, <2>3, <2>4, WalkGoesOn
  <2>6. \E g \in Features \cup {"uafu"} :
          cur' = [cur EXCEPT !.features = @ \cup {g}] /\ (g = "uafu" => cur.mmio = 1)
    BY <2>1
  <2> QED BY <1>1, <1>2, <1>5, <2>5, <2>6, KeepInd
<1> QED BY <1>4, <1>5

\* Every step keeps the invariant.
LEMMA InductiveStep == IndInv /\ [Next]_vars => IndInv'
<1> SUFFICES ASSUME IndInv, [Next]_vars PROVE IndInv'
  OBVIOUS
<1>a. /\ part \in 0..MaxPorts /\ seen \in Seq(Header) /\ pr \in {"none", "found", "missing"}
      /\ uafu_size \in {0, 1} /\ cur \in Device \cup {NoDev}
  BY DEF IndInv, VarsOK
<1>b. \A type \in {"fme", "port"} : FreeId(type) \in Int /\ FreeId(type) # -1
  <2>1. \A type \in {"fme", "port"} : FreeId(type) \in Nat
    BY FreeIdIsId
  <2> QED BY <2>1
<1>1. CASE Probe
  <2>1. /\ state = "unbound" /\ state' = "parsing" /\ part' = 0 /\ seen' = <<>>
        /\ cur' = NoDev /\ pr' = "none"
        /\ uafu_size' = uafu_size /\ fme_dev' = fme_dev /\ port_dev_list' = port_dev_list
        /\ registered' = registered /\ ids' = ids
    BY <1>1 DEF Probe, devVars
  <2>2. cur = NoDev /\ fme_dev = NoDev /\ port_dev_list = <<>>
    BY <2>1 DEF IndInv, BuildInv
  <2>3. Listed' = Listed /\ Building' = Building
    BY <2>1, <2>2 DEF Listed, Building
  <2>4. VarsOK'
    BY <2>1, <1>a, EnumAssumption DEF IndInv, VarsOK
  <2>5. ListInv' /\ BuildInv' /\ UafuInv'
    BY <2>1, <2>2, <2>3 DEF IndInv, ListInv, BuildInv, UafuInv
  <2>6. IdInv'
    BY <2>1, <2>3 DEF IndInv, IdInv
  <2>7. WalkInv'
    <3> PICK w, e : w = <<>> /\ e = {}
      OBVIOUS
    <3>1. StartsIn(w) = {} /\ KindIn(w, {}, "port") = {} /\ KindIn(w, {}, "fme") = {}
      BY DEF StartsIn, KindIn
    <3>2. PortsMatch(w, {}, <<>>)
      <4> DEFINE at == [n \in {} |-> n]
      <4>1. /\ at \in [{} -> {}] /\ Range(at) = {} /\ DOMAIN at = {}
        BY DEF Range
      <4>2. DOMAIN <<>> = {}
        OBVIOUS
      <4> HIDE DEF at
      <4> QED BY <4>1, <4>2 DEF PortsMatch
    <3>3. FmeMatches(w, {}, NoDev)
      BY DEF FmeMatches
    <3>4. Match(w, {}, <<>>, NoDev)
      BY <3>1, <3>2, <3>3 DEF Match
    <3> QED BY <2>1, <2>2, <3>1, <3>4 DEF WalkInv
  <2> QED BY <2>4, <2>5, <2>6, <2>7 DEF IndInv
<1>2. CASE ParseFme
  <2> DEFINE h == [kind |-> "fme"]
  <2>1. h \in Header /\ h.kind = "fme"
    BY DEF Header
  <2>2. /\ Meet(h) /\ build_info_commit_dev /\ cur' = NewDev("fme", FreeId("fme"), 0)
        /\ ids' = ids \cup {Key(cur')}
        /\ state' = IF fme_dev' = NoDev THEN "parsing" ELSE "failing"
        /\ uafu_size' = uafu_size
    BY <1>2 DEF ParseFme, CreateDev
  <2> HIDE DEF h
  <2> QED BY <1>a, <1>b, <2>1, <2>2, CreateInd
<1>3. CASE ParseFmeFails
  <2> DEFINE h == [kind |-> "fme"]
  <2>1. h \in Header /\ h.kind = "fme"
    BY DEF Header
  <2>2. Meet(h) /\ (CommitFails \/ CreateFails("fme", 0)) /\ state' = "failing" /\ uafu_size' = uafu_size
    BY <1>3 DEF ParseFmeFails
  <2> HIDE DEF h
  <2> QED BY <1>a, <2>1, <2>2, CommitFailsInd, CreateFailsInd
<1>4. ASSUME NEW mmio \in {0, 1}, ParsePort(mmio) PROVE IndInv'
  <2> DEFINE h == [kind |-> "port", mmio |-> mmio]
  <2>1. h \in Header /\ h.kind = "port"
    BY DEF Header
  <2>2. /\ Meet(h) /\ build_info_commit_dev /\ cur' = NewDev("port", FreeId("port"), mmio)
        /\ ids' = ids \cup {Key(cur')}
        /\ state' = state /\ uafu_size' = mmio
    BY <1>4 DEF ParsePort, CreateDev, enable_port_uafu
  <2>3. state = "parsing"
    BY <2>2 DEF Meet
  <2> HIDE DEF h
  <2> QED BY <1>a, <1>b, <2>1, <2>2, <2>3, CreateInd
<1>5. ASSUME NEW mmio \in {0, 1}, ParsePortFails(mmio) PROVE IndInv'
  <2> DEFINE h == [kind |-> "port", mmio |-> mmio]
  <2>1. h \in Header /\ h.kind = "port"
    BY DEF Header
  <2>2. /\ Meet(h) /\ uafu_size' = mmio
        /\ \/ CommitFails /\ state' = "failing"
           \/ CreateFails("port", mmio) /\ state' \in {"oops", "failing"}
    BY <1>5 DEF ParsePortFails, enable_port_uafu
  <2> HIDE DEF h
  <2> QED BY <2>1, <2>2, CommitFailsInd, CreateFailsInd
<1>6. ASSUME NEW id \in Features \cup {"unsupported"}, ParsePrivate(id) PROVE IndInv'
  <2> DEFINE h == [kind |-> "private", id |-> id]
  <2>1. h \in Header /\ h.kind = "private" /\ h.id = id /\ h.kind \notin StartKinds
    BY DEF Header, StartKinds
  <2>2. /\ Meet(h) /\ cur # NoDev /\ state' = state /\ uafu_size' = uafu_size
        /\ UNCHANGED devVars
        /\ id \in Features => cur' = [cur EXCEPT !.features = @ \cup {id}]
        /\ id \notin Features => cur' = cur
    BY <1>6 DEF ParsePrivate, AddFeature
  <2>3. state' = "parsing"
    BY <2>2 DEF Meet
  <2> HIDE DEF h
  <2>4. Gain(h, cur) = IF id \in Features THEN {id} ELSE {}
    BY <2>1 DEF Gain
  <2>5. id \in Features => id # "uafu"
    BY EnumAssumption
  <2> QED BY <1>a, <2>1, <2>2, <2>3, <2>4, <2>5, FeatureInd
<1>7. ASSUME NEW id \in Features \cup {"unsupported"}, ParsePrivateFails(id) PROVE IndInv'
  <2> DEFINE h == [kind |-> "private", id |-> id]
  <2>1. h \in Header /\ h.kind \notin StartKinds
    BY DEF Header, StartKinds
  <2>2. Meet(h) /\ state' = "failing" /\ cur' = cur /\ uafu_size' = uafu_size /\ UNCHANGED devVars
    BY <1>7 DEF ParsePrivateFails
  <2> HIDE DEF h
  <2> QED BY <1>a, <2>1, <2>2, FeatureInd
<1>8. CASE ParseAfu
  <2> DEFINE h == [kind |-> "afu"]
  <2>1. h \in Header /\ h.kind = "afu" /\ h.kind \notin StartKinds
    BY DEF Header, StartKinds
  <2>2. Meet(h) /\ UNCHANGED devVars /\ state = "parsing"
    BY <1>8 DEF ParseAfu, Meet
  <2> HIDE DEF h
  <2>3. Gain(h, cur) = IF cur.type = "port" THEN {"uafu"} ELSE {}
    BY <2>1 DEF Gain
  <2>4. CASE cur.type # "port"
    <3>1. UNCHANGED <<state, cur, uafu_size>>
      BY <1>8, <2>4 DEF ParseAfu
    <3> QED BY <1>a, <2>1, <2>2, <2>3, <2>4, <3>1, FeatureInd
  <2>5. CASE cur.type = "port" /\ uafu_size = 1 /\ uafu_size' = 0 /\ AddFeature("uafu") /\ state' = state
    <3>1. cur # NoDev
      BY <2>5 DEF NoDev
    <3>2. cur.mmio = 1
      BY <2>2, <2>5, <3>1 DEF IndInv, BuildInv
    <3>3. \E f \in Features \cup {"uafu"} :
                   /\ cur' = [cur EXCEPT !.features = @ \cup {f}]
                   /\ f = "uafu" => cur.mmio = 1
                   /\ Gain(h, cur) = {f}
      BY <2>3, <2>5, <3>2 DEF AddFeature
    <3> QED BY <1>a, <2>1, <2>2, <2>5, <3>1, <3>3, FeatureInd
  <2>6. CASE uafu_size' = 0 /\ state' = "failing" /\ cur' = cur
    BY <1>a, <2>1, <2>2, <2>6, FeatureInd
  <2> QED BY <1>8, <2>4, <2>5, <2>6 DEF ParseAfu
<1>9. CASE ParseUnknown
  <2> DEFINE h == [kind |-> "unknown"]
  <2>1. h \in Header /\ h.kind = "unknown" /\ h.kind \notin StartKinds
    BY DEF Header, StartKinds
  <2>2. Meet(h) /\ UNCHANGED devVars /\ state' = "parsing" /\ cur' = cur /\ uafu_size' = uafu_size
    BY <1>9 DEF ParseUnknown, Meet
  <2> HIDE DEF h
  <2>3. Gain(h, cur) = {}
    BY <2>1 DEF Gain
  <2> QED BY <1>a, <2>1, <2>2, <2>3, FeatureInd
<1>10. CASE NextList
  <2>1. /\ UNCHANGED <<state, seen, cur, uafu_size, devVars, pr>>
        /\ part' \in 0..MaxPorts
    BY <1>a, <1>10, EnumAssumption DEF NextList
  <2>2. WalkInv'
    BY <2>1 DEF IndInv, WalkInv, devVars
  <2> QED BY <1>a, <2>1, <2>2, KeepInd
<1>11. CASE WalkFails
  <2>1. /\ UNCHANGED <<part, seen, cur, uafu_size, devVars, pr>>
        /\ state = "parsing" /\ state' = "failing"
    BY <1>11 DEF WalkFails, walkVars
  <2>2. WalkInv'
    BY <2>1 DEF WalkInv
  <2> QED BY <1>a, <2>1, <2>2, KeepInd
<1>12. CASE WalkEnds
  <2>1. state = "parsing" /\ part' = part /\ seen' = seen /\ uafu_size' = uafu_size /\ ids' = ids /\ pr' = pr
    BY <1>12 DEF WalkEnds
  <2>2. CASE build_info_commit_dev /\ cur' = NoDev /\ state' = "bound"
    <3>1. /\ fme_dev' \in Device \cup {NoDev} /\ port_dev_list' \in Seq(Device)
          /\ ListInv'
          /\ Listed' = Listed \cup Building
          /\ registered' = Keys(Listed')
          /\ \A d \in Listed' : "uafu" \in d.features => d.mmio = 1
          /\ Match(seen, StartsIn(seen), port_dev_list', fme_dev')
      BY <2>1, <2>2, CommitStep
    <3>2. VarsOK'
      BY <1>a, <2>1, <2>2, <3>1 DEF VarsOK
    <3>3. IdInv'
      <4>1. (Listed \cup Building)' = Listed \cup Building
        BY <2>2, <3>1 DEF Building
      <4> QED BY <2>1, <2>2, <3>1, <4>1 DEF IndInv, IdInv
    <3>4. BuildInv' /\ UafuInv'
      BY <2>2, <3>1 DEF BuildInv, UafuInv
    <3>5. WalkInv'
      BY <2>1, <2>2, <3>1 DEF WalkInv
    <3> QED BY <3>1, <3>2, <3>3, <3>4, <3>5 DEF IndInv
  <2>3. CASE state' = "failing" /\ UNCHANGED <<cur, fme_dev, port_dev_list, registered>>
    <3>1. WalkInv'
      BY <2>3 DEF WalkInv
    <3>2. UNCHANGED devVars
      BY <2>1, <2>3 DEF devVars
    <3> QED BY <1>a, <2>1, <2>3, <3>1, <3>2, KeepInd
  <2> QED BY <1>12, <2>2, <2>3 DEF WalkEnds
<1>13. CASE build_info_free
  <2>1. /\ state = "failing" /\ state' = "destroying" /\ registered' = {} /\ cur' = NoDev
        /\ ids' = ids \ (IF cur = NoDev THEN {} ELSE {Key(cur)})
        /\ UNCHANGED <<part, seen, uafu_size, fme_dev, port_dev_list, pr>>
    BY <1>13 DEF build_info_free
  <2>2. Listed' = Listed /\ Building' = {}
    BY <2>1 DEF Listed, Building
  <2>3. ids' = Keys(Listed)
    <3>1. ids = Keys(Listed \cup Building)
      BY DEF IndInv, IdInv
    <3>2. CASE cur = NoDev
      BY <2>1, <3>1, <3>2 DEF Building
    <3>3. CASE cur # NoDev
      <4>1. Key(cur) \notin Keys(Listed)
        BY <3>3 DEF IndInv, IdInv
      <4>2. Building = {} \/ Building = {cur}
        BY DEF Building
      <4>3. ids = Keys(Listed) \/ ids = Keys(Listed) \cup {Key(cur)}
        BY <3>1, <4>2 DEF Keys
      <4> QED BY <2>1, <3>3, <4>1, <4>3
    <3> QED BY <3>2, <3>3
  <2>4. VarsOK' /\ ListInv' /\ BuildInv' /\ UafuInv'
    BY <2>1, <2>2 DEF IndInv, VarsOK, ListInv, BuildInv, UafuInv
  <2>5. IdInv'
    BY <2>1, <2>2, <2>3 DEF IdInv
  <2>6. WalkInv'
    BY <2>1 DEF WalkInv
  <2> QED BY <2>4, <2>5, <2>6 DEF IndInv
<1>14. CASE PciRemove
  <2>1. /\ state = "bound" /\ state' = "destroying" /\ registered' = {}
        /\ UNCHANGED <<part, seen, cur, uafu_size, fme_dev, port_dev_list, ids, pr>>
    BY <1>14 DEF PciRemove, walkVars
  <2>2. Listed' = Listed /\ Building' = Building
    BY <2>1 DEF Listed, Building
  <2>3. VarsOK' /\ ListInv' /\ BuildInv' /\ UafuInv'
    BY <2>1, <2>2 DEF IndInv, VarsOK, ListInv, BuildInv, UafuInv
  <2>4. IdInv'
    BY <2>1, <2>2 DEF IndInv, IdInv
  <2>5. WalkInv'
    BY <2>1 DEF WalkInv
  <2> QED BY <2>3, <2>4, <2>5 DEF IndInv
<1>15. CASE destroy_drvdata
  <2>1. /\ state = "destroying" /\ state' = "unbound" /\ fme_dev' = NoDev /\ port_dev_list' = <<>>
        /\ ids' = ids \ Keys(Listed)
        /\ UNCHANGED <<part, seen, cur, uafu_size, registered, pr>>
    BY <1>15 DEF destroy_drvdata, walkVars, Keys
  <2>2. cur = NoDev /\ registered = {} /\ ids = Keys(Listed \cup Building) /\ Building = {}
    BY <2>1 DEF IndInv, BuildInv, IdInv, Building
  <2>3. Listed' = {} /\ Building' = {} /\ ids' = {}
    BY <2>1, <2>2 DEF Listed, Building, Range
  <2>4. VarsOK' /\ ListInv' /\ BuildInv' /\ UafuInv'
    BY <1>a, <2>1, <2>2, <2>3 DEF IndInv, VarsOK, ListInv, BuildInv, UafuInv
  <2>5. IdInv'
    BY <2>1, <2>2, <2>3 DEF IdInv, Keys
  <2>6. WalkInv'
    BY <2>1 DEF WalkInv
  <2> QED BY <2>4, <2>5, <2>6 DEF IndInv
<1>16. ASSUME NEW i \in 1..MaxPorts, FmePortPr(i) PROVE IndInv'
  <2>1. /\ UNCHANGED <<state, part, seen, cur, uafu_size, devVars>>
        /\ pr' \in {"none", "found", "missing"}
    BY <1>16 DEF FmePortPr, walkVars
  <2>2. WalkInv'
    BY <2>1 DEF IndInv, WalkInv, devVars
  <2> QED BY <1>a, <2>1, <2>2, KeepInd
<1>17. CASE UNCHANGED vars
  <2>1. UNCHANGED <<state, part, seen, cur, uafu_size, devVars, pr>>
    BY <1>17 DEF vars, walkVars
  <2>2. WalkInv'
    BY <2>1 DEF IndInv, WalkInv, devVars
  <2> QED BY <1>a, <2>1, <2>2, KeepInd
<1> QED BY <1>1, <1>2, <1>3, <1>4, <1>5, <1>6, <1>7, <1>8, <1>9, <1>10, <1>11, <1>12,
           <1>13, <1>14, <1>15, <1>16, <1>17 DEF Next

-----------------------------------------------------------------------------
(* Theorems.                                                               *)

\* The inductive invariant holds throughout.
LEMMA Invariance == Spec => []IndInv
<1>1. Init => IndInv
  BY InitInd
<1>2. IndInv /\ [Next]_vars => IndInv'
  BY InductiveStep
<1> QED BY <1>1, <1>2, PTL DEF Spec

\* The state of probe and removal keeps its type: every id in use is a natural
\* number, and every registered device has one.
THEOREM EnumTypeOK == Spec => []TypeOK
<1>1. IndInv => TypeOK
  <2> SUFFICES ASSUME IndInv PROVE TypeOK
    OBVIOUS
  <2>1. registered \subseteq ids
    BY DEF IndInv, IdInv, Keys
  <2>2. \A k \in ids : k \in {"fme", "port"} \X Nat
    <3>1. \A d \in Listed \cup Building : d \in Device /\ d.id >= 0
      <4>1. \A d \in Listed : d \in Device /\ d.id >= 0
        BY ListedFacts DEF IndInv
      <4>2. \A d \in Building : d \in Device /\ d.id >= 0
        BY DEF Building, IndInv, VarsOK, Device
      <4> QED BY <4>1, <4>2
    <3>2. \A d \in Listed \cup Building : Key(d) \in {"fme", "port"} \X Nat
      BY <3>1 DEF Key, Device
    <3> QED BY <3>2 DEF IndInv, IdInv, Keys
  <2> QED BY <2>1, <2>2 DEF IndInv, VarsOK, TypeOK
<1> QED BY <1>1, Invariance, PTL

\* The ids allocated from fpga_ids are those of the devices drvdata knows and of
\* the one being built, one each, on every path; what drvdata forgets was
\* unregistered before.
THEOREM EnumIdsBalanced == Spec => []IdsBalanced
<1>1. IndInv => IdsBalanced
  <2> SUFFICES ASSUME IndInv PROVE IdsBalanced
    OBVIOUS
  <2> DEFINE held == Listed \cup (IF cur = NoDev \/ cur.id < 0 THEN {} ELSE {cur})
  <2>1. held = Listed \cup Building
    BY DEF Building
  <2>2. ids = {Key(d) : d \in held}
    BY <2>1 DEF IndInv, IdInv, Keys
  <2>3. Cardinality(ids) = Len(port_dev_list) + Cardinality(held \ Range(port_dev_list))
    BY <2>1, IdsCounted DEF IndInv
  <2>4. state \in {"destroying", "unbound"} => registered = {}
    BY DEF IndInv, IdInv, BuildInv, Listed, Keys, Range
  <2> QED BY <2>2, <2>3, <2>4 DEF IdsBalanced
<1> QED BY <1>1, Invariance, PTL

\* A successful probe registers one device per FME or PORT header, in order, at
\* most one FME, each with the features between its header and the next, and a
\* user AFU only for a port that has one.
THEOREM EnumDevicesMatchList == Spec => []DevicesMatchList
<1>1. IndInv => DevicesMatchList
  <2> SUFFICES ASSUME IndInv, state = "bound" PROVE DevicesMatchList
    BY DEF DevicesMatchList
  <2>1. registered = {Key(d) : d \in Listed}
    BY DEF IndInv, IdInv, Keys
  <2>2. \A d \in Listed : "uafu" \in d.features => d.mmio = 1
    BY DEF IndInv, UafuInv
  <2>3. Starts = StartsIn(seen)
    BY DEF Starts, StartsIn
  <2>4. \A i : FeaturesFrom(i) = FeaturesIn(seen, i)
    BY <2>3, Zenon DEF FeaturesFrom, FeaturesIn, After
  <2>5. Match(seen, Starts, port_dev_list, fme_dev)
    BY <2>3 DEF IndInv, WalkInv
  <2>6. DevicesAt(Starts)
    BY <2>4, <2>5, Zenon DEF DevicesAt, Match, PortsMatch, FmeMatches, KindIn
  <2> QED BY <2>1, <2>2, <2>6 DEF DevicesMatchList
<1> QED BY <1>1, Invariance, PTL
=============================================================================
