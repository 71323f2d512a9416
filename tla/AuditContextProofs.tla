------------------------- MODULE AuditContextProofs -------------------------
(***************************************************************************)
(* Theorems about AuditContext, for any addresses and proxies, any number  *)
(* of hops and entries of the header, any keys, and metadata of any depth  *)
(* whose lists have any length.                                            *)
(***************************************************************************)
EXTENDS AuditContext, SequenceTheorems, WellFoundedInduction, TLAPS

-----------------------------------------------------------------------------
(* Natural numbers.                                                        *)

\* A set that has 0 and the successor of each of its numbers has them all.
LEMMA Induction ==
  ASSUME NEW S, 0 \in S, \A n \in Nat : n \in S => n + 1 \in S
  PROVE  \A n \in Nat : n \in S
<1> DEFINE Missing == Nat \ S
           R == OpToRel(<, Nat)
<1>1. SUFFICES Missing = {}
  BY <1>1
<1>2. SUFFICES ASSUME Missing # {} PROVE FALSE
  BY <1>2
<1>3. \A x, y \in Nat : x < y => <<x, y>> \in R
  BY DEF OpToRel
<1>4. PICK n \in Missing : \A m \in Missing : ~(<<m, n>> \in R)
  <2>1. IsWellFoundedOn(R, Nat)
    BY NatLessThanWellFounded
  <2> HIDE DEF R, Missing
  <2>2. Missing \subseteq Nat
    BY DEF Missing
  <2> QED BY <1>2, <2>1, <2>2, WFMin
<1> HIDE DEF R
<1>5. n # 0 /\ n \in Nat
  OBVIOUS
<1>6. n - 1 \in Nat /\ n - 1 < n /\ (n - 1) + 1 = n
  BY <1>5
<1>7. n - 1 \in S
  BY <1>3, <1>4, <1>5, <1>6
<1> QED BY <1>4, <1>6, <1>7

\* A set of numbers with a bound has a greatest element.
LEMMA GreatestIs ==
  ASSUME NEW S, S \subseteq Nat, NEW m \in S, \A k \in S : k <= m
  PROVE  Max(S) = m
<1>1. m \in S /\ \A y \in S : m >= y
  OBVIOUS
<1>2. Max(S) \in S /\ \A y \in S : Max(S) >= y
  BY <1>1, Zenon DEF Max
<1>3. Max(S) >= m /\ m >= Max(S) /\ Max(S) \in Nat /\ m \in Nat
  BY <1>1, <1>2
<1>4. \A x, y \in Nat : x >= y /\ y >= x => x = y
  OBVIOUS
<1> QED BY <1>3, <1>4

-----------------------------------------------------------------------------
(* The metadata.                                                           *)

MetadataOf(g, n) == IF n = 0 THEN {Text} ELSE Above(g[n - 1])

\* The recursion is well founded, so the equation of Metadata has a solution.
LEMMA MetadataIsRecursive ==
  Metadata = [n \in 0 .. MaxDepth |-> MetadataOf(Metadata, n)]
<1> USE ContextAssumption
<1> DEFINE Good(g, n) == \A m \in 0 .. n : g[m] = MetadataOf(g, m)
           S == {n \in Nat : \E g : Good(g, n)}
<1>1. 0 \in S
  <2>1. Good([m \in 0 .. 0 |-> {Text}], 0)
    BY DEF MetadataOf
  <2> QED BY <2>1
<1>2. ASSUME NEW n \in Nat, n \in S PROVE n + 1 \in S
  <2>1. PICK g : Good(g, n)
    BY <1>2
  <2> DEFINE h == [m \in 0 .. (n + 1) |-> MetadataOf(g, m)]
  <2>2. \A m \in 0 .. n : h[m] = g[m]
    BY <2>1
  <2>3. ASSUME NEW m \in 0 .. (n + 1) PROVE h[m] = MetadataOf(h, m)
    <3>1. CASE m = 0
      BY <3>1 DEF MetadataOf
    <3>2. CASE m # 0
      <4>1. m - 1 \in 0 .. n
        BY <3>2
      <4>2. h[m - 1] = g[m - 1]
        BY <2>2, <4>1
      <4>3. h[m] = Above(g[m - 1])
        BY <3>2 DEF MetadataOf
      <4> HIDE DEF h
      <4> QED BY <3>2, <4>2, <4>3 DEF MetadataOf
    <3> QED BY <3>1, <3>2
  <2> HIDE DEF h
  <2>4. Good(h, n + 1)
    BY <2>3
  <2>5. n + 1 \in Nat
    OBVIOUS
  <2> QED BY <2>4, <2>5
<1>3. MaxDepth \in S
  <2> HIDE DEF S
  <2> QED BY <1>1, <1>2, Induction
<1>4. PICK g : Good(g, MaxDepth)
  BY <1>3
<1> DEFINE f == [n \in 0 .. MaxDepth |-> g[n]]
<1>5. ASSUME NEW n \in 0 .. MaxDepth PROVE MetadataOf(g, n) = MetadataOf(f, n)
  <2>1. n # 0 => n - 1 \in 0 .. MaxDepth
    OBVIOUS
  <2>2. n # 0 => f[n - 1] = g[n - 1]
    BY <2>1
  <2> HIDE DEF f
  <2> QED BY <2>2 DEF MetadataOf
<1>6. f = [n \in 0 .. MaxDepth |-> MetadataOf(g, n)]
  BY <1>4
<1>7. f = [n \in 0 .. MaxDepth |-> MetadataOf(f, n)]
  <2> HIDE DEF f
  <2> QED BY <1>5, <1>6
<1> HIDE DEF f
<1> QED BY <1>7, Zenon DEF Metadata, MetadataOf

LEMMA MetadataLevels ==
  /\ Metadata[0] = {Text}
  /\ \A n \in Nat : n + 1 <= MaxDepth => Metadata[n + 1] = Above(Metadata[n])
<1> USE ContextAssumption
<1>1. \A n \in 0 .. MaxDepth : Metadata[n] = MetadataOf(Metadata, n)
  BY MetadataIsRecursive
<1>2. Metadata[0] = {Text}
  BY <1>1 DEF MetadataOf
<1>3. ASSUME NEW n \in Nat, n + 1 <= MaxDepth PROVE Metadata[n + 1] = Above(Metadata[n])
  <2>1. n + 1 \in 0 .. MaxDepth /\ n + 1 # 0 /\ (n + 1) - 1 = n
    BY <1>3
  <2> QED BY <1>1, <2>1 DEF MetadataOf
<1> QED BY <1>2, <1>3

LEMMA AboveGrows ==
  ASSUME NEW V, NEW W, V \subseteq W
  PROVE  Above(V) \subseteq Above(W)
<1>1. \A K \in SUBSET Key : [K -> V] \subseteq [K -> W]
  OBVIOUS
<1>2. MappingsOver(V) \subseteq MappingsOver(W)
  BY <1>1 DEF MappingsOver
<1>3. SeqOf(V, MaxItems) \subseteq SeqOf(W, MaxItems)
  BY DEF SeqOf
<1>4. ListsOver(V) \subseteq ListsOver(W)
  BY <1>3 DEF ListsOver
<1> QED BY <1>2, <1>4 DEF Above

\* A level holds the ones under it.
LEMMA MetadataGrows ==
  \A n \in Nat : n + 1 <= MaxDepth => Metadata[n] \subseteq Metadata[n + 1]
<1> USE ContextAssumption
<1> DEFINE S == {n \in Nat : n + 1 <= MaxDepth => Metadata[n] \subseteq Metadata[n + 1]}
<1>1. 0 \in S
  BY MetadataLevels DEF Above
<1>2. ASSUME NEW n \in Nat, n \in S PROVE n + 1 \in S
  <2>1. SUFFICES ASSUME (n + 1) + 1 <= MaxDepth
                 PROVE  Metadata[n + 1] \subseteq Metadata[(n + 1) + 1]
    OBVIOUS
  <2>2. n + 1 \in Nat /\ n + 1 <= MaxDepth
    BY <2>1
  <2>3. Metadata[n] \subseteq Metadata[n + 1]
    BY <1>2, <2>2
  <2>4. Metadata[n + 1] = Above(Metadata[n]) /\ Metadata[(n + 1) + 1] = Above(Metadata[n + 1])
    BY <2>1, <2>2, MetadataLevels
  <2> QED BY <2>3, <2>4, AboveGrows
<1>3. \A n \in Nat : n \in S
  <2> HIDE DEF S
  <2> QED BY <1>1, <1>2, Induction
<1> QED BY <1>3

LEMMA LevelsAreValues ==
  \A n \in 0 .. MaxDepth : Metadata[n] \subseteq Value
<1> USE ContextAssumption
<1> DEFINE S == {k \in Nat : k <= MaxDepth => Metadata[MaxDepth - k] \subseteq Value}
<1>1. 0 \in S
  BY DEF Value
<1>2. ASSUME NEW k \in Nat, k \in S PROVE k + 1 \in S
  <2>1. SUFFICES ASSUME k + 1 <= MaxDepth
                 PROVE  Metadata[MaxDepth - (k + 1)] \subseteq Value
    OBVIOUS
  <2> DEFINE n == MaxDepth - (k + 1)
  <2>2. n \in Nat /\ n + 1 <= MaxDepth /\ n + 1 = MaxDepth - k /\ k <= MaxDepth
    BY <2>1
  <2>3. Metadata[n] \subseteq Metadata[n + 1]
    <3> HIDE DEF n
    <3> QED BY <2>2, MetadataGrows
  <2>4. Metadata[n + 1] \subseteq Value
    BY <1>2, <2>2
  <2> QED BY <2>3, <2>4
<1>3. \A k \in Nat : k \in S
  <2> HIDE DEF S
  <2> QED BY <1>1, <1>2, Induction
<1>4. ASSUME NEW n \in 0 .. MaxDepth PROVE Metadata[n] \subseteq Value
  <2>1. MaxDepth - n \in Nat /\ MaxDepth - n <= MaxDepth /\ MaxDepth - (MaxDepth - n) = n
    OBVIOUS
  <2> QED BY <1>3, <2>1
<1> QED BY <1>4

-----------------------------------------------------------------------------
(* A value, and the steps into it.                                         *)

\* A value one level deeper than V is one of three kinds, and what it holds
\* is in V.
LEMMA AboveText ==
  Text.kind = "text"
BY DEF Text

LEMMA AboveMapping ==
  ASSUME NEW V, NEW v \in MappingsOver(V)
  PROVE  /\ v = Mapping(v.at) /\ v.kind = "mapping" /\ v # Text
         /\ v.at \in [DOMAIN v.at -> V] /\ DOMAIN v.at \subseteq Key
<1>1. PICK K \in SUBSET Key : \E f \in [K -> V] : v = Mapping(f)
  BY DEF MappingsOver
<1>0. PICK f \in [K -> V] : v = Mapping(f)
  BY <1>1
<1>2. v.at = f /\ v.kind = "mapping" /\ DOMAIN f = K
  BY <1>0 DEF Mapping
<1> QED BY <1>0, <1>2 DEF Text

LEMMA AboveList ==
  ASSUME NEW V, NEW v \in ListsOver(V)
  PROVE  /\ v = ListOf(v.at) /\ v.kind = "list" /\ v # Text
         /\ v.at \in [DOMAIN v.at -> V]
         /\ \E m \in 0 .. MaxItems : DOMAIN v.at = 1 .. m
<1>1. PICK m \in 0 .. MaxItems : \E s \in [1 .. m -> V] : v = ListOf(s)
  BY DEF ListsOver, SeqOf
<1>0. PICK s \in [1 .. m -> V] : v = ListOf(s)
  BY <1>1
<1>2. v.at = s /\ v.kind = "list" /\ DOMAIN s = 1 .. m
  BY <1>0 DEF ListOf
<1> QED BY <1>0, <1>2 DEF Text

LEMMA StepsInside ==
  ASSUME NEW V, NEW v \in Above(V)
  PROVE  /\ Steps(v) \subseteq Key \cup Nat
         /\ \A k \in Steps(v) : v.at[k] \in V
         /\ v.kind \in {"text", "mapping", "list"}
<1> USE ContextAssumption
<1>1. CASE v = Text
  BY <1>1, AboveText DEF Steps
<1>2. CASE v \in MappingsOver(V)
  BY <1>2, AboveMapping DEF Steps
<1>3. CASE v \in ListsOver(V)
  BY <1>3, AboveList DEF Steps
<1> QED BY <1>1, <1>2, <1>3 DEF Above

\* What a step of a value of some level leads to is a value of the level
\* below, so a value itself.
LEMMA StepsDown ==
  ASSUME NEW n \in Nat, n + 1 <= MaxDepth, NEW v \in Metadata[n + 1], NEW k \in Steps(v)
  PROVE  v.at[k] \in Metadata[n] /\ v.at[k] \in Value
<1> USE ContextAssumption
<1>1. v \in Above(Metadata[n])
  BY MetadataLevels
<1>2. v.at[k] \in Metadata[n]
  BY <1>1, StepsInside
<1>3. n \in 0 .. MaxDepth
  OBVIOUS
<1> QED BY <1>2, <1>3, LevelsAreValues

-----------------------------------------------------------------------------
(* sanitize_metadata.                                                      *)

SanitizedOf(g, v) ==
    CASE v.kind = "mapping" -> Mapping([k \in DOMAIN v.at \ Sensitive |-> g[v.at[k]]])
      [] v.kind = "list"    -> ListOf([i \in DOMAIN v.at |-> g[v.at[i]]])
      [] OTHER              -> v

\* It looks at nothing but what the steps lead to.
LEMMA SanitizedOfSteps ==
  ASSUME NEW V, NEW v \in Above(V), NEW g, NEW h, \A k \in Steps(v) : g[v.at[k]] = h[v.at[k]]
  PROVE  SanitizedOf(g, v) = SanitizedOf(h, v)
<1>1. CASE v = Text
  BY <1>1, AboveText DEF SanitizedOf
<1>2. CASE v \in MappingsOver(V)
  <2>1. v.kind = "mapping" /\ v # Text
    BY <1>2, AboveMapping
  <2>2. [k \in DOMAIN v.at \ Sensitive |-> g[v.at[k]]] = [k \in DOMAIN v.at \ Sensitive |-> h[v.at[k]]]
    BY <2>1 DEF Steps
  <2> QED BY <2>1, <2>2 DEF SanitizedOf
<1>3. CASE v \in ListsOver(V)
  <2>1. v.kind = "list" /\ v # Text
    BY <1>3, AboveList
  <2>2. [i \in DOMAIN v.at |-> g[v.at[i]]] = [i \in DOMAIN v.at |-> h[v.at[i]]]
    BY <2>1 DEF Steps
  <2> QED BY <2>1, <2>2 DEF SanitizedOf
<1> QED BY <1>1, <1>2, <1>3 DEF Above

LEMMA SanitizedOfText ==
  ASSUME NEW g, NEW h
  PROVE  SanitizedOf(g, Text) = SanitizedOf(h, Text)
BY AboveText DEF SanitizedOf

LEMMA SanitizedIsRecursive ==
  Sanitized = [v \in Value |-> SanitizedOf(Sanitized, v)]
<1> USE ContextAssumption
<1> DEFINE Good(g, n) == \A v \in Metadata[n] : g[v] = SanitizedOf(g, v)
           S == {n \in Nat : n <= MaxDepth => \E g : Good(g, n)}
<1>1. 0 \in S
  <2> DEFINE g == [v \in {Text} |-> SanitizedOf(<<>>, v)]
  <2>1. g[Text] = SanitizedOf(<<>>, Text)
    OBVIOUS
  <2> HIDE DEF g
  <2>2. g[Text] = SanitizedOf(g, Text)
    BY <2>1, SanitizedOfText
  <2>3. Good(g, 0)
    BY <2>2, MetadataLevels
  <2> QED BY <2>3
<1>2. ASSUME NEW n \in Nat, n \in S PROVE n + 1 \in S
  <2>0. SUFFICES ASSUME n + 1 <= MaxDepth
                 PROVE  \E g : Good(g, n + 1)
    OBVIOUS
  <2>1. PICK g : Good(g, n)
    BY <1>2, <2>0
  <2> DEFINE h == [v \in Metadata[n + 1] |-> SanitizedOf(g, v)]
  <2>2. ASSUME NEW v \in Metadata[n + 1] PROVE h[v] = SanitizedOf(h, v)
    <3>1. ASSUME NEW k \in Steps(v) PROVE g[v.at[k]] = h[v.at[k]]
      <4>1. v.at[k] \in Metadata[n] /\ v.at[k] \in Metadata[n + 1]
        BY <2>0, StepsDown, MetadataGrows
      <4> QED BY <2>1, <4>1
    <3>2. h[v] = SanitizedOf(g, v)
      OBVIOUS
    <3>3. v \in Above(Metadata[n])
      BY <2>0, MetadataLevels
    <3> HIDE DEF h
    <3>4. SanitizedOf(g, v) = SanitizedOf(h, v)
      BY <3>1, <3>3, SanitizedOfSteps
    <3> QED BY <3>2, <3>4
  <2> HIDE DEF h
  <2>3. Good(h, n + 1)
    BY <2>2
  <2> QED BY <2>3
<1>3. MaxDepth \in S
  <2> HIDE DEF S
  <2> QED BY <1>1, <1>2, Induction
<1>4. PICK g : \A v \in Value : g[v] = SanitizedOf(g, v)
  BY <1>3 DEF Value
<1> DEFINE f == [v \in Value |-> g[v]]
<1>5. ASSUME NEW v \in Value PROVE SanitizedOf(g, v) = SanitizedOf(f, v)
  <2> DEFINE n == MaxDepth - 1
  <2>0. n \in Nat /\ n + 1 = MaxDepth /\ n + 1 <= MaxDepth
    OBVIOUS
  <2> HIDE DEF n
  <2>1. v \in Metadata[n + 1] /\ v \in Above(Metadata[n])
    BY <2>0, MetadataLevels DEF Value
  <2>2. \A k \in Steps(v) : v.at[k] \in Value
    BY <2>0, <2>1, StepsDown
  <2>3. \A k \in Steps(v) : g[v.at[k]] = f[v.at[k]]
    BY <2>2
  <2> HIDE DEF f
  <2> QED BY <2>1, <2>3, SanitizedOfSteps
<1>6. f = [v \in Value |-> SanitizedOf(g, v)]
  BY <1>4
<1>7. f = [v \in Value |-> SanitizedOf(f, v)]
  <2> HIDE DEF f
  <2> QED BY <1>5, <1>6
<1> HIDE DEF f
<1> QED BY <1>7, Zenon DEF Sanitized, SanitizedOf

\* What sanitize_metadata does to a value, seen from its steps: it stays on
\* its level, keeps its kind, loses the sensitive steps and no other, and is
\* applied to what the others lead to.
SanitizedStep(V, v) ==
    LET w == Sanitized[v] IN
    /\ w \in Above(V)
    /\ w.kind = v.kind
    /\ Steps(w) = Steps(v) \ Sensitive
    /\ \A k \in Steps(w) : w.at[k] = Sanitized[v.at[k]]

LEMMA SanitizedSteps ==
  ASSUME NEW V, NEW v \in Above(V), v \in Value, \A x \in V : Sanitized[x] \in V
  PROVE  SanitizedStep(V, v)
<1> DEFINE w == Sanitized[v]
<1>0. w = SanitizedOf(Sanitized, v)
  BY SanitizedIsRecursive
<1>1. CASE v = Text
  <2>1. w = Text
    BY <1>0, <1>1, AboveText DEF SanitizedOf
  <2> QED BY <1>1, <2>1 DEF SanitizedStep, Steps, Above
<1>2. CASE v \in MappingsOver(V)
  <2>1. v.kind = "mapping" /\ v # Text /\ v.at \in [DOMAIN v.at -> V] /\ DOMAIN v.at \subseteq Key
    BY <1>2, AboveMapping
  <2> DEFINE f == [k \in DOMAIN v.at \ Sensitive |-> Sanitized[v.at[k]]]
  <2>2. w = Mapping(f)
    BY <1>0, <2>1 DEF SanitizedOf
  <2>3. DOMAIN f = DOMAIN v.at \ Sensitive /\ f \in [DOMAIN v.at \ Sensitive -> V]
        /\ \A k \in DOMAIN f : f[k] = Sanitized[v.at[k]]
    BY <2>1
  <2>4. DOMAIN v.at \ Sensitive \in SUBSET Key
    BY <2>1
  <2> HIDE DEF f
  <2>5. w \in MappingsOver(V)
    BY <2>2, <2>3, <2>4 DEF MappingsOver
  <2>6. w.at = f /\ w.kind = "mapping" /\ w # Text
    BY <2>2 DEF Mapping, Text
  <2> HIDE DEF w
  <2>7. Steps(w) = Steps(v) \ Sensitive
    BY <2>1, <2>3, <2>6 DEF Steps
  <2>8. \A k \in Steps(w) : w.at[k] = Sanitized[v.at[k]]
    BY <2>3, <2>6 DEF Steps
  <2> QED BY <2>1, <2>5, <2>6, <2>7, <2>8 DEF SanitizedStep, Above, w
<1>3. CASE v \in ListsOver(V)
  <2>1. PICK m \in 0 .. MaxItems : DOMAIN v.at = 1 .. m
    BY <1>3, AboveList
  <2>2. v.kind = "list" /\ v # Text /\ v.at \in [DOMAIN v.at -> V]
    BY <1>3, AboveList
  <2> DEFINE f == [i \in DOMAIN v.at |-> Sanitized[v.at[i]]]
  <2>3. w = ListOf(f)
    BY <1>0, <2>2 DEF SanitizedOf
  <2>4. DOMAIN f = DOMAIN v.at /\ f \in [1 .. m -> V]
        /\ \A k \in DOMAIN f : f[k] = Sanitized[v.at[k]]
    BY <2>1, <2>2
  <2> HIDE DEF f
  <2>5. w \in ListsOver(V)
    BY <2>3, <2>4 DEF ListsOver, SeqOf
  <2>6. w.at = f /\ w.kind = "list" /\ w # Text
    BY <2>3 DEF ListOf, Text
  <2> HIDE DEF w
  <2>7. Steps(v) \cap Sensitive = {}
    BY <2>1, <2>2, KeyAssumption, ContextAssumption DEF Steps
  <2>8. Steps(w) = Steps(v)
    BY <2>2, <2>4, <2>6 DEF Steps
  <2>9. \A k \in Steps(w) : w.at[k] = Sanitized[v.at[k]]
    BY <2>4, <2>6 DEF Steps
  <2> QED BY <2>2, <2>5, <2>6, <2>7, <2>8, <2>9 DEF SanitizedStep, Above, w
<1> QED BY <1>1, <1>2, <1>3 DEF Above

-----------------------------------------------------------------------------
(* The values inside a value.                                              *)

Root(v) == [path |-> <<>>, kind |-> v.kind]

NodesOf(g, v) ==
    {[path |-> <<>>, kind |-> v.kind]} \cup
    UNION {{Under(k, n) : n \in g[v.at[k]]} : k \in Steps(v)}

LEMMA NodesOfSteps ==
  ASSUME NEW v, NEW g, NEW h, \A k \in Steps(v) : g[v.at[k]] = h[v.at[k]]
  PROVE  NodesOf(g, v) = NodesOf(h, v)
BY DEF NodesOf

LEMMA NodesIsRecursive ==
  Nodes = [v \in Value |-> NodesOf(Nodes, v)]
<1> USE ContextAssumption
<1> DEFINE Good(g, n) == \A v \in Metadata[n] : g[v] = NodesOf(g, v)
           S == {n \in Nat : n <= MaxDepth => \E g : Good(g, n)}
<1>1. 0 \in S
  <2> DEFINE g == [v \in {Text} |-> {Root(v)}]
  <2>1. g[Text] = NodesOf(g, Text)
    BY DEF NodesOf, Root, Steps
  <2> HIDE DEF g
  <2>2. Good(g, 0)
    BY <2>1, MetadataLevels
  <2> QED BY <2>2
<1>2. ASSUME NEW n \in Nat, n \in S PROVE n + 1 \in S
  <2>0. SUFFICES ASSUME n + 1 <= MaxDepth
                 PROVE  \E g : Good(g, n + 1)
    OBVIOUS
  <2>1. PICK g : Good(g, n)
    BY <1>2, <2>0
  <2> DEFINE h == [v \in Metadata[n + 1] |-> NodesOf(g, v)]
  <2>2. ASSUME NEW v \in Metadata[n + 1] PROVE h[v] = NodesOf(h, v)
    <3>1. ASSUME NEW k \in Steps(v) PROVE g[v.at[k]] = h[v.at[k]]
      <4>1. v.at[k] \in Metadata[n] /\ v.at[k] \in Metadata[n + 1]
        BY <2>0, StepsDown, MetadataGrows
      <4> QED BY <2>1, <4>1
    <3>2. h[v] = NodesOf(g, v)
      OBVIOUS
    <3> HIDE DEF h
    <3> QED BY <3>1, <3>2, NodesOfSteps
  <2> HIDE DEF h
  <2>3. Good(h, n + 1)
    BY <2>2
  <2> QED BY <2>3
<1>3. MaxDepth \in S
  <2> HIDE DEF S
  <2> QED BY <1>1, <1>2, Induction
<1>4. PICK g : \A v \in Value : g[v] = NodesOf(g, v)
  BY <1>3 DEF Value
<1> DEFINE f == [v \in Value |-> g[v]]
<1>5. ASSUME NEW v \in Value PROVE NodesOf(g, v) = NodesOf(f, v)
  <2> DEFINE n == MaxDepth - 1
  <2>0. n \in Nat /\ n + 1 = MaxDepth /\ n + 1 <= MaxDepth
    OBVIOUS
  <2> HIDE DEF n
  <2>1. v \in Metadata[n + 1]
    BY <2>0 DEF Value
  <2>2. \A k \in Steps(v) : v.at[k] \in Value
    BY <2>0, <2>1, StepsDown
  <2>3. \A k \in Steps(v) : g[v.at[k]] = f[v.at[k]]
    BY <2>2
  <2> HIDE DEF f
  <2> QED BY <2>3, NodesOfSteps
<1>6. f = [v \in Value |-> NodesOf(g, v)]
  BY <1>4
<1>7. f = [v \in Value |-> NodesOf(f, v)]
  <2> HIDE DEF f
  <2> QED BY <1>5, <1>6
<1> HIDE DEF f
<1> QED BY <1>7, Zenon DEF Nodes, NodesOf

LEMMA NodesAre ==
  ASSUME NEW v \in Value
  PROVE  \A x : x \in Nodes[v] <=>
             \/ x = Root(v)
             \/ \E k \in Steps(v) : \E n \in Nodes[v.at[k]] : x = Under(k, n)
<1> DEFINE Below == {{Under(k, n) : n \in Nodes[v.at[k]]} : k \in Steps(v)}
<1>1. Nodes[v] = {Root(v)} \cup UNION Below
  BY NodesIsRecursive DEF NodesOf, Root
<1>2. \A x : x \in UNION Below <=> \E k \in Steps(v) : \E n \in Nodes[v.at[k]] : x = Under(k, n)
  OBVIOUS
<1> HIDE DEF Below
<1> QED BY <1>1, <1>2

Node == [path : Seq(Key \cup Nat), kind : {"text", "mapping", "list"}]

\* No step to it is sensitive.
Kept(n) == ToSet(n.path) \cap Sensitive = {}

LEMMA KeptUnder ==
  ASSUME NEW k \in Key \cup Nat, NEW n \in Node
  PROVE  /\ Under(k, n) \in Node
         /\ Kept(Under(k, n)) <=> k \notin Sensitive /\ Kept(n)
<1> DEFINE p == n.path
           q == <<k>> \o p
<1>1. p \in Seq(Key \cup Nat) /\ <<k>> \in Seq(Key \cup Nat) /\ n.kind \in {"text", "mapping", "list"}
  BY DEF Node
<1> HIDE DEF p
<1>2. q \in Seq(Key \cup Nat) /\ DOMAIN q = 1 .. (1 + Len(p)) /\ q[1] = k
      /\ \A i \in 1 .. Len(p) : q[i + 1] = p[i]
  BY <1>1
<1>3. Under(k, n).path = q /\ Under(k, n) \in Node
  BY <1>1, <1>2 DEF Under, Node, p
<1>4. DOMAIN p = 1 .. Len(p) /\ Len(p) \in Nat
  BY <1>1
<1> HIDE DEF q
<1>5. ToSet(q) = {k} \cup ToSet(p)
  <2>1. ASSUME NEW i \in DOMAIN q PROVE q[i] \in {k} \cup ToSet(p)
    <3>1. CASE i = 1
      BY <1>2, <3>1
    <3>2. CASE i # 1
      <4>1. i - 1 \in 1 .. Len(p) /\ (i - 1) + 1 = i
        BY <1>2, <1>4, <3>2
      <4>2. q[i] = p[i - 1]
        BY <1>2, <4>1
      <4> QED BY <1>4, <4>1, <4>2 DEF ToSet
    <3> QED BY <3>1, <3>2
  <2>2. k \in ToSet(q)
    <3>1. 1 \in DOMAIN q
      BY <1>2, <1>4
    <3> QED BY <1>2, <3>1 DEF ToSet
  <2>3. ASSUME NEW i \in DOMAIN p PROVE p[i] \in ToSet(q)
    <3>1. i + 1 \in DOMAIN q /\ q[i + 1] = p[i]
      BY <1>2, <1>4
    <3> QED BY <3>1 DEF ToSet
  <2>4. ToSet(q) \subseteq {k} \cup ToSet(p)
    BY <2>1 DEF ToSet
  <2>5. ToSet(p) \subseteq ToSet(q)
    BY <2>3 DEF ToSet
  <2> QED BY <2>2, <2>4, <2>5
<1> QED BY <1>3, <1>5 DEF Kept, p

LEMMA KeptRoot ==
  ASSUME NEW v
  PROVE  Kept(Root(v))
BY DEF Kept, Root, ToSet

\* What is to be shown of a value: its nodes are nodes, and those of what
\* sanitize_metadata makes of it are the ones no sensitive step leads to.
Clean(v) ==
    /\ Nodes[v] \subseteq Node
    /\ Nodes[Sanitized[v]] = {n \in Nodes[v] : Kept(n)}

LEMMA CleanAbove ==
  ASSUME NEW V, V \subseteq Value, Above(V) \subseteq Value,
         \A x \in V : Sanitized[x] \in V /\ Clean(x),
         NEW v \in Above(V)
  PROVE  Clean(v)
<1> DEFINE w == Sanitized[v]
<1>1. w \in Above(V) /\ w.kind = v.kind /\ Steps(w) = Steps(v) \ Sensitive
      /\ \A k \in Steps(w) : w.at[k] = Sanitized[v.at[k]]
  BY SanitizedSteps DEF SanitizedStep
<1>2. v \in Value /\ w \in Value
  BY <1>1
<1> HIDE DEF w
<1>3. /\ Steps(v) \subseteq Key \cup Nat
      /\ \A k \in Steps(v) : v.at[k] \in V
      /\ v.kind \in {"text", "mapping", "list"}
  BY StepsInside
<1>4. ASSUME NEW k \in Steps(v)
      PROVE  /\ Nodes[v.at[k]] \subseteq Node
             /\ Nodes[Sanitized[v.at[k]]] = {n \in Nodes[v.at[k]] : Kept(n)}
  BY <1>3 DEF Clean
<1>5. Root(v) \in Node /\ Root(w) = Root(v)
  BY <1>1, <1>3 DEF Root, Node
<1>6. ASSUME NEW x \in Nodes[v] PROVE x \in Node
  BY <1>2, <1>3, <1>4, <1>5, NodesAre, KeptUnder
<1>7. ASSUME NEW x \in Nodes[w] PROVE x \in Nodes[v] /\ Kept(x)
  <2>1. CASE x = Root(w)
    BY <1>2, <1>5, <2>1, NodesAre, KeptRoot
  <2>2. CASE \E k \in Steps(w) : \E n \in Nodes[w.at[k]] : x = Under(k, n)
    <3>1. PICK k \in Steps(w) : \E n \in Nodes[w.at[k]] : x = Under(k, n)
      BY <2>2
    <3>2. PICK n \in Nodes[w.at[k]] : x = Under(k, n)
      BY <3>1
    <3>3. k \in Steps(v) /\ k \notin Sensitive /\ k \in Key \cup Nat
      BY <1>1, <1>3
    <3>4. n \in Nodes[v.at[k]] /\ Kept(n) /\ n \in Node
      BY <1>1, <1>4, <3>3
    <3>5. x \in Nodes[v]
      BY <1>2, <3>2, <3>3, <3>4, NodesAre
    <3> QED BY <3>2, <3>3, <3>4, <3>5, KeptUnder
  <2> QED BY <1>2, <2>1, <2>2, NodesAre
<1>8. ASSUME NEW x \in Nodes[v], Kept(x) PROVE x \in Nodes[w]
  <2>1. CASE x = Root(v)
    BY <1>2, <1>5, <2>1, NodesAre
  <2>2. CASE \E k \in Steps(v) : \E n \in Nodes[v.at[k]] : x = Under(k, n)
    <3>1. PICK k \in Steps(v) : \E n \in Nodes[v.at[k]] : x = Under(k, n)
      BY <2>2
    <3>2. PICK n \in Nodes[v.at[k]] : x = Under(k, n)
      BY <3>1
    <3>3. n \in Node /\ k \in Key \cup Nat
      BY <1>3, <1>4
    <3>4. k \notin Sensitive /\ Kept(n)
      BY <1>8, <3>2, <3>3, KeptUnder
    <3>5. k \in Steps(w) /\ n \in Nodes[w.at[k]]
      BY <1>1, <1>4, <3>4
    <3> QED BY <1>2, <3>2, <3>5, NodesAre
  <2> QED BY <1>2, <2>1, <2>2, NodesAre
<1>9. Nodes[v] \subseteq Node
  BY <1>6
<1>10. Nodes[w] = {n \in Nodes[v] : Kept(n)}
  BY <1>7, <1>8
<1> QED BY <1>9, <1>10 DEF Clean, w

\* For metadata of every depth: the induction over its levels.
LEMMA EveryValueIsClean ==
  \A v \in Value : Sanitized[v] \in Value /\ Clean(v)
<1> USE ContextAssumption
<1> DEFINE Good(V) == \A v \in V : Sanitized[v] \in V /\ Clean(v)
           S == {n \in Nat : n <= MaxDepth => Good(Metadata[n])}
<1>1. 0 \in S
  <2>1. Text \in Value
    BY MetadataLevels, LevelsAreValues
  <2>2. Sanitized[Text] = Text
    BY <2>1, SanitizedIsRecursive, AboveText DEF SanitizedOf
  <2>3. Nodes[Text] = {Root(Text)}
    BY <2>1, NodesIsRecursive DEF NodesOf, Root, Steps
  <2>4. Root(Text) \in Node
    BY AboveText DEF Root, Node
  <2>5. Clean(Text)
    BY <2>2, <2>3, <2>4, KeptRoot DEF Clean
  <2> QED BY <2>2, <2>5, MetadataLevels
<1>2. ASSUME NEW n \in Nat, n \in S PROVE n + 1 \in S
  <2>1. SUFFICES ASSUME n + 1 <= MaxDepth PROVE Good(Metadata[n + 1])
    OBVIOUS
  <2> DEFINE V == Metadata[n]
  <2>2. Good(V)
    BY <1>2, <2>1
  <2>3. Metadata[n + 1] = Above(V)
    BY <2>1, MetadataLevels
  <2>4. V \subseteq Value /\ Above(V) \subseteq Value
    <3>1. n \in 0 .. MaxDepth /\ n + 1 \in 0 .. MaxDepth
      BY <2>1
    <3> QED BY <2>3, <3>1, LevelsAreValues
  <2> HIDE DEF V
  <2>5. ASSUME NEW v \in Above(V) PROVE Sanitized[v] \in Above(V) /\ Clean(v)
    <3>1. SanitizedStep(V, v)
      BY <2>2, <2>4, SanitizedSteps
    <3>2. Clean(v)
      BY <2>2, <2>4, CleanAbove
    <3> QED BY <3>1, <3>2 DEF SanitizedStep
  <2> QED BY <2>3, <2>5
<1>3. MaxDepth \in S
  <2> HIDE DEF S
  <2> QED BY <1>1, <1>2, Induction
<1> QED BY <1>3 DEF Value

-----------------------------------------------------------------------------
(* The request.                                                            *)

Event == [stage : {"none", "context", "recorded"},
          client : Address \cup {Absent}, ip : Address \cup {Absent},
          given : Value, metadata : Value]

\* What the properties follow from: the address is the client's as soon as
\* there is a context, and what a recorded event keeps is what sanitize_metadata
\* makes of what it was given.
ContextInv ==
    /\ event \in Event
    /\ event = NoEvent \/ event.stage # "none"
    /\ event.stage # "none" => event.ip = event.client
    /\ event.stage = "recorded" => event.metadata = Sanitized[event.given]

\* The address of q, whatever it sends and whichever proxies pass it on.
LEMMA ClientIpIsClients ==
  ASSUME NEW q \in Address \ Trusted, NEW sent \in Seq(Address \cup {Junk}),
         NEW proxies \in Seq(Trusted)
  PROVE  ClientIp(Delivered(q, sent, proxies).remote, Delivered(q, sent, proxies).forwarded) = q
<1> USE AddressAssumption
<1> DEFINE path == <<q>> \o proxies
           forwarded == sent \o Front(path)
           found == Candidates(forwarded)
           p == Len(proxies)
           s == Len(sent)
<1>1. /\ path \in Seq(Address) /\ Len(path) = p + 1 /\ path[1] = q
      /\ \A i \in 1 .. p : path[i + 1] = proxies[i]
      /\ p \in Nat /\ s \in Nat
  OBVIOUS
<1>2. Delivered(q, sent, proxies) = [remote |-> path[p + 1], forwarded |-> forwarded]
  BY <1>1 DEF Delivered, Last
<1>3. CASE p = 0
  <2>1. path[p + 1] = q
    BY <1>1, <1>3
  <2>2. q \notin Trusted /\ q # Absent
    OBVIOUS
  <2> HIDE DEF path, forwarded
  <2>3. Delivered(q, sent, proxies).remote = q
    BY <1>2, <2>1
  <2> QED BY <2>2, <2>3 DEF ClientIp
<1>4. CASE p # 0
  <2> HIDE DEF path
  <2>1. /\ Front(path) \in Seq(Address) /\ Len(Front(path)) = p
        /\ \A i \in 1 .. p : Front(path)[i] = path[i]
    BY <1>1 DEF Front
  <2>2. /\ forwarded \in Seq(Address \cup {Junk}) /\ DOMAIN forwarded = 1 .. (s + p)
        /\ \A i \in 1 .. p : forwarded[s + i] = path[i]
    <3> DEFINE passed == Front(path)
    <3>1. passed \in Seq(Address \cup {Junk}) /\ Len(passed) = p
      BY <2>1
    <3> HIDE DEF passed
    <3>2. /\ sent \o passed \in Seq(Address \cup {Junk})
          /\ DOMAIN (sent \o passed) = 1 .. (Len(sent) + Len(passed))
          /\ \A i \in 1 .. Len(passed) : (sent \o passed)[Len(sent) + i] = passed[i]
      BY <3>1
    <3> QED BY <2>1, <3>1, <3>2 DEF passed
  <2> HIDE DEF forwarded
  <2>3. s + 1 \in found
    BY <1>1, <1>4, <2>2 DEF Candidates
  <2>4. ASSUME NEW i \in found PROVE i <= s + 1
    <3>1. i \in 1 .. (s + p) /\ forwarded[i] \notin Trusted
      BY <2>2 DEF Candidates
    <3>2. SUFFICES ASSUME i > s + 1 PROVE FALSE
      BY <1>1, <3>1
    <3>3. i - s \in 1 .. p /\ s + (i - s) = i /\ (i - s) - 1 \in 1 .. p /\ ((i - s) - 1) + 1 = i - s
      BY <1>1, <3>1, <3>2
    <3>4. forwarded[i] = proxies[(i - s) - 1]
      BY <1>1, <2>2, <3>3
    <3>5. proxies[(i - s) - 1] \in Trusted
      BY <3>3
    <3> QED BY <3>1, <3>4, <3>5
  <2>5. found \subseteq Nat
    BY <1>1, <2>2 DEF Candidates
  <2>6. Max(found) = s + 1
    <3> HIDE DEF found
    <3> QED BY <2>3, <2>4, <2>5, GreatestIs
  <2>7. forwarded[s + 1] = q
    BY <1>1, <1>4, <2>2
  <2>8. path[p + 1] \in Trusted
    <3>1. path[p + 1] = proxies[p] /\ p \in 1 .. p
      BY <1>1, <1>4
    <3> QED BY <3>1
  <2>9. path[p + 1] # Absent /\ found # {}
    BY <2>3, <2>8
  <2> DEFINE d == Delivered(q, sent, proxies)
  <2>10. d.remote = path[p + 1] /\ d.forwarded = forwarded
    BY <1>2
  <2> HIDE DEF d, p, s
  <2>11. ClientIp(d.remote, d.forwarded) = forwarded[Max(found)]
    BY <2>8, <2>9, <2>10 DEF ClientIp
  <2> QED BY <2>6, <2>7, <2>11 DEF d
<1> QED BY <1>3, <1>4

\* The header and the proxies of a step are sequences.
LEMMA SeqOfIsSeq ==
  ASSUME NEW V, NEW n \in Nat
  PROVE  SeqOf(V, n) \subseteq Seq(V)
BY DEF SeqOf

LEMMA ContextInitInv ==
  ContextInit => ContextInv
<1>1. Text \in Value
  BY MetadataLevels, LevelsAreValues, ContextAssumption
<1> QED BY <1>1 DEF ContextInit, ContextInv, NoEvent, Event

LEMMA ContextStepInv ==
  ContextInv /\ [ContextNext]_event => ContextInv'
<1> USE ContextAssumption
<1> SUFFICES ASSUME ContextInv, [ContextNext]_event PROVE ContextInv'
  OBVIOUS
<1>1. CASE UNCHANGED event
  BY <1>1 DEF ContextInv
<1>2. ASSUME NEW q \in Address \cup {Absent}, NEW sent, NEW proxies, FromRequest(q, sent, proxies),
             ClientIp(Delivered(q, sent, proxies).remote, Delivered(q, sent, proxies).forwarded) = q
      PROVE  ContextInv'
  <2>1. event = NoEvent /\ event \in Event
    BY <1>2 DEF ContextInv, FromRequest
  <2>2. event' = [event EXCEPT !.stage = "context", !.client = q, !.ip = q]
    BY <1>2 DEF FromRequest
  <2>3. event' \in Event /\ event'.stage = "context" /\ event'.client = q /\ event'.ip = q
    BY <2>1, <2>2 DEF Event
  <2> QED BY <2>3 DEF ContextInv
<1>3. ASSUME NEW q \in Address \ Trusted, NEW sent \in SeqOf(Address \cup {Junk}, MaxSent),
             NEW proxies \in SeqOf(Trusted, MaxHops), FromRequest(q, sent, proxies)
      PROVE  ContextInv'
  <2>1. sent \in Seq(Address \cup {Junk}) /\ proxies \in Seq(Trusted)
    BY SeqOfIsSeq
  <2> QED BY <1>2, <1>3, <2>1, ClientIpIsClients
<1>4. ASSUME NEW sent, FromRequest(Absent, sent, <<>>)
      PROVE  ContextInv'
  <2>1. Delivered(Absent, sent, <<>>).remote = Absent
    BY DEF Delivered, Last
  <2>2. ClientIp(Delivered(Absent, sent, <<>>).remote, Delivered(Absent, sent, <<>>).forwarded) = Absent
    BY <2>1 DEF ClientIp
  <2> QED BY <1>2, <1>4, <2>2
<1>5. ASSUME NEW v \in MappingsOver(Metadata[MaxDepth - 1]), RecordWith(v)
      PROVE  ContextInv'
  <2>1. v \in Value
    <3>1. MaxDepth - 1 \in Nat /\ (MaxDepth - 1) + 1 = MaxDepth
      OBVIOUS
    <3>2. Value = Above(Metadata[MaxDepth - 1])
      BY <3>1, MetadataLevels DEF Value
    <3> QED BY <3>2 DEF Above
  <2>2. Sanitized[v] \in Value
    BY <2>1, EveryValueIsClean
  <2>3. event \in Event /\ event.stage = "context"
    BY <1>5 DEF ContextInv, RecordWith
  <2>4. event' = [event EXCEPT !.stage = "recorded", !.given = v, !.metadata = Sanitized[v]]
    BY <1>5 DEF RecordWith, Sanitize
  <2>5. /\ event' \in Event /\ event'.stage = "recorded"
        /\ event'.given = v /\ event'.metadata = Sanitized[v]
        /\ event'.client = event.client /\ event'.ip = event.ip
    BY <2>1, <2>2, <2>3, <2>4 DEF Event
  <2>6. event.ip = event.client
    BY <2>3 DEF ContextInv
  <2> QED BY <2>5, <2>6 DEF ContextInv
<1> QED BY <1>1, <1>3, <1>4, <1>5 DEF ContextNext

\* ContextInv holds in every state.
LEMMA ContextInvariant ==
  ContextSpec => []ContextInv
BY ContextInitInv, ContextStepInv, PTL DEF ContextSpec

\* The recorded address is that of the last host that is no trusted proxy,
\* for any header a client sends and any chain of trusted proxies after it
\* (_client_ip).
THEOREM AddressIsAlwaysTheClients ==
  ContextSpec => []AddressIsTheClients
<1>1. ContextInv => AddressIsTheClients
  BY DEF ContextInv, AddressIsTheClients
<1> QED BY <1>1, ContextInvariant, PTL

\* What is kept of the metadata is what no sensitive key leads to and all of
\* it, for any keys, any depth of nesting and lists of any length
\* (sanitize_metadata).
THEOREM SecretsAlwaysStayOut ==
  ContextSpec => []SecretsStayOut
<1>1. ContextInv => SecretsStayOut
  <2>1. SUFFICES ASSUME ContextInv, event.stage = "recorded"
                 PROVE  Nodes[event.metadata]
                            = {n \in Nodes[event.given] : ToSet(n.path) \cap Sensitive = {}}
    BY DEF SecretsStayOut
  <2>2. event.given \in Value /\ event.metadata = Sanitized[event.given]
    BY <2>1 DEF ContextInv, Event
  <2>3. Nodes[Sanitized[event.given]] = {n \in Nodes[event.given] : Kept(n)}
    BY <2>2, EveryValueIsClean DEF Clean
  <2> QED BY <2>2, <2>3 DEF Kept
<1> QED BY <1>1, ContextInvariant, PTL
=============================================================================
