-------------------------- MODULE MockInput_proofs --------------------------
(***************************************************************************)
(* What validate leaves behind: it can be served, and validate accepts it  *)
(* again and changes nothing. For any configuration and any texts.         *)
(***************************************************************************)
EXTENDS MockInput, FiniteSetTheorems, SequenceTheorems, WellFoundedInduction, TLAPS

-----------------------------------------------------------------------------
(* Lists *)

\* A set of numbers that is not empty has a least member.
LEMMA LeastExists ==
    ASSUME NEW S, S \subseteq Nat, S # {}
    PROVE  \E n \in S : \A i \in S : n =< i
<1>1. IsWellFoundedOn(OpToRel(<, Nat), Nat)
    BY NatLessThanWellFounded
<1>2. PICK n \in S : \A i \in S : ~ (<<i, n>> \in OpToRel(<, Nat))
    BY <1>1, WFMin
<1>3. \A i \in S : ~(i < n)
    BY <1>2 DEF OpToRel
<1> QED
    BY <1>3

\* A function of the numbers up to n is a list of that length.
LEMMA ListIs ==
    ASSUME NEW n \in Nat, NEW f, DOMAIN f = 1 .. n, f = [i \in DOMAIN f |-> f[i]]
    PROVE  IsList(f) /\ Len(f) = n
<1>1. \A i \in 1 .. n : f[i] \in Range(f)
    BY DEF Range
<1>2. f \in [1 .. n -> Range(f)]
    BY <1>1
<1>3. f \in Seq(Range(f))
    BY <1>2, SeqDef
<1>4. Len(f) \in Nat /\ DOMAIN f = 1 .. Len(f)
    BY <1>3, LenProperties
<1> QED
    BY <1>3, <1>4 DEF IsList

\* And the other way round.
LEMMA IsListIs ==
    ASSUME NEW s, IsList(s)
    PROVE  Len(s) \in Nat /\ DOMAIN s = 1 .. Len(s) /\ s = [i \in DOMAIN s |-> s[i]]
BY LenProperties DEF IsList

\* What is computed of a list member by member is a list of the same length.
LEMMA MappedIsList ==
    ASSUME NEW s, IsList(s), NEW f, DOMAIN f = DOMAIN s, f = [i \in DOMAIN f |-> f[i]]
    PROVE  IsList(f) /\ Len(f) = Len(s)
BY ListIs, IsListIs

\* How many numbers there are up to n, and that some of them are no more than n.
LEMMA UpTo ==
    ASSUME NEW n \in Nat
    PROVE  /\ IsFiniteSet(1 .. n) /\ Cardinality(1 .. n) = n
           /\ \A S \in SUBSET (1 .. n) : IsFiniteSet(S) /\ Cardinality(S) \in Nat
<1>1. IsFiniteSet(1 .. n) /\ Cardinality(1 .. n) = n
    <2>1. 1 \in Int /\ n \in Int
        OBVIOUS
    <2>2. Cardinality(1 .. n) = IF 1 > n THEN 0 ELSE n - 1 + 1
        BY <2>1, FS_Interval
    <2>3. (IF 1 > n THEN 0 ELSE n - 1 + 1) = n
        OBVIOUS
    <2> QED
        BY <2>1, <2>2, <2>3, FS_Interval
<1>2. ASSUME NEW S \in SUBSET (1 .. n) PROVE IsFiniteSet(S) /\ Cardinality(S) \in Nat
    BY <1>1, FS_Subset, FS_CardinalityType
<1> QED
    BY <1>1, <1>2

\* Every index below the number of members of a set of numbers is one's rank.
LEMMA RankIsTaken ==
    ASSUME NEW len \in Nat, NEW S, S \subseteq 1 .. len, NEW k \in 1 .. Cardinality(S)
    PROVE  \E i \in S : Rank(S, i) = k
<1> DEFINE Below(n) == {j \in S : j =< n}
           T == {n \in 0 .. len : Cardinality(Below(n)) >= k}
<1>0. \A j \in S : j \in Nat /\ 1 =< j /\ j =< len
    OBVIOUS
<1>1. IsFiniteSet(S) /\ Cardinality(S) \in Nat
    BY UpTo
<1>2. \A n \in 0 .. len : IsFiniteSet(Below(n)) /\ Cardinality(Below(n)) \in Nat
    BY UpTo
<1>3. Below(len) = S
    BY <1>0, Zenon
<1>4. k \in Nat /\ k >= 1 /\ k =< Cardinality(S)
    BY <1>1
<1>5. len \in T
    BY <1>1, <1>3, <1>4
<1>6. PICK n \in T : \A i \in T : n =< i
    <2>1. T \subseteq Nat
        OBVIOUS
    <2> HIDE DEF T
    <2> QED
        BY <1>5, <2>1, LeastExists
<1>7. n # 0
    <2>1. \A j \in S : ~(j =< 0)
        BY <1>0
    <2>3. Below(0) = {}
        BY <2>1, Zenon
    <2>2. Cardinality(Below(0)) = 0
        BY <2>3, FS_EmptySet
    <2> QED
        BY <1>4, <1>6, <2>2
<1>8. n \in 0 .. len /\ n - 1 \in 0 .. len /\ n - 1 \notin T
    <2>1. n \in 0 .. len
        OBVIOUS
    <2>2. n - 1 \in 0 .. len
        BY <1>7, <2>1
    <2>3. n - 1 \notin T
        <3> HIDE DEF T
        <3> QED
            BY <1>6, <2>1
    <2> QED
        BY <2>1, <2>2, <2>3
<1>9. Cardinality(Below(n - 1)) < k /\ Cardinality(Below(n)) >= k
    <2>1. ~(Cardinality(Below(n - 1)) >= k)
        BY <1>8
    <2>2. Cardinality(Below(n - 1)) \in Nat
        BY <1>2, <1>8
    <2> QED
        BY <1>4, <2>1, <2>2
<1>10. n \in S
    <2> SUFFICES ASSUME n \notin S PROVE FALSE
        OBVIOUS
    <2>2. \A j \in S : j =< n <=> j =< n - 1
        BY <1>0, <1>8
    <2>1. Below(n) = Below(n - 1)
        BY <2>2, Zenon
    <2> QED
        BY <1>2, <1>8, <1>9, <2>1
<1>11. Below(n) = Below(n - 1) \cup {n} /\ n \notin Below(n - 1)
    <2>1. \A j \in S : j =< n <=> (j =< n - 1 \/ j = n)
        BY <1>0, <1>8
    <2>2. ~(n =< n - 1)
        BY <1>8
    <2> QED
        BY <1>10, <2>1, <2>2
<1>12. Cardinality(Below(n)) = Cardinality(Below(n - 1)) + 1
    BY <1>2, <1>8, <1>11, FS_AddElement
<1>13. Cardinality(Below(n)) = k
    <2> DEFINE c == Cardinality(Below(n))
               d == Cardinality(Below(n - 1))
    <2>1. c \in Nat /\ d \in Nat /\ d < k /\ c >= k /\ c = d + 1
        BY <1>2, <1>6, <1>8, <1>9, <1>12
    <2>2. k \in Nat
        BY <1>4
    <2> HIDE DEF c, d
    <2>3. c = k
        BY <2>1, <2>2
    <2> QED
        BY <2>3 DEF c
<1> QED
    BY <1>10, <1>13 DEF Rank

\* A member of a set of numbers has a rank of its own, the higher the greater it is.
LEMMA RankIs ==
    ASSUME NEW len \in Nat, NEW S, S \subseteq 1 .. len, NEW i \in S
    PROVE  /\ Rank(S, i) \in 1 .. Cardinality(S)
           /\ \A j \in S : i < j => Rank(S, i) < Rank(S, j)
<1> DEFINE Below(n) == {j \in S : j =< n}
<1>1. IsFiniteSet(S) /\ Cardinality(S) \in Nat
    BY UpTo
<1>2. \A n : IsFiniteSet(Below(n)) /\ Cardinality(Below(n)) \in Nat /\ Below(n) \subseteq S
    BY UpTo
<1>3. \A n : Rank(S, n) = Cardinality(Below(n))
    BY DEF Rank
<1>4. i \in Nat /\ i \in Below(i)
    OBVIOUS
<1> HIDE DEF Below
<1>5. Cardinality(Below(i)) =< Cardinality(S)
    BY <1>1, <1>2, FS_Subset
<1>6. Cardinality(Below(i)) # 0
    <2>1. Below(i) # {}
        BY <1>4
    <2> QED
        BY <1>2, <2>1, FS_EmptySet
<1>7. ASSUME NEW j \in S, i < j
      PROVE  Cardinality(Below(i)) < Cardinality(Below(j))
    <2>1. j \in Below(j) /\ j \notin Below(i) /\ Below(i) \subseteq Below(j)
        <3>1. \A m \in S : m \in Nat
            OBVIOUS
        <3>2. \A m \in S : m =< i => m =< j
            BY <1>7, <3>1
        <3>3. ~(j =< i) /\ j =< j
            BY <1>7, <3>1
        <3> QED
            BY <3>2, <3>3 DEF Below
    <2> QED
        BY <1>2, <2>1, FS_Subset
<1> QED
    BY <1>1, <1>2, <1>3, <1>5, <1>6, <1>7

\* InOrder lists each member once, at its rank.
LEMMA InOrderIs ==
    ASSUME NEW len \in Nat, NEW S, S \subseteq 1 .. len
    PROVE  /\ Cardinality(S) \in Nat /\ DOMAIN InOrder(S) = 1 .. Cardinality(S)
           /\ \A k \in 1 .. Cardinality(S) :
                 InOrder(S)[k] \in S /\ Rank(S, InOrder(S)[k]) = k
           /\ \A i \in S : Rank(S, i) \in 1 .. Cardinality(S) /\ InOrder(S)[Rank(S, i)] = i
<1> DEFINE At(k) == CHOOSE i \in S : Rank(S, i) = k
<1>1. Cardinality(S) \in Nat
    BY UpTo
<1>2. InOrder(S) = [k \in 1 .. Cardinality(S) |-> At(k)]
    BY DEF InOrder
<1>3. \A k \in 1 .. Cardinality(S) : At(k) \in S /\ Rank(S, At(k)) = k
    <2> TAKE k \in 1 .. Cardinality(S)
    <2>1. \E i \in S : Rank(S, i) = k
        BY RankIsTaken
    <2> QED
        BY <2>1
<1>4. ASSUME NEW i \in S
      PROVE  Rank(S, i) \in 1 .. Cardinality(S) /\ At(Rank(S, i)) = i
    <2>1. Rank(S, i) \in 1 .. Cardinality(S)
        BY RankIs
    <2>2. At(Rank(S, i)) \in S /\ Rank(S, At(Rank(S, i))) = Rank(S, i)
        BY <1>3, <2>1
    <2>3. \A j \in S : Rank(S, j) = Rank(S, i) => j = i
        <3> SUFFICES ASSUME NEW j \in S, Rank(S, j) = Rank(S, i) PROVE ~(i < j) /\ ~(j < i)
            OBVIOUS
        <3>1. Rank(S, i) \in Nat
            BY <1>1, <2>1
        <3>2. (i < j => Rank(S, i) < Rank(S, j)) /\ (j < i => Rank(S, j) < Rank(S, i))
            BY RankIs
        <3> QED
            BY <3>1, <3>2
    <2> QED
        BY <2>1, <2>2, <2>3
<1> HIDE DEF At
<1> QED
    BY <1>1, <1>2, <1>3, <1>4

\* NonEmpty keeps segments, none of them empty; and a path without empty ones.
LEMMA NonEmptyIs ==
    ASSUME NEW path, IsList(path)
    PROVE  /\ IsList(NonEmpty(path))
           /\ Range(NonEmpty(path)) \subseteq Range(path) \ {""}
<1>1. PICK kept : kept = {i \in DOMAIN path : path[i] # ""}
    OBVIOUS
<1>2. Len(path) \in Nat /\ kept \subseteq 1 .. Len(path)
    BY <1>1, IsListIs
<1>3. /\ Cardinality(kept) \in Nat /\ DOMAIN InOrder(kept) = 1 .. Cardinality(kept)
      /\ \A k \in 1 .. Cardinality(kept) : InOrder(kept)[k] \in kept
    BY <1>2, InOrderIs
<1>4. PICK p : p = NonEmpty(path)
    OBVIOUS
<1>5. p = [k \in 1 .. Cardinality(kept) |-> path[InOrder(kept)[k]]]
    BY <1>1, <1>3, <1>4 DEF NonEmpty
<1>6. IsList(p)
    <2>1. DOMAIN p = 1 .. Cardinality(kept) /\ p = [i \in DOMAIN p |-> p[i]]
        BY <1>5
    <2> QED
        BY <1>3, <2>1, ListIs
<1>7. Range(p) \subseteq Range(path) \ {""}
    BY <1>1, <1>3, <1>5 DEF Range
<1> QED
    BY <1>4, <1>6, <1>7

\* Of the numbers up to n, each is its own rank.
LEMMA RankOfAll ==
    ASSUME NEW n \in Nat, NEW i \in 1 .. n
    PROVE  Rank(1 .. n, i) = i
<1>1. {j \in 1 .. n : j =< i} = 1 .. i
    OBVIOUS
<1>2. i \in Nat
    OBVIOUS
<1> QED
    BY <1>1, <1>2, UpTo DEF Rank

\* In order, the numbers up to n are themselves.
LEMMA InOrderOfAll ==
    ASSUME NEW n \in Nat
    PROVE  InOrder(1 .. n) = [k \in 1 .. n |-> k]
<1>1. Cardinality(1 .. n) = n
    BY UpTo
<1>2. \A k \in 1 .. n : InOrder(1 .. n)[k] = k
    BY RankOfAll, InOrderIs
<1>3. InOrder(1 .. n) = [k \in 1 .. n |-> InOrder(1 .. n)[k]]
    BY <1>1 DEF InOrder
<1> QED
    BY <1>2, <1>3

\* A path without empty segments stays as it is.
LEMMA NonEmptyKeeps ==
    ASSUME NEW path, IsList(path), "" \notin Range(path)
    PROVE  NonEmpty(path) = path
<1>1. PICK len \in Nat : DOMAIN path = 1 .. len
    BY IsListIs
<1>2. {i \in DOMAIN path : path[i] # ""} = 1 .. len
    BY <1>1 DEF Range
<1>3. NonEmpty(path) = [k \in 1 .. len |-> path[k]]
    BY <1>2, InOrderOfAll DEF NonEmpty
<1>4. path = [k \in DOMAIN path |-> path[k]]
    BY IsListIs
<1> QED
    BY <1>1, <1>3, <1>4

-----------------------------------------------------------------------------
(* Texts and headers *)

\* TrimSpace is done with a text the first time.
LEMMA TrimTwice == \A text : TrimSpace(TrimSpace(text)) = TrimSpace(text)
BY TextConstants DEF TrimSpace, Mapped

\* A name that passes is not padded.
LEMMA AcceptedIsTrimmed ==
    ASSUME NEW text, text \notin Malformed
    PROVE  TrimSpace(text) = text
BY TextConstants DEF TrimSpace, Mapped

\* A text without control characters has none once it is trimmed.
LEMMA TrimAddsNoControls ==
    ASSUME NEW text, text \notin WithControls
    PROVE  TrimSpace(text) \notin WithControls
BY TextConstants DEF TrimSpace, Mapped

\* What cleanHeaders leaves: trimmed names that are not reserved, each with the
\* trimmed value of a header of that name.
LEMMA CleanIs ==
    ASSUME NEW h
    PROVE  /\ cleanHeaders(h) = [k \in DOMAIN cleanHeaders(h) |-> cleanHeaders(h)[k]]
           /\ \A k \in DOMAIN cleanHeaders(h) :
                 /\ TrimSpace(k) = k /\ k \notin reservedHeaders \cup {""}
                 /\ TrimSpace(cleanHeaders(h)[k]) = cleanHeaders(h)[k]
                 /\ \E name \in DOMAIN h :
                       TrimSpace(name) = k /\ cleanHeaders(h)[k] = TrimSpace(h[name])
<1> DEFINE kept == {name \in DOMAIN h : TrimSpace(name) \notin reservedHeaders \cup {""}}
           K == {TrimSpace(name) : name \in kept}
           Of(k) == CHOOSE name \in kept : TrimSpace(name) = k
           c == cleanHeaders(h)
<1>1. c = [k \in K |-> TrimSpace(h[Of(k)])]
    BY DEF cleanHeaders
<1>2. \A k \in K : Of(k) \in kept /\ TrimSpace(Of(k)) = k
    OBVIOUS
<1>3. \A k \in K : Of(k) \in DOMAIN h /\ k \notin reservedHeaders \cup {""}
    BY <1>2
<1> HIDE DEF K, kept, Of, c
<1>4. DOMAIN c = K /\ c = [k \in DOMAIN c |-> c[k]] /\ \A k \in K : c[k] = TrimSpace(h[Of(k)])
    BY <1>1
<1>5. \A k \in K : TrimSpace(k) = k /\ TrimSpace(c[k]) = c[k]
    BY <1>2, <1>4, TrimTwice
<1> QED
    BY <1>2, <1>3, <1>4, <1>5, ZenonT(60) DEF c

\* A header map that is clean is left as it is.
LEMMA CleanStays ==
    ASSUME NEW g, g = [k \in DOMAIN g |-> g[k]],
           \A k \in DOMAIN g : /\ TrimSpace(k) = k /\ k \notin reservedHeaders \cup {""}
                               /\ TrimSpace(g[k]) = g[k]
    PROVE  cleanHeaders(g) = g
<1> DEFINE kept == {name \in DOMAIN g : TrimSpace(name) \notin reservedHeaders \cup {""}}
           Of(k) == CHOOSE name \in kept : TrimSpace(name) = k
<1>1. kept = DOMAIN g
    OBVIOUS
<1>2. {TrimSpace(name) : name \in kept} = DOMAIN g
    <2>1. \A name \in DOMAIN g : TrimSpace(name) = name
        OBVIOUS
    <2>2. {TrimSpace(name) : name \in DOMAIN g} = DOMAIN g
        BY <2>1, ZenonT(60)
    <2> QED
        BY <1>1, <2>2
<1>3. cleanHeaders(g) = [k \in {TrimSpace(name) : name \in kept} |-> TrimSpace(g[Of(k)])]
    BY DEF cleanHeaders
<1>4. \A k \in DOMAIN g : Of(k) = k
    <2> HIDE DEF kept
    <2> QED
        BY <1>1
<1> HIDE DEF kept, Of
<1>5. cleanHeaders(g) = [k \in DOMAIN g |-> TrimSpace(g[Of(k)])]
    BY <1>2, <1>3
<1>6. \A k \in DOMAIN g : TrimSpace(g[Of(k)]) = g[k]
    BY <1>4
<1>7. [k \in DOMAIN g |-> TrimSpace(g[Of(k)])] = [k \in DOMAIN g |-> g[k]]
    BY <1>6
<1> QED
    BY <1>5, <1>7

\* cleanHeaders changes a header map once.
LEMMA CleanTwice == \A h : cleanHeaders(cleanHeaders(h)) = cleanHeaders(h)
<1> TAKE h
<1> DEFINE g == cleanHeaders(h)
<1>1. /\ g = [k \in DOMAIN g |-> g[k]]
      /\ \A k \in DOMAIN g : /\ TrimSpace(k) = k /\ k \notin reservedHeaders \cup {""}
                             /\ TrimSpace(g[k]) = g[k]
    BY CleanIs
<1> HIDE DEF g
<1>2. cleanHeaders(g) = g
    BY <1>1, CleanStays
<1> QED
    BY <1>2 DEF g

\* Cleaning spoils no header map.
LEMMA CleanIsValid ==
    ASSUME NEW h, validHeaderMap(h)
    PROVE  validHeaderMap(cleanHeaders(h))
<1> DEFINE c == cleanHeaders(h)
<1> SUFFICES ASSUME NEW k \in DOMAIN c
             PROVE  /\ k \notin Malformed \cup {""} /\ c[k] \notin WithControls
                    /\ k = "location" => SafeRedirectLocation(c[k])
    BY DEF validHeaderMap
<1>1. PICK name \in DOMAIN h : TrimSpace(name) = k /\ c[k] = TrimSpace(h[name])
    BY CleanIs
<1>2. /\ name \notin Malformed \cup {""} /\ h[name] \notin WithControls
      /\ name = "location" => SafeRedirectLocation(h[name])
    BY DEF validHeaderMap
<1>3. k = name
    BY <1>1, <1>2, AcceptedIsTrimmed
<1>4. c[k] \notin WithControls
    BY <1>1, <1>2, TrimAddsNoControls
<1>5. k = "location" => SafeRedirectLocation(c[k])
    BY <1>1, <1>2, <1>3, TrimTwice DEF SafeRedirectLocation
<1> QED
    BY <1>2, <1>3, <1>4, <1>5

-----------------------------------------------------------------------------
(* Steps, variants and rules *)

\* A status that can be sent, and what an absent one becomes.
Sendable(status) == status \in 100 .. 599
Filled(status) == OrDefault(status, 0, 200)
FilledError(status) == OrDefault(status, 0, 500)

\* A status that passes can be sent, once it has its default.
LEMMA StatusIs ==
    ASSUME NEW status, ValidStatus(status)
    PROVE  /\ Sendable(Filled(status)) /\ ValidStatus(Filled(status))
           /\ ValidStatus(FilledError(status))
<1>1. Filled(status) \in 100 .. 599 /\ FilledError(status) \in 100 .. 599
    BY DEF ValidStatus, OrDefault, Filled, FilledError
<1> QED
    BY <1>1 DEF ValidStatus, Sendable

\* The default is filled in once.
LEMMA FilledTwice ==
    \A status : Filled(Filled(status)) = Filled(status) /\ FilledError(FilledError(status)) = FilledError(status)
BY DEF Filled, FilledError, OrDefault

\* One member of NormalVariants.
NormalVariant(v) ==
    [v EXCEPT !.name = TrimSpace(@), !.status = Filled(@), !.headers = cleanHeaders(@)]

\* It trims the name, fills in the status and cleans the headers, once.
LEMMA NormalVariantIs ==
    ASSUME NEW v, DOMAIN v = VariantFields
    PROVE  /\ DOMAIN NormalVariant(v) = VariantFields
           /\ NormalVariant(v).name = TrimSpace(v.name)
           /\ NormalVariant(v).status = Filled(v.status)
           /\ NormalVariant(v).headers = cleanHeaders(v.headers)
           /\ NormalVariant(v).body = v.body
           /\ NormalVariant(NormalVariant(v)) = NormalVariant(v)
<1> DEFINE w == NormalVariant(v)
<1>1. /\ DOMAIN w = VariantFields /\ w.name = TrimSpace(v.name)
      /\ w.status = Filled(v.status) /\ w.headers = cleanHeaders(v.headers)
      /\ w.body = v.body
    BY DEF NormalVariant, VariantFields
<1>2. /\ TrimSpace(w.name) = w.name /\ Filled(w.status) = w.status
      /\ cleanHeaders(w.headers) = w.headers
    <2>1. TrimSpace(w.name) = w.name
        BY <1>1, TrimTwice
    <2>2. Filled(w.status) = w.status
        BY <1>1, FilledTwice
    <2>3. cleanHeaders(w.headers) = w.headers
        BY <1>1, CleanTwice
    <2> QED
        BY <2>1, <2>2, <2>3
<1>3. w = [f \in DOMAIN w |-> w[f]]
    BY DEF NormalVariant
<1>4. NormalVariant(w) = w
    <2> HIDE DEF w
    <2> QED
        BY <1>1, <1>2, <1>3 DEF NormalVariant, VariantFields
<1> QED
    BY <1>1, <1>4

\* NormalVariants does that to each, and keeps their order and their number.
LEMMA NormalVariantsIs ==
    ASSUME NEW variants, IsListOf(variants, VariantFields)
    PROVE  /\ DOMAIN NormalVariants(variants) = DOMAIN variants
           /\ \A i \in DOMAIN variants : NormalVariants(variants)[i] = NormalVariant(variants[i])
           /\ IsListOf(NormalVariants(variants), VariantFields)
           /\ Len(NormalVariants(variants)) = Len(variants)
           /\ NormalVariants(NormalVariants(variants)) = NormalVariants(variants)
<1> DEFINE normal == NormalVariants(variants)
<1>1. \A s : NormalVariants(s) = [i \in DOMAIN s |-> NormalVariant(s[i])]
    BY DEF NormalVariants, Each, NormalVariant, Filled
<1>2. normal = [i \in DOMAIN variants |-> NormalVariant(variants[i])]
    BY <1>1
<1>3. \A i \in DOMAIN variants : DOMAIN variants[i] = VariantFields
    BY DEF IsListOf, Range
<1> HIDE DEF normal
<1>4. DOMAIN normal = DOMAIN variants /\ normal = [i \in DOMAIN normal |-> normal[i]]
    BY <1>2
<1>5. \A i \in DOMAIN variants : normal[i] = NormalVariant(variants[i])
    BY <1>2
<1>6. IsList(normal) /\ Len(normal) = Len(variants)
    BY <1>4, MappedIsList DEF IsListOf
<1>7. \A i \in DOMAIN normal : DOMAIN normal[i] = VariantFields /\ NormalVariant(normal[i]) = normal[i]
    BY <1>3, <1>4, <1>5, NormalVariantIs
<1>8. IsListOf(normal, VariantFields)
    BY <1>6, <1>7 DEF IsListOf, Range
<1>9. NormalVariants(normal) = normal
    <2>1. NormalVariants(normal) = [i \in DOMAIN normal |-> NormalVariant(normal[i])]
        BY <1>1
    <2> QED
        BY <1>4, <1>7, <2>1
<1> QED
    BY <1>4, <1>5, <1>6, <1>8, <1>9 DEF normal

\* One condition and one rule of NormalRules.
NormalCondition(c) ==
    [c EXCEPT !.source = TrimSpace(@), !.operator = TrimSpace(@), !.key = TrimSpace(@)]

NormalRule(r) == [r EXCEPT !.conditions = [i \in DOMAIN @ |-> NormalCondition(@[i])]]

\* It trims source, operator and key, once.
LEMMA NormalConditionIs ==
    ASSUME NEW c, DOMAIN c = ConditionFields
    PROVE  /\ DOMAIN NormalCondition(c) = ConditionFields
           /\ NormalCondition(c).source = TrimSpace(c.source)
           /\ NormalCondition(c).operator = TrimSpace(c.operator)
           /\ NormalCondition(c).key = TrimSpace(c.key)
           /\ NormalCondition(NormalCondition(c)) = NormalCondition(c)
<1> DEFINE d == NormalCondition(c)
<1>1. /\ DOMAIN d = ConditionFields /\ d.source = TrimSpace(c.source)
      /\ d.operator = TrimSpace(c.operator) /\ d.key = TrimSpace(c.key)
    BY DEF NormalCondition, ConditionFields
<1>2. TrimSpace(d.source) = d.source /\ TrimSpace(d.operator) = d.operator /\ TrimSpace(d.key) = d.key
    BY <1>1, TrimTwice
<1>3. d = [f \in DOMAIN d |-> d[f]]
    BY DEF NormalCondition
<1>4. NormalCondition(d) = d
    <2> HIDE DEF d
    <2> QED
        BY <1>1, <1>2, <1>3 DEF NormalCondition, ConditionFields
<1> QED
    BY <1>1, <1>4

\* A rule keeps its variant and the number of its conditions.
LEMMA NormalRuleIs ==
    ASSUME NEW r, DOMAIN r = RuleFields, IsListOf(r.conditions, ConditionFields)
    PROVE  LET n == NormalRule(r) IN
           /\ DOMAIN n = RuleFields /\ n.variant = r.variant
           /\ DOMAIN n.conditions = DOMAIN r.conditions
           /\ \A i \in DOMAIN r.conditions : n.conditions[i] = NormalCondition(r.conditions[i])
           /\ IsListOf(n.conditions, ConditionFields) /\ Len(n.conditions) = Len(r.conditions)
           /\ NormalRule(n) = n
<1> DEFINE n == NormalRule(r)
           s == r.conditions
           t == n.conditions
<1>1. DOMAIN n = RuleFields /\ n.variant = r.variant /\ n = [f \in DOMAIN n |-> n[f]]
    BY DEF NormalRule, RuleFields
<1>2. t = [i \in DOMAIN s |-> NormalCondition(s[i])]
    BY DEF NormalRule, RuleFields
<1>3. \A i \in DOMAIN s : DOMAIN s[i] = ConditionFields
    BY DEF IsListOf, Range
<1>4. NormalRule(n) = [n EXCEPT !.conditions = [i \in DOMAIN t |-> NormalCondition(t[i])]]
    BY DEF NormalRule
<1>5. IsList(s)
    BY DEF IsListOf
<1> HIDE DEF n, s, t
<1>6. DOMAIN t = DOMAIN s /\ t = [i \in DOMAIN t |-> t[i]]
    BY <1>2
<1>7. \A i \in DOMAIN s : t[i] = NormalCondition(s[i])
    BY <1>2
<1>8. IsList(t) /\ Len(t) = Len(s)
    BY <1>5, <1>6, MappedIsList
<1>9. \A i \in DOMAIN t : DOMAIN t[i] = ConditionFields /\ NormalCondition(t[i]) = t[i]
    BY <1>3, <1>6, <1>7, NormalConditionIs
<1>10. IsListOf(t, ConditionFields)
    BY <1>8, <1>9 DEF IsListOf, Range
<1>11. [i \in DOMAIN t |-> NormalCondition(t[i])] = t
    BY <1>6, <1>9
<1>12. NormalRule(n) = n
    BY <1>1, <1>4, <1>11 DEF RuleFields, t
<1> QED
    BY <1>1, <1>6, <1>7, <1>8, <1>10, <1>12 DEF n, s, t

\* NormalRules does that to each rule, and keeps their order and their number.
LEMMA NormalRulesIs ==
    ASSUME NEW rules, IsListOf(rules, RuleFields),
           \A rule \in Range(rules) : IsListOf(rule.conditions, ConditionFields)
    PROVE  /\ DOMAIN NormalRules(rules) = DOMAIN rules
           /\ \A i \in DOMAIN rules : NormalRules(rules)[i] = NormalRule(rules[i])
           /\ IsListOf(NormalRules(rules), RuleFields)
           /\ \A rule \in Range(NormalRules(rules)) : IsListOf(rule.conditions, ConditionFields)
           /\ Len(NormalRules(rules)) = Len(rules)
           /\ NormalRules(NormalRules(rules)) = NormalRules(rules)
<1> DEFINE normal == NormalRules(rules)
<1>1. \A s : NormalRules(s) = [i \in DOMAIN s |-> NormalRule(s[i])]
    BY DEF NormalRules, Each, NormalRule, NormalCondition
<1>2. normal = [i \in DOMAIN rules |-> NormalRule(rules[i])]
    BY <1>1
<1>3. \A i \in DOMAIN rules : /\ DOMAIN rules[i] = RuleFields
                              /\ IsListOf(rules[i].conditions, ConditionFields)
    BY DEF IsListOf, Range
<1> HIDE DEF normal
<1>4. DOMAIN normal = DOMAIN rules /\ normal = [i \in DOMAIN normal |-> normal[i]]
    BY <1>2
<1>5. \A i \in DOMAIN rules : normal[i] = NormalRule(rules[i])
    BY <1>2
<1>6. IsList(normal) /\ Len(normal) = Len(rules)
    BY <1>4, MappedIsList DEF IsListOf
<1>7. \A i \in DOMAIN normal : /\ DOMAIN normal[i] = RuleFields /\ NormalRule(normal[i]) = normal[i]
                               /\ IsListOf(normal[i].conditions, ConditionFields)
    BY <1>3, <1>4, <1>5, NormalRuleIs
<1>8. /\ IsListOf(normal, RuleFields)
      /\ \A rule \in Range(normal) : IsListOf(rule.conditions, ConditionFields)
    BY <1>6, <1>7 DEF IsListOf, Range
<1>9. NormalRules(normal) = normal
    <2>1. NormalRules(normal) = [i \in DOMAIN normal |-> NormalRule(normal[i])]
        BY <1>1
    <2> QED
        BY <1>4, <1>7, <2>1
<1> QED
    BY <1>4, <1>5, <1>6, <1>8, <1>9 DEF normal

-----------------------------------------------------------------------------
(* What can be answered of a response *)

\* The variants that pass are there under names that tell them apart, with
\* statuses that can be sent and no header of the server's.
LEMMA VariantsPass ==
    ASSUME NEW variants, IsListOf(variants, VariantFields), NEW rules,
           validResponseConfig(variants, rules)
    PROVE  LET normal == NormalVariants(variants) IN
           /\ \A i \in DOMAIN normal :
                 /\ TrimSpace(normal[i].name) = normal[i].name
                 /\ normal[i].name \notin Malformed \cup {""}
                 /\ Sendable(normal[i].status) /\ validStep(normal[i])
                 /\ DOMAIN normal[i].headers \cap reservedHeaders = {}
                 /\ validHeaderMap(cleanHeaders(normal[i].headers))
           /\ \A i, j \in DOMAIN normal : normal[i].name = normal[j].name => i = j
           /\ {TrimSpace(v.name) : v \in Range(variants)} = {normal[i].name : i \in DOMAIN normal}
           /\ Len(normal) =< MaxNamedVariants
<1> DEFINE normal == NormalVariants(variants)
<1>1. /\ DOMAIN normal = DOMAIN variants
      /\ \A i \in DOMAIN variants : normal[i] = NormalVariant(variants[i])
      /\ Len(normal) = Len(variants)
    BY NormalVariantsIs
<1>2. \A i \in DOMAIN variants : DOMAIN variants[i] = VariantFields /\ variants[i] \in Range(variants)
    BY DEF IsListOf, Range
<1> HIDE DEF normal
<1>3. \A i \in DOMAIN variants :
         /\ normal[i].name = TrimSpace(variants[i].name)
         /\ normal[i].status = Filled(variants[i].status)
         /\ normal[i].headers = cleanHeaders(variants[i].headers)
         /\ normal[i].body = variants[i].body
    BY <1>1, <1>2, NormalVariantIs
<1>4. \A i \in DOMAIN variants :
         /\ TrimSpace(variants[i].name) \notin Malformed \cup {""}
         /\ ValidStatus(variants[i].status) /\ variants[i].body \notin LargeText
         /\ validHeaderMap(cleanHeaders(variants[i].headers))
    BY <1>2 DEF validResponseConfig, validStep
<1>5. ASSUME NEW i \in DOMAIN normal
      PROVE  /\ TrimSpace(normal[i].name) = normal[i].name
             /\ normal[i].name \notin Malformed \cup {""}
             /\ Sendable(normal[i].status) /\ validStep(normal[i])
             /\ DOMAIN normal[i].headers \cap reservedHeaders = {}
             /\ validHeaderMap(cleanHeaders(normal[i].headers))
    <2>1. i \in DOMAIN variants
        BY <1>1
    <2>2. TrimSpace(normal[i].name) = normal[i].name /\ normal[i].name \notin Malformed \cup {""}
        <3> DEFINE name == TrimSpace(variants[i].name)
        <3>1. normal[i].name = name /\ name \notin Malformed \cup {""}
            BY <1>3, <1>4, <2>1
        <3>2. TrimSpace(name) = name
            BY TrimTwice
        <3> QED
            BY <3>1, <3>2
    <2>3. Sendable(normal[i].status) /\ ValidStatus(normal[i].status)
        <3> DEFINE status == variants[i].status
        <3>1. ValidStatus(status)
            BY <1>4, <2>1, Zenon
        <3>2. normal[i].status = Filled(status)
            BY <1>3, <2>1
        <3> HIDE DEF status
        <3>4. Sendable(Filled(status)) /\ ValidStatus(Filled(status))
            BY <3>1, StatusIs, Zenon
        <3> QED
            BY <3>2, <3>4
    <2>4. normal[i].body \notin LargeText
        BY <1>3, <1>4, <2>1
    <2>5. DOMAIN normal[i].headers \cap reservedHeaders = {}
        BY <1>3, <2>1, CleanIs
    <2>6. validHeaderMap(cleanHeaders(normal[i].headers))
        BY <1>3, <1>4, <2>1, CleanTwice
    <2> QED
        BY <2>2, <2>3, <2>4, <2>5, <2>6 DEF validStep
<1>6. \A i, j \in DOMAIN normal : normal[i].name = normal[j].name => i = j
    <2>1. \A i, j \in DOMAIN variants :
             TrimSpace(variants[i].name) = TrimSpace(variants[j].name) => i = j
        BY DEF validResponseConfig, IsInjective, Each
    <2> QED
        BY <1>1, <1>3, <2>1
<1>7. {TrimSpace(v.name) : v \in Range(variants)} = {normal[i].name : i \in DOMAIN normal}
    BY <1>1, <1>3 DEF Range
<1>8. Len(normal) =< MaxNamedVariants
    BY <1>1 DEF validResponseConfig
<1> QED
    BY <1>5, <1>6, <1>7, <1>8 DEF normal

\* The rules that pass still do, and each leads to one variant.
LEMMA RulesPass ==
    ASSUME NEW rules, IsListOf(rules, RuleFields),
           \A rule \in Range(rules) : IsListOf(rule.conditions, ConditionFields),
           NEW names, validRules(rules, names)
    PROVE  /\ validRules(NormalRules(rules), names)
           /\ \A rule \in Range(NormalRules(rules)) : rule.variant \in names
<1> DEFINE normal == NormalRules(rules)
<1>1. /\ DOMAIN normal = DOMAIN rules /\ Len(normal) = Len(rules)
      /\ \A i \in DOMAIN rules : normal[i] = NormalRule(rules[i])
    BY NormalRulesIs
<1> HIDE DEF normal
<1>2. ASSUME NEW i \in DOMAIN rules
      PROVE  /\ normal[i].variant \in names
             /\ Len(normal[i].conditions) \in 1 .. MaxRuleConditions
             /\ \A c \in Range(normal[i].conditions) :
                   /\ TrimSpace(c.source) \in {"method", "path", "query", "header", "body"}
                   /\ TrimSpace(c.operator) \in {"equals", "not_equals", "contains", "exists"}
                   /\ TrimSpace(c.source) \in {"query", "header", "body"} => TrimSpace(c.key) # ""
    <2>1. rules[i] \in Range(rules) /\ DOMAIN rules[i] = RuleFields
          /\ IsListOf(rules[i].conditions, ConditionFields)
        BY DEF IsListOf, Range
    <2>2. /\ normal[i].variant = rules[i].variant
          /\ DOMAIN normal[i].conditions = DOMAIN rules[i].conditions
          /\ Len(normal[i].conditions) = Len(rules[i].conditions)
          /\ \A k \in DOMAIN rules[i].conditions :
                normal[i].conditions[k] = NormalCondition(rules[i].conditions[k])
        BY <1>1, <2>1, NormalRuleIs
    <2>3. ASSUME NEW k \in DOMAIN rules[i].conditions
          PROVE  LET c == normal[i].conditions[k] IN
                 /\ TrimSpace(c.source) \in {"method", "path", "query", "header", "body"}
                 /\ TrimSpace(c.operator) \in {"equals", "not_equals", "contains", "exists"}
                 /\ TrimSpace(c.source) \in {"query", "header", "body"} => TrimSpace(c.key) # ""
        <3> DEFINE b == rules[i].conditions[k]
                   c == normal[i].conditions[k]
        <3>1. b \in Range(rules[i].conditions) /\ DOMAIN b = ConditionFields
            BY <2>1 DEF IsListOf, Range
        <3>2. /\ TrimSpace(b.source) \in {"method", "path", "query", "header", "body"}
              /\ TrimSpace(b.operator) \in {"equals", "not_equals", "contains", "exists"}
              /\ TrimSpace(b.source) \in {"query", "header", "body"} => TrimSpace(b.key) # ""
            BY <2>1, <3>1 DEF validRules
        <3>3. c = NormalCondition(b)
            BY <2>2
        <3> HIDE DEF b, c
        <3>4. /\ TrimSpace(c.source) = TrimSpace(b.source) /\ TrimSpace(c.key) = TrimSpace(b.key)
              /\ TrimSpace(c.operator) = TrimSpace(b.operator)
            BY <3>1, <3>3, NormalConditionIs, TrimTwice
        <3> QED
            BY <3>2, <3>4 DEF c
    <2>4. rules[i].variant \in names /\ Len(rules[i].conditions) \in 1 .. MaxRuleConditions
        BY <2>1 DEF validRules
    <2> QED
        BY <2>2, <2>3, <2>4 DEF Range
<1>3. Len(normal) =< MaxResponseRules
    BY <1>1 DEF validRules
<1>4. \A rule \in Range(normal) : \E i \in DOMAIN rules : rule = normal[i]
    BY <1>1 DEF Range
<1> QED
    BY <1>2, <1>3, <1>4 DEF normal, validRules

\* One name, one index.
LEMMA OneOf ==
    ASSUME NEW s, \A i, j \in DOMAIN s : s[i].name = s[j].name => i = j,
           NEW name \in {s[i].name : i \in DOMAIN s}
    PROVE  Cardinality({i \in DOMAIN s : s[i].name = name}) = 1
<1>1. PICK k \in DOMAIN s : s[k].name = name
    OBVIOUS
<1>2. {i \in DOMAIN s : s[i].name = name} = {k}
    BY <1>1
<1> QED
    BY <1>2, FS_Singleton

\* Variants and rules that pass are left such that they pass again, and each rule
\* leads to one variant.
LEMMA ResponsesPass ==
    ASSUME NEW variants, IsListOf(variants, VariantFields),
           NEW rules, IsListOf(rules, RuleFields),
           \A rule \in Range(rules) : IsListOf(rule.conditions, ConditionFields),
           validResponseConfig(variants, rules)
    PROVE  LET vs == NormalVariants(variants)
               rs == NormalRules(rules)
           IN /\ validResponseConfig(vs, rs)
              /\ \A rule \in Range(rs) : Cardinality({i \in DOMAIN vs : vs[i].name = rule.variant}) = 1
              /\ \A v \in Range(vs) : DOMAIN v.headers \cap reservedHeaders = {}
<1> DEFINE vs == NormalVariants(variants)
           rs == NormalRules(rules)
           names == {vs[i].name : i \in DOMAIN vs}
<1>1. /\ \A i \in DOMAIN vs :
            /\ TrimSpace(vs[i].name) = vs[i].name /\ vs[i].name \notin Malformed \cup {""}
            /\ validStep(vs[i]) /\ DOMAIN vs[i].headers \cap reservedHeaders = {}
            /\ validHeaderMap(cleanHeaders(vs[i].headers))
      /\ \A i, j \in DOMAIN vs : vs[i].name = vs[j].name => i = j
      /\ {TrimSpace(v.name) : v \in Range(variants)} = names
      /\ Len(vs) =< MaxNamedVariants
    <2>1. \A i \in DOMAIN vs :
            /\ TrimSpace(vs[i].name) = vs[i].name /\ vs[i].name \notin Malformed \cup {""}
            /\ validStep(vs[i]) /\ DOMAIN vs[i].headers \cap reservedHeaders = {}
            /\ validHeaderMap(cleanHeaders(vs[i].headers))
        BY VariantsPass
    <2>2. \A i, j \in DOMAIN vs : vs[i].name = vs[j].name => i = j
        BY VariantsPass
    <2>3. {TrimSpace(v.name) : v \in Range(variants)} = names
        BY VariantsPass
    <2>4. Len(vs) =< MaxNamedVariants
        BY VariantsPass
    <2> QED
        BY <2>1, <2>2, <2>3, <2>4
<1>2. validRules(rules, names)
    BY <1>1 DEF validResponseConfig
<1>3. validRules(rs, names) /\ \A rule \in Range(rs) : rule.variant \in names
    <2> HIDE DEF names
    <2> QED
        BY <1>2, RulesPass
<1> HIDE DEF vs, rs
<1>4. {TrimSpace(v.name) : v \in Range(vs)} = names
    <2>1. \A i \in DOMAIN vs : TrimSpace(vs[i].name) = vs[i].name
        BY <1>1
    <2>2. {TrimSpace(v.name) : v \in Range(vs)} \subseteq names
        BY <2>1 DEF Range
    <2>3. ASSUME NEW i \in DOMAIN vs
          PROVE  vs[i].name \in {TrimSpace(v.name) : v \in Range(vs)}
        <3>1. vs[i] \in Range(vs) /\ TrimSpace(vs[i].name) = vs[i].name
            BY <2>1 DEF Range
        <3> QED
            BY <3>1
    <2> QED
        BY <2>2, <2>3
<1>5. IsInjective(Each(vs, LAMBDA v : TrimSpace(v.name)))
    BY <1>1 DEF IsInjective, Each
<1>6. \A v \in Range(vs) :
         /\ TrimSpace(v.name) \notin Malformed \cup {""}
         /\ validStep(v) /\ validHeaderMap(cleanHeaders(v.headers))
         /\ DOMAIN v.headers \cap reservedHeaders = {}
    <2> SUFFICES ASSUME NEW i \in DOMAIN vs
                 PROVE  /\ TrimSpace(vs[i].name) \notin Malformed \cup {""}
                        /\ validStep(vs[i]) /\ validHeaderMap(cleanHeaders(vs[i].headers))
                        /\ DOMAIN vs[i].headers \cap reservedHeaders = {}
        BY DEF Range
    <2> QED
        BY <1>1
<1>7. validResponseConfig(vs, rs)
    BY <1>1, <1>3, <1>4, <1>5, <1>6 DEF validResponseConfig
<1>8. ASSUME NEW rule \in Range(rs)
      PROVE  Cardinality({i \in DOMAIN vs : vs[i].name = rule.variant}) = 1
    <2>1. rule.variant \in names
        BY <1>3
    <2>2. \A i, j \in DOMAIN vs : vs[i].name = vs[j].name => i = j
        BY <1>1
    <2> QED
        BY <2>1, <2>2, OneOf
<1> QED
    BY <1>6, <1>7, <1>8 DEF vs, rs

\* A path has its empty segments taken out once.
LEMMA NonEmptyTwice ==
    ASSUME NEW path, IsList(path)
    PROVE  NonEmpty(NonEmpty(path)) = NonEmpty(path)
<1> DEFINE p == NonEmpty(path)
<1>1. IsList(p) /\ "" \notin Range(p)
    BY NonEmptyIs
<1> HIDE DEF p
<1>2. NonEmpty(p) = p
    BY <1>1, NonEmptyKeeps
<1> QED
    BY <1>2 DEF p

\* What validRoutes asks of one route.
RoutePasses(r) ==
    /\ r.method \in Method /\ validRoutePath(normalizeRoutePath(r.path))
    /\ validStep(r) /\ validHeaderMap(cleanHeaders(r.headers))
    /\ validResponseConfig(r.variants, r.rules)

\* What can be answered: a status, and one variant for each rule.
Answerable(src) ==
    /\ Sendable(src.status)
    /\ \A rule \in Range(src.rules) :
          Cardinality({i \in DOMAIN src.variants : src.variants[i].name = rule.variant}) = 1

\* None of the headers of a response and its variants is reserved.
Unreserved(src) ==
    /\ DOMAIN src.headers \cap reservedHeaders = {}
    /\ \A v \in Range(src.variants) : DOMAIN v.headers \cap reservedHeaders = {}

\* The fields of a normal route.
LEMMA NormalRouteIs ==
    ASSUME NEW r, DOMAIN r = RouteFields
    PROVE  LET n == NormalRoute(r) IN
           /\ DOMAIN n = RouteFields /\ n = [f \in DOMAIN n |-> n[f]]
           /\ n.method = r.method /\ n.body = r.body /\ n.name = r.name
           /\ n.path = NonEmpty(r.path) /\ n.status = Filled(r.status)
           /\ n.contentType = OrDefault(r.contentType, "", "application/json")
           /\ n.headers = cleanHeaders(r.headers)
           /\ n.variants = NormalVariants(r.variants) /\ n.rules = NormalRules(r.rules)
<1> DEFINE n == NormalRoute(r)
<1>1. DOMAIN n = RouteFields /\ n = [f \in DOMAIN n |-> n[f]]
    BY ZenonT(60) DEF NormalRoute
<1>2. /\ n.method = r.method /\ n.body = r.body /\ n.name = r.name
      /\ n.path = NonEmpty(r.path) /\ n.status = Filled(r.status)
    BY DEF NormalRoute, RouteFields, normalizeRoutePath, Filled
<1>3. /\ n.contentType = OrDefault(r.contentType, "", "application/json")
      /\ n.headers = cleanHeaders(r.headers)
      /\ n.variants = NormalVariants(r.variants) /\ n.rules = NormalRules(r.rules)
    BY DEF NormalRoute, RouteFields
<1> QED
    BY <1>1, <1>2, <1>3

\* A route is normalized once.
LEMMA NormalRouteTwice ==
    ASSUME NEW r, DOMAIN r = RouteFields, HasResponses(r), IsList(r.path)
    PROVE  NormalRoute(NormalRoute(r)) = NormalRoute(r)
<1> DEFINE n == NormalRoute(r)
           o == NormalRoute(n)
<1>1. /\ DOMAIN n = RouteFields /\ n = [f \in DOMAIN n |-> n[f]]
      /\ n.path = NonEmpty(r.path) /\ n.status = Filled(r.status)
      /\ n.contentType = OrDefault(r.contentType, "", "application/json")
      /\ n.headers = cleanHeaders(r.headers)
      /\ n.variants = NormalVariants(r.variants) /\ n.rules = NormalRules(r.rules)
    BY NormalRouteIs
<1> HIDE DEF n
<1>2. NonEmpty(n.path) = n.path
    BY <1>1, NonEmptyTwice
<1>3. Filled(n.status) = n.status
    BY <1>1, FilledTwice
<1>4. OrDefault(n.contentType, "", "application/json") = n.contentType
    BY <1>1 DEF OrDefault
<1>5. cleanHeaders(n.headers) = n.headers
    BY <1>1, CleanTwice
<1>6. NormalVariants(n.variants) = n.variants
    BY <1>1, NormalVariantsIs DEF HasResponses
<1>7. NormalRules(n.rules) = n.rules
    BY <1>1, NormalRulesIs DEF HasResponses
<1>8. /\ DOMAIN o = RouteFields /\ o = [f \in DOMAIN o |-> o[f]]
      /\ o.method = n.method /\ o.body = n.body /\ o.name = n.name
      /\ o.path = NonEmpty(n.path) /\ o.status = Filled(n.status)
      /\ o.contentType = OrDefault(n.contentType, "", "application/json")
      /\ o.headers = cleanHeaders(n.headers)
      /\ o.variants = NormalVariants(n.variants) /\ o.rules = NormalRules(n.rules)
    BY <1>1, NormalRouteIs
<1> HIDE DEF o
<1>9. \A f \in RouteFields : o[f] = n[f]
    BY <1>2, <1>3, <1>4, <1>5, <1>6, <1>7, <1>8 DEF RouteFields
<1>10. o = n
    BY <1>1, <1>8, <1>9
<1> QED
    BY <1>10 DEF n, o

\* A route that passes is left such that it passes again, and can be answered.
LEMMA RoutePass ==
    ASSUME NEW r, DOMAIN r = RouteFields, HasResponses(r), IsList(r.path), RoutePasses(r)
    PROVE  LET n == NormalRoute(r) IN
           RoutePasses(n) /\ Answerable(n) /\ Unreserved(n)
<1> DEFINE n == NormalRoute(r)
<1>1. /\ n.method = r.method /\ n.body = r.body
      /\ n.path = NonEmpty(r.path) /\ n.status = Filled(r.status)
      /\ n.headers = cleanHeaders(r.headers)
      /\ n.variants = NormalVariants(r.variants) /\ n.rules = NormalRules(r.rules)
    BY NormalRouteIs
<1> HIDE DEF n
<1>2. /\ validResponseConfig(n.variants, n.rules)
      /\ \A rule \in Range(n.rules) :
            Cardinality({i \in DOMAIN n.variants : n.variants[i].name = rule.variant}) = 1
      /\ \A v \in Range(n.variants) : DOMAIN v.headers \cap reservedHeaders = {}
    <2>1. /\ IsListOf(r.variants, VariantFields) /\ IsListOf(r.rules, RuleFields)
          /\ \A rule \in Range(r.rules) : IsListOf(rule.conditions, ConditionFields)
        BY DEF HasResponses
    <2>2. validResponseConfig(r.variants, r.rules)
        BY DEF RoutePasses
    <2> QED
        BY <1>1, <2>1, <2>2, ResponsesPass
<1>3. Sendable(n.status) /\ ValidStatus(n.status)
    <2>1. ValidStatus(r.status)
        BY Zenon DEF RoutePasses, validStep
    <2> QED
        BY <1>1, <2>1, StatusIs, Zenon
<1>4. n.method \in Method /\ n.body \notin LargeText
    BY <1>1 DEF RoutePasses, validStep
<1>5. validRoutePath(normalizeRoutePath(n.path))
    BY <1>1, NonEmptyTwice DEF RoutePasses, normalizeRoutePath
<1>6. validHeaderMap(cleanHeaders(n.headers))
    BY <1>1, CleanTwice DEF RoutePasses
<1>7. DOMAIN n.headers \cap reservedHeaders = {}
    BY <1>1, CleanIs
<1>8. RoutePasses(n)
    BY <1>2, <1>3, <1>4, <1>5, <1>6 DEF RoutePasses, validStep
<1>9. Answerable(n)
    BY <1>2, <1>3 DEF Answerable
<1>10. Unreserved(n)
    BY <1>2, <1>7 DEF Unreserved
<1> QED
    BY <1>8, <1>9, <1>10 DEF n

\* Routes that pass are left such that they pass again, each can be answered and
\* told from the others by its method or its path.
LEMMA RoutesPass ==
    ASSUME NEW routes, IsListOf(routes, RouteFields),
           \A r \in Range(routes) : HasResponses(r) /\ IsList(r.path),
           validRoutes(routes)
    PROVE  LET normal == Each(routes, NormalRoute) IN
           /\ validRoutes(normal) /\ Each(normal, NormalRoute) = normal
           /\ normal = <<>> <=> routes = <<>>
           /\ \A r \in Range(normal) : Answerable(r) /\ Unreserved(r)
           /\ \A i, j \in DOMAIN normal : i # j =>
                 normal[i].path # normal[j].path \/ normal[i].method # normal[j].method
<1> DEFINE normal == Each(routes, NormalRoute)
<1>1. normal = [i \in DOMAIN routes |-> NormalRoute(routes[i])]
    BY DEF Each
<1> HIDE DEF normal
<1>2. DOMAIN normal = DOMAIN routes /\ normal = [i \in DOMAIN normal |-> normal[i]]
    BY <1>1
<1>3. \A i \in DOMAIN routes : normal[i] = NormalRoute(routes[i])
    BY <1>1
<1>4. IsList(normal) /\ Len(normal) = Len(routes)
    BY <1>2, MappedIsList DEF IsListOf
<1>5. \A i \in DOMAIN routes :
         /\ DOMAIN routes[i] = RouteFields /\ HasResponses(routes[i]) /\ IsList(routes[i].path)
         /\ RoutePasses(routes[i])
    <2>1. \A r \in Range(routes) :
             DOMAIN r = RouteFields /\ HasResponses(r) /\ IsList(r.path) /\ RoutePasses(r)
        BY DEF IsListOf, validRoutes, RoutePasses
    <2> QED
        BY <2>1 DEF Range
<1>6. \A i \in DOMAIN normal :
         /\ RoutePasses(normal[i]) /\ Answerable(normal[i]) /\ Unreserved(normal[i])
         /\ NormalRoute(normal[i]) = normal[i]
    BY <1>2, <1>3, <1>5, RoutePass, NormalRouteTwice
<1>7. \A i \in DOMAIN routes :
         normal[i].method = routes[i].method /\ normal[i].path = NonEmpty(routes[i].path)
    BY <1>3, <1>5, NormalRouteIs
<1>8. \A i \in DOMAIN normal : NonEmpty(normal[i].path) = normal[i].path
    BY <1>2, <1>5, <1>7, NonEmptyTwice
<1>9. \A i, j \in DOMAIN normal :
         normal[i].path = normal[j].path /\ normal[i].method = normal[j].method => i = j
    <2>1. \A i, j \in DOMAIN routes :
             <<routes[i].method, NonEmpty(routes[i].path)>>
                = <<routes[j].method, NonEmpty(routes[j].path)>> => i = j
        BY DEF validRoutes, IsInjective, Each, normalizeRoutePath
    <2> QED
        BY <1>2, <1>7, <2>1
<1>10. IsInjective(Each(normal, LAMBDA r : <<r.method, normalizeRoutePath(r.path)>>))
    BY <1>8, <1>9 DEF IsInjective, Each, normalizeRoutePath
<1>11. Each(normal, NormalRoute) = normal
    <2>1. Each(normal, NormalRoute) = [i \in DOMAIN normal |-> NormalRoute(normal[i])]
        BY DEF Each
    <2>2. [i \in DOMAIN normal |-> NormalRoute(normal[i])] = [i \in DOMAIN normal |-> normal[i]]
        BY <1>6
    <2> QED
        BY <1>2, <2>1, <2>2
<1>12. \A r \in Range(normal) : RoutePasses(r) /\ Answerable(r) /\ Unreserved(r)
    BY <1>6 DEF Range
<1>13. Len(normal) =< MaxMockRoutes
    BY <1>4 DEF validRoutes
<1>14. validRoutes(normal)
    BY <1>10, <1>12, <1>13 DEF validRoutes, RoutePasses
<1>15. normal = <<>> <=> routes = <<>>
    <2>1. IsList(routes)
        BY DEF IsListOf
    <2>2. normal = <<>> <=> Len(normal) = 0
        BY <1>4, EmptySeq DEF IsList
    <2>3. routes = <<>> <=> Len(routes) = 0
        BY <2>1, EmptySeq DEF IsList
    <2> QED
        BY <1>4, <2>2, <2>3
<1> QED
    BY <1>9, <1>11, <1>12, <1>14, <1>15 DEF normal

-----------------------------------------------------------------------------
(* The steps of the sequence, and the error response *)

NormalStep(s) == [s EXCEPT !.status = Filled(@), !.headers = cleanHeaders(@)]
NormalSteps(steps) == [i \in DOMAIN steps |-> NormalStep(steps[i])]

NormalError(s) == [s EXCEPT !.status = FilledError(@), !.headers = NoHeaders]
NormalErrors(errors) == [i \in DOMAIN errors |-> NormalError(errors[i])]

\* A step gets its status and has its headers cleaned, once.
LEMMA NormalStepIs ==
    ASSUME NEW s, DOMAIN s = StepFields
    PROVE  LET n == NormalStep(s) IN
           /\ DOMAIN n = StepFields /\ n.body = s.body
           /\ n.status = Filled(s.status) /\ n.headers = cleanHeaders(s.headers)
           /\ NormalStep(n) = n
<1> DEFINE n == NormalStep(s)
<1>1. /\ DOMAIN n = StepFields /\ n.body = s.body
      /\ n.status = Filled(s.status) /\ n.headers = cleanHeaders(s.headers)
    BY DEF NormalStep, StepFields
<1>2. n = [f \in DOMAIN n |-> n[f]]
    BY DEF NormalStep
<1>3. cleanHeaders(n.headers) = n.headers
    BY <1>1, CleanTwice
<1>4. Filled(n.status) = n.status
    BY <1>1, FilledTwice
<1>5. NormalStep(n) = n
    <2> HIDE DEF n
    <2> QED
        BY <1>1, <1>2, <1>3, <1>4 DEF NormalStep, StepFields
<1> QED
    BY <1>1, <1>5

\* An error response gets its status and loses its headers, once.
LEMMA NormalErrorIs ==
    ASSUME NEW s, DOMAIN s = StepFields
    PROVE  LET n == NormalError(s) IN
           /\ DOMAIN n = StepFields /\ n.body = s.body
           /\ n.status = FilledError(s.status) /\ n.headers = NoHeaders
           /\ NormalError(n) = n
<1> DEFINE n == NormalError(s)
<1>1. /\ DOMAIN n = StepFields /\ n.body = s.body
      /\ n.status = FilledError(s.status) /\ n.headers = NoHeaders
    BY DEF NormalError, StepFields
<1>2. n = [f \in DOMAIN n |-> n[f]]
    BY Zenon DEF NormalError
<1>4. FilledError(n.status) = n.status
    BY <1>1, FilledTwice
<1>5. NormalError(n) = n
    <2> HIDE DEF n
    <2> QED
        BY <1>1, <1>2, <1>4 DEF NormalError, StepFields
<1> QED
    BY <1>1, <1>5

\* The server sets nothing by way of an absent header map.
LEMMA NoHeadersIs ==
    DOMAIN NoHeaders = {} /\ validHeaderMap(NoHeaders)
BY DEF NoHeaders, validHeaderMap

\* Steps that pass are left such that they pass again, unchanged.
LEMMA StepsPass ==
    ASSUME NEW steps, IsListOf(steps, StepFields),
           \A s \in Range(steps) : validStep(s) /\ validHeaderMap(cleanHeaders(s.headers))
    PROVE  LET normal == NormalSteps(steps) IN
           /\ Len(normal) = Len(steps) /\ NormalSteps(normal) = normal
           /\ \A s \in Range(normal) : /\ validStep(s) /\ validHeaderMap(cleanHeaders(s.headers))
                                       /\ DOMAIN s.headers \cap reservedHeaders = {}
<1> DEFINE normal == NormalSteps(steps)
<1>1. normal = [i \in DOMAIN steps |-> NormalStep(steps[i])]
    BY DEF NormalSteps
<1> HIDE DEF normal
<1>2. DOMAIN normal = DOMAIN steps /\ normal = [i \in DOMAIN normal |-> normal[i]]
    BY <1>1
<1>3. \A i \in DOMAIN steps : normal[i] = NormalStep(steps[i])
    BY <1>1
<1>4. Len(normal) = Len(steps)
    BY <1>2, MappedIsList DEF IsListOf
<1>5. \A i \in DOMAIN steps :
         /\ DOMAIN steps[i] = StepFields /\ ValidStatus(steps[i].status)
         /\ steps[i].body \notin LargeText /\ validHeaderMap(cleanHeaders(steps[i].headers))
    BY Zenon DEF IsListOf, Range, validStep
<1>6. ASSUME NEW i \in DOMAIN steps
      PROVE  /\ validStep(normal[i]) /\ validHeaderMap(cleanHeaders(normal[i].headers))
             /\ DOMAIN normal[i].headers \cap reservedHeaders = {}
             /\ NormalStep(normal[i]) = normal[i]
    <2>1. /\ normal[i].body = steps[i].body
          /\ normal[i].status = Filled(steps[i].status)
          /\ normal[i].headers = cleanHeaders(steps[i].headers)
          /\ NormalStep(normal[i]) = normal[i]
        BY <1>3, <1>5, NormalStepIs
    <2>2. ValidStatus(normal[i].status)
        <3>2. ValidStatus(steps[i].status)
            BY <1>5, Zenon
        <3> QED
            BY <2>1, <3>2, StatusIs, Zenon
    <2>3. normal[i].body \notin LargeText
        BY <1>5, <2>1
    <2>4. validHeaderMap(cleanHeaders(normal[i].headers))
        BY <1>5, <2>1, CleanTwice
    <2>5. DOMAIN normal[i].headers \cap reservedHeaders = {}
        BY <2>1, CleanIs
    <2> QED
        BY <2>1, <2>2, <2>3, <2>4, <2>5 DEF validStep
<1>7. NormalSteps(normal) = normal
    <2>1. NormalSteps(normal) = [i \in DOMAIN normal |-> NormalStep(normal[i])]
        BY DEF NormalSteps
    <2>2. [i \in DOMAIN normal |-> NormalStep(normal[i])] = [i \in DOMAIN normal |-> normal[i]]
        BY <1>2, <1>6
    <2> QED
        BY <1>2, <2>1, <2>2
<1>8. \A s \in Range(normal) : /\ validStep(s) /\ validHeaderMap(cleanHeaders(s.headers))
                               /\ DOMAIN s.headers \cap reservedHeaders = {}
    BY <1>2, <1>6 DEF Range
<1> QED
    BY <1>4, <1>7, <1>8 DEF normal

\* An error response that passes does so again, without its headers.
LEMMA ErrorPasses ==
    ASSUME NEW errors, IsListOf(errors, StepFields), errors # <<>>, validStep(errors[1])
    PROVE  LET normal == NormalErrors(errors) IN
           /\ normal # <<>> /\ NormalErrors(normal) = normal
           /\ validStep(normal[1]) /\ validHeaderMap(normal[1].headers)
<1> DEFINE normal == NormalErrors(errors)
<1>1. normal = [i \in DOMAIN errors |-> NormalError(errors[i])]
    BY DEF NormalErrors
<1> HIDE DEF normal
<1>2. DOMAIN normal = DOMAIN errors /\ normal = [i \in DOMAIN normal |-> normal[i]]
    BY <1>1
<1>3. \A i \in DOMAIN errors : normal[i] = NormalError(errors[i]) /\ DOMAIN errors[i] = StepFields
    BY <1>1 DEF IsListOf, Range
<1>4. 1 \in DOMAIN errors /\ normal # <<>>
    <2>1. IsList(errors) /\ errors \in Seq(Range(errors))
        BY DEF IsListOf, IsList
    <2>2. Len(errors) \in Nat \ {0} /\ DOMAIN errors = 1 .. Len(errors)
        BY <2>1, EmptySeq, LenProperties
    <2>3. 1 \in DOMAIN errors
        BY <2>2
    <2> QED
        BY <1>2, <2>3
<1>5. \A i \in DOMAIN normal : NormalError(normal[i]) = normal[i]
    BY <1>2, <1>3, NormalErrorIs
<1>6. NormalErrors(normal) = normal
    <2>1. NormalErrors(normal) = [i \in DOMAIN normal |-> NormalError(normal[i])]
        BY DEF NormalErrors
    <2>2. [i \in DOMAIN normal |-> NormalError(normal[i])] = [i \in DOMAIN normal |-> normal[i]]
        BY <1>5
    <2> QED
        BY <1>2, <2>1, <2>2
<1>7. /\ normal[1].body = errors[1].body /\ normal[1].status = FilledError(errors[1].status)
      /\ normal[1].headers = NoHeaders
    BY <1>3, <1>4, NormalErrorIs
<1>8. ValidStatus(normal[1].status)
    <2>1. ValidStatus(errors[1].status)
        BY Zenon DEF validStep
    <2> QED
        BY <1>7, <2>1, StatusIs, Zenon
<1>9. validStep(normal[1])
    BY <1>7, <1>8 DEF validStep
<1> QED
    BY <1>4, <1>6, <1>7, <1>9, NoHeadersIs DEF normal

-----------------------------------------------------------------------------
(* The row *)

\* The fields of what is stored for an input.
LEMMA RowIs ==
    ASSUME NEW in, DOMAIN in = ConfigFields
    PROVE  LET m == Row(in) IN
           /\ DOMAIN m = ConfigFields /\ m = [f \in DOMAIN m |-> m[f]]
           /\ m.name = TrimSpace(in.name) /\ m.slug = TrimSpace(in.slug)
           /\ m.method = in.method /\ m.body = in.body /\ m.cors = in.cors
           /\ m.delay = in.delay /\ m.delayMax = in.delayMax /\ m.ttl = in.ttl
           /\ m.errorRate = in.errorRate /\ m.creatorIP = in.creatorIP
           /\ m.status = Filled(in.status)
           /\ m.contentType = OrDefault(in.contentType, "", "text/plain; charset=utf-8")
           /\ m.headers = cleanHeaders(in.headers)
           /\ m.pathSuffix = IF in.routes = <<>> THEN NonEmpty(in.pathSuffix) ELSE <<>>
           /\ m.error = IF in.errorRate = 0 THEN <<>> ELSE NormalErrors(in.error)
           /\ m.steps = NormalSteps(in.steps)
           /\ m.variants = NormalVariants(in.variants) /\ m.rules = NormalRules(in.rules)
           /\ m.routes = Each(in.routes, NormalRoute)
<1> DEFINE n == Normal(in)
           m == Row(in)
<1>1. /\ DOMAIN n = ConfigFields
      /\ n.name = in.name /\ n.slug = TrimSpace(in.slug)
      /\ n.method = in.method /\ n.body = in.body /\ n.cors = in.cors
      /\ n.delay = in.delay /\ n.delayMax = in.delayMax /\ n.ttl = in.ttl
      /\ n.errorRate = in.errorRate /\ n.creatorIP = in.creatorIP
      /\ n.status = Filled(in.status)
    <2>1. DOMAIN n = ConfigFields
        BY DEF Normal
    <2>2. n.name = in.name /\ n.slug = TrimSpace(in.slug) /\ n.method = in.method
        BY DEF Normal, ConfigFields
    <2>3. n.body = in.body /\ n.cors = in.cors /\ n.delay = in.delay
        BY DEF Normal, ConfigFields
    <2>4. n.delayMax = in.delayMax /\ n.ttl = in.ttl /\ n.errorRate = in.errorRate
        BY DEF Normal, ConfigFields
    <2>5. n.creatorIP = in.creatorIP /\ n.status = Filled(in.status)
        BY DEF Normal, ConfigFields, Filled
    <2> QED
        BY <2>1, <2>2, <2>3, <2>4, <2>5
<1>2. /\ n.contentType = OrDefault(in.contentType, "", "text/plain; charset=utf-8")
      /\ n.headers = in.headers
      /\ n.pathSuffix = IF in.routes = <<>> THEN NonEmpty(in.pathSuffix) ELSE <<>>
      /\ n.variants = NormalVariants(in.variants) /\ n.rules = NormalRules(in.rules)
      /\ n.routes = Each(in.routes, NormalRoute)
    BY DEF Normal, ConfigFields
<1>3. n.steps = NormalSteps(in.steps)
    BY DEF Normal, ConfigFields, NormalSteps, NormalStep, Each, Filled
<1>4. n.error = IF in.errorRate = 0 THEN <<>> ELSE NormalErrors(in.error)
    BY DEF Normal, ConfigFields, NormalErrors, NormalError, Each, FilledError
<1>5. m = [n EXCEPT !.name = TrimSpace(@), !.headers = cleanHeaders(@)]
    BY DEF Row
<1> HIDE DEF n, m
<1>6. DOMAIN m = ConfigFields /\ m = [f \in DOMAIN m |-> m[f]]
    BY <1>1, <1>5
<1>7. /\ m.name = TrimSpace(n.name) /\ m.headers = cleanHeaders(n.headers)
      /\ \A f \in ConfigFields \ {"name", "headers"} : m[f] = n[f]
    BY <1>1, <1>5 DEF ConfigFields
<1>8. /\ m.slug = n.slug /\ m.method = n.method /\ m.body = n.body /\ m.cors = n.cors
      /\ m.delay = n.delay /\ m.delayMax = n.delayMax /\ m.ttl = n.ttl
      /\ m.errorRate = n.errorRate /\ m.creatorIP = n.creatorIP /\ m.status = n.status
      /\ m.contentType = n.contentType /\ m.pathSuffix = n.pathSuffix /\ m.error = n.error
      /\ m.steps = n.steps /\ m.variants = n.variants /\ m.rules = n.rules /\ m.routes = n.routes
    BY <1>7 DEF ConfigFields
<1> QED
    BY <1>1, <1>2, <1>3, <1>4, <1>6, <1>7, <1>8 DEF m

\* What is left of an input that passes can be answered, by the mock's own response
\* and by each route, and no header of it is reserved.
THEOREM RowIsAnswerable ==
    ASSUME NEW in, IsConfig(in), valid(in)
    PROVE  LET m == Row(in) IN
           /\ \A src \in {m} \cup Range(m.routes) : Answerable(src) /\ Unreserved(src)
           /\ \A i, j \in DOMAIN m.routes : i # j =>
                 m.routes[i].path # m.routes[j].path \/ m.routes[i].method # m.routes[j].method
           /\ \A s \in Range(m.steps) : DOMAIN s.headers \cap reservedHeaders = {}
<1> DEFINE m == Row(in)
<1>1. /\ m.status = Filled(in.status) /\ m.headers = cleanHeaders(in.headers)
      /\ m.variants = NormalVariants(in.variants) /\ m.rules = NormalRules(in.rules)
      /\ m.steps = NormalSteps(in.steps) /\ m.routes = Each(in.routes, NormalRoute)
    BY RowIs DEF IsConfig
<1> HIDE DEF m
<1>2. /\ IsListOf(in.variants, VariantFields) /\ IsListOf(in.rules, RuleFields)
      /\ \A rule \in Range(in.rules) : IsListOf(rule.conditions, ConditionFields)
      /\ IsListOf(in.steps, StepFields) /\ IsListOf(in.routes, RouteFields)
      /\ \A r \in Range(in.routes) : HasResponses(r) /\ IsList(r.path)
    BY DEF IsConfig, HasResponses
<1>3. /\ \A rule \in Range(m.rules) :
            Cardinality({i \in DOMAIN m.variants : m.variants[i].name = rule.variant}) = 1
      /\ \A v \in Range(m.variants) : DOMAIN v.headers \cap reservedHeaders = {}
    <2>1. validResponseConfig(in.variants, in.rules)
        BY Zenon DEF valid
    <2> QED
        BY <1>1, <1>2, <2>1, ResponsesPass
<1>4. Sendable(m.status)
    <2>1. ValidStatus(in.status)
        BY Zenon DEF valid, validStep
    <2> QED
        BY <1>1, <2>1, StatusIs, Zenon
<1>5. DOMAIN m.headers \cap reservedHeaders = {}
    BY <1>1, CleanIs
<1>6. /\ \A r \in Range(m.routes) : Answerable(r) /\ Unreserved(r)
      /\ \A i, j \in DOMAIN m.routes : i # j =>
            m.routes[i].path # m.routes[j].path \/ m.routes[i].method # m.routes[j].method
    <2>1. validRoutes(in.routes)
        BY Zenon DEF valid
    <2> QED
        BY <1>1, <1>2, <2>1, RoutesPass
<1>7. \A s \in Range(m.steps) : DOMAIN s.headers \cap reservedHeaders = {}
    <2>1. \A s \in Range(in.steps) : validStep(s) /\ validHeaderMap(cleanHeaders(s.headers))
        BY Zenon DEF valid
    <2> QED
        BY <1>1, <1>2, <2>1, StepsPass
<1>8. Answerable(m) /\ Unreserved(m)
    BY <1>3, <1>4, <1>5 DEF Answerable, Unreserved
<1> QED
    BY <1>6, <1>7, <1>8 DEF m

\* The error response is there exactly if it has a rate, and passes again.
LEMMA RowHasItsError ==
    ASSUME NEW in, IsConfig(in), valid(in)
    PROVE  LET m == Row(in) IN
           /\ m.error # <<>> <=> m.errorRate > 0
           /\ m.errorRate \in 0 .. 100 /\ validErrorResponse(m)
           /\ m.error = IF m.errorRate = 0 THEN <<>> ELSE NormalErrors(m.error)
<1> DEFINE m == Row(in)
<1>1. /\ m.errorRate = in.errorRate
      /\ m.error = IF in.errorRate = 0 THEN <<>> ELSE NormalErrors(in.error)
    BY RowIs DEF IsConfig
<1>2. in.errorRate \in 0 .. 100
    BY DEF valid
<1>3. IsListOf(in.error, StepFields)
    BY DEF IsConfig
<1> HIDE DEF m
<1>4. CASE in.errorRate = 0
    <2>1. m.error = <<>> /\ m.errorRate = 0
        BY <1>1, <1>4
    <2>2. validErrorResponse(m)
        BY <2>1 DEF validErrorResponse
    <2> QED
        BY <2>1, <2>2 DEF m
<1>5. CASE in.errorRate # 0
    <2>1. in.error # <<>> /\ validStep(in.error[1])
        BY <1>5, Zenon DEF valid, validErrorResponse
    <2>2. /\ m.error # <<>> /\ NormalErrors(m.error) = m.error
          /\ validStep(m.error[1]) /\ validHeaderMap(m.error[1].headers)
        BY <1>1, <1>3, <1>5, <2>1, ErrorPasses
    <2>3. m.errorRate > 0 /\ m.errorRate \in 0 .. 100 /\ m.errorRate # 0
        BY <1>1, <1>2, <1>5
    <2>4. validErrorResponse(m)
        BY <2>2 DEF validErrorResponse
    <2> QED
        BY <2>2, <2>3, <2>4 DEF m
<1> QED
    BY <1>4, <1>5

\* The row of a mock, submitted again, gives the same row.
THEOREM RowTwice ==
    ASSUME NEW in, IsConfig(in), valid(in)
    PROVE  Row(Row(in)) = Row(in)
<1> DEFINE m == Row(in)
           n == Row(m)
<1>1. /\ DOMAIN m = ConfigFields /\ m = [f \in DOMAIN m |-> m[f]]
      /\ m.name = TrimSpace(in.name) /\ m.slug = TrimSpace(in.slug)
      /\ m.status = Filled(in.status)
      /\ m.contentType = OrDefault(in.contentType, "", "text/plain; charset=utf-8")
      /\ m.headers = cleanHeaders(in.headers)
      /\ m.pathSuffix = IF in.routes = <<>> THEN NonEmpty(in.pathSuffix) ELSE <<>>
      /\ m.steps = NormalSteps(in.steps)
      /\ m.variants = NormalVariants(in.variants) /\ m.rules = NormalRules(in.rules)
      /\ m.routes = Each(in.routes, NormalRoute)
    BY RowIs DEF IsConfig
<1>2. m.error = IF m.errorRate = 0 THEN <<>> ELSE NormalErrors(m.error)
    BY RowHasItsError
<1>3. /\ IsListOf(in.variants, VariantFields) /\ IsListOf(in.rules, RuleFields)
      /\ \A rule \in Range(in.rules) : IsListOf(rule.conditions, ConditionFields)
      /\ IsListOf(in.steps, StepFields) /\ IsListOf(in.routes, RouteFields)
      /\ \A r \in Range(in.routes) : HasResponses(r) /\ IsList(r.path)
      /\ IsList(in.pathSuffix)
    BY DEF IsConfig, HasResponses
<1> HIDE DEF m
<1>4. TrimSpace(m.name) = m.name /\ TrimSpace(m.slug) = m.slug
    BY <1>1, TrimTwice
<1>5. /\ Filled(m.status) = m.status
      /\ OrDefault(m.contentType, "", "text/plain; charset=utf-8") = m.contentType
    <2>1. Filled(m.status) = m.status
        BY <1>1, FilledTwice
    <2>2. OrDefault(m.contentType, "", "text/plain; charset=utf-8") = m.contentType
        BY <1>1 DEF OrDefault
    <2> QED
        BY <2>1, <2>2
<1>6. cleanHeaders(m.headers) = m.headers
    BY <1>1, CleanTwice
<1>7. NormalSteps(m.steps) = m.steps
    <2>1. \A s \in Range(in.steps) : validStep(s) /\ validHeaderMap(cleanHeaders(s.headers))
        BY Zenon DEF valid
    <2> QED
        BY <1>1, <1>3, <2>1, StepsPass
<1>8. NormalVariants(m.variants) = m.variants /\ NormalRules(m.rules) = m.rules
    BY <1>1, <1>3, NormalVariantsIs, NormalRulesIs
<1>9. Each(m.routes, NormalRoute) = m.routes /\ (m.routes = <<>> <=> in.routes = <<>>)
    <2>1. validRoutes(in.routes)
        BY Zenon DEF valid
    <2> QED
        BY <1>1, <1>3, <2>1, RoutesPass
<1>10. (IF m.routes = <<>> THEN NonEmpty(m.pathSuffix) ELSE <<>>) = m.pathSuffix
    BY <1>1, <1>3, <1>9, NonEmptyTwice
<1>11. /\ DOMAIN n = ConfigFields /\ n = [f \in DOMAIN n |-> n[f]]
       /\ n.name = TrimSpace(m.name) /\ n.slug = TrimSpace(m.slug)
       /\ n.method = m.method /\ n.body = m.body /\ n.cors = m.cors
       /\ n.delay = m.delay /\ n.delayMax = m.delayMax /\ n.ttl = m.ttl
       /\ n.errorRate = m.errorRate /\ n.creatorIP = m.creatorIP
       /\ n.status = Filled(m.status)
       /\ n.contentType = OrDefault(m.contentType, "", "text/plain; charset=utf-8")
       /\ n.headers = cleanHeaders(m.headers)
       /\ n.pathSuffix = IF m.routes = <<>> THEN NonEmpty(m.pathSuffix) ELSE <<>>
       /\ n.error = IF m.errorRate = 0 THEN <<>> ELSE NormalErrors(m.error)
       /\ n.steps = NormalSteps(m.steps)
       /\ n.variants = NormalVariants(m.variants) /\ n.rules = NormalRules(m.rules)
       /\ n.routes = Each(m.routes, NormalRoute)
    BY <1>1, RowIs
<1> HIDE DEF n
<1>12. \A f \in ConfigFields : n[f] = m[f]
    <2>1. n.name = m.name /\ n.slug = m.slug /\ n.headers = m.headers
        BY <1>4, <1>6, <1>11
    <2>2. n.status = m.status /\ n.contentType = m.contentType
        BY <1>5, <1>11
    <2>3. n.pathSuffix = m.pathSuffix /\ n.error = m.error
        BY <1>2, <1>10, <1>11
    <2>4. n.steps = m.steps /\ n.variants = m.variants /\ n.rules = m.rules /\ n.routes = m.routes
        BY <1>7, <1>8, <1>9, <1>11
    <2>5. /\ n.method = m.method /\ n.body = m.body /\ n.cors = m.cors
          /\ n.delay = m.delay /\ n.delayMax = m.delayMax /\ n.ttl = m.ttl
          /\ n.errorRate = m.errorRate /\ n.creatorIP = m.creatorIP
        BY <1>11
    <2> QED
        BY <2>1, <2>2, <2>3, <2>4, <2>5 DEF ConfigFields
<1>13. n = m
    BY <1>1, <1>11, <1>12
<1> QED
    BY <1>13 DEF m, n

\* The row of a mock, submitted again, passes validate.
THEOREM RowPasses ==
    ASSUME NEW in, IsConfig(in), valid(in)
    PROVE  valid(Row(in))
<1> DEFINE m == Row(in)
<1>1. /\ m.slug = TrimSpace(in.slug) /\ m.method = in.method /\ m.body = in.body
      /\ m.delay = in.delay /\ m.delayMax = in.delayMax /\ m.ttl = in.ttl
      /\ m.status = Filled(in.status) /\ m.headers = cleanHeaders(in.headers)
      /\ m.pathSuffix = IF in.routes = <<>> THEN NonEmpty(in.pathSuffix) ELSE <<>>
      /\ m.steps = NormalSteps(in.steps)
      /\ m.variants = NormalVariants(in.variants) /\ m.rules = NormalRules(in.rules)
      /\ m.routes = Each(in.routes, NormalRoute)
    BY RowIs DEF IsConfig
<1>2. m.errorRate \in 0 .. 100 /\ validErrorResponse(m)
    BY RowHasItsError
<1>3. /\ IsListOf(in.variants, VariantFields) /\ IsListOf(in.rules, RuleFields)
      /\ \A rule \in Range(in.rules) : IsListOf(rule.conditions, ConditionFields)
      /\ IsListOf(in.steps, StepFields) /\ IsListOf(in.routes, RouteFields)
      /\ \A r \in Range(in.routes) : HasResponses(r) /\ IsList(r.path)
      /\ IsList(in.pathSuffix)
    BY DEF IsConfig, HasResponses
<1> HIDE DEF m
<1>4. TrimSpace(m.slug) \notin Malformed /\ m.method \in Method
    BY <1>1, TrimTwice DEF valid
<1>5. validStep(m)
    <2>1. ValidStatus(in.status) /\ in.body \notin LargeText
        BY Zenon DEF valid, validStep
    <2>3. ValidStatus(m.status)
        BY <1>1, <2>1, StatusIs, Zenon
    <2> QED
        BY <1>1, <2>1, <2>3 DEF validStep
<1>6. validHeaderMap(m.headers)
    <2>1. validHeaderMap(in.headers)
        BY Zenon DEF valid
    <2> QED
        BY <1>1, <2>1, CleanIsValid
<1>7. /\ m.delay \in 0 .. MaxDelay
      /\ m.delayMax # 0 => m.delayMax \in m.delay .. MaxDelay
      /\ MaxTTL > 0 => m.ttl =< MaxTTL
    BY <1>1 DEF valid
<1>8. \A segment \in Range(NonEmpty(m.pathSuffix)) : segment \notin Malformed \cup Placeholder
    <2>1. CASE in.routes = <<>>
        BY <1>1, <1>3, <2>1, NonEmptyTwice DEF valid
    <2>2. CASE in.routes # <<>>
        <3>1. m.pathSuffix = <<>> /\ IsList(<<>>) /\ Range(<<>>) = {}
            BY <1>1, <2>2 DEF IsList, Range
        <3> QED
            BY <3>1, NonEmptyIs
    <2> QED
        BY <2>1, <2>2
<1>9. /\ Len(m.steps) =< MaxSequenceSteps
      /\ \A s \in Range(m.steps) : validStep(s) /\ validHeaderMap(cleanHeaders(s.headers))
    <2>1. \A s \in Range(in.steps) : validStep(s) /\ validHeaderMap(cleanHeaders(s.headers))
        BY Zenon DEF valid
    <2>2. Len(in.steps) =< MaxSequenceSteps
        BY DEF valid
    <2> QED
        BY <1>1, <1>3, <2>1, <2>2, StepsPass
<1>10. validResponseConfig(m.variants, m.rules)
    <2>1. validResponseConfig(in.variants, in.rules)
        BY Zenon DEF valid
    <2> QED
        BY <1>1, <1>3, <2>1, ResponsesPass
<1>11. validRoutes(m.routes)
    <2>1. validRoutes(in.routes)
        BY Zenon DEF valid
    <2> QED
        BY <1>1, <1>3, <2>1, RoutesPass
<1>12. valid(m)
    BY <1>2, <1>4, <1>5, <1>6, <1>7, <1>8, <1>9, <1>10, <1>11 DEF valid
<1> QED
    BY <1>12 DEF m

-----------------------------------------------------------------------------
(* The filters *)

\* They hold against an input nothing that they do not hold against another with
\* the same fields and more headers.
LEMMA FewerHeaders ==
    ASSUME NEW a, NEW b,
           /\ b.name = a.name /\ b.body = a.body /\ b.pathSuffix = a.pathSuffix
           /\ b.error = a.error /\ b.steps = a.steps /\ b.variants = a.variants
           /\ b.routes = a.routes,
           \A k \in DOMAIN b.headers : k \in DOMAIN a.headers /\ b.headers[k] = a.headers[k]
    PROVE  /\ \A ip : SpamBlocked(b, ip) => SpamBlocked(a, ip)
           /\ paymentRequestBlocked(b) => paymentRequestBlocked(a)
<1>1. Values(b.headers) \subseteq Values(a.headers)
    BY DEF Values
<1>2. contentFields(b) \subseteq contentFields(a)
    <2> DEFINE A == Values(a.headers)
               B == Values(b.headers)
               Before == {a.name, a.body} \cup Range(a.pathSuffix)
               After == Responses(a.error) \cup Responses(a.steps) \cup Responses(a.variants)
                        \cup Responses(a.routes)
                        \cup UNION {{r.name} \cup Range(r.path) \cup Responses(r.variants) :
                                       r \in Range(a.routes)}
    <2>1. contentFields(a) = Before \cup A \cup After
        BY DEF contentFields
    <2>2. contentFields(b) = Before \cup B \cup After
        BY DEF contentFields
    <2> HIDE DEF A, B, Before, After
    <2>3. B \subseteq A
        BY <1>1 DEF A, B
    <2> QED
        BY <2>1, <2>2, <2>3
<1>3. PaymentValues(b) \subseteq PaymentValues(a)
    <2> DEFINE Own(h) == {h[name] : name \in DOMAIN h \cap PaymentHeader}
               maps == {r.headers : r \in Range(a.error \o a.steps) \cup Range(a.variants)}
                       \cup {r.headers : r \in Range(a.routes)}
                       \cup UNION {{v.headers : v \in Range(r.variants)} : r \in Range(a.routes)}
    <2>1. x402HeaderMaps(a) = {a.headers} \cup maps /\ x402HeaderMaps(b) = {b.headers} \cup maps
        BY DEF x402HeaderMaps
    <2>2. /\ PaymentValues(a) = UNION {Own(h) : h \in x402HeaderMaps(a)}
          /\ PaymentValues(b) = UNION {Own(h) : h \in x402HeaderMaps(b)}
        BY DEF PaymentValues
    <2>3. Own(b.headers) \subseteq Own(a.headers)
        OBVIOUS
    <2> HIDE DEF Own, maps
    <2> SUFFICES ASSUME NEW v \in PaymentValues(b) PROVE v \in PaymentValues(a)
        OBVIOUS
    <2>4. PICK h \in x402HeaderMaps(b) : v \in Own(h)
        BY <2>2
    <2>5. CASE h \in maps
        BY <2>1, <2>2, <2>4, <2>5
    <2>6. CASE h = b.headers
        <3>1. v \in Own(a.headers) /\ a.headers \in x402HeaderMaps(a)
            BY <2>1, <2>3, <2>4, <2>6
        <3> QED
            BY <2>2, <3>1
    <2> QED
        BY <2>1, <2>4, <2>5, <2>6
<1>4. \A ip : SpamBlocked(b, ip) => SpamBlocked(a, ip)
    BY <1>2 DEF SpamBlocked
<1>5. isX402(b) => isX402(a)
    BY <1>2, <1>3 DEF isX402
<1>6. /\ UNION {x402Networks(text) : text \in contentFields(b)}
            \subseteq UNION {x402Networks(text) : text \in contentFields(a)}
      /\ UNION {x402Networks(decodeX402Base64(v)) : v \in PaymentValues(b)}
            \subseteq UNION {x402Networks(decodeX402Base64(v)) : v \in PaymentValues(a)}
    BY <1>2, <1>3
<1>7. paymentRequestBlocked(b) => paymentRequestBlocked(a)
    BY <1>5, <1>6 DEF paymentRequestBlocked
<1> QED
    BY <1>4, <1>7

\* What the filters are shown: all of the row, with the name and the headers as
\* they were submitted.
LEMMA NormalIs ==
    ASSUME NEW in, DOMAIN in = ConfigFields
    PROVE  LET n == Normal(in)
               m == Row(in)
           IN /\ n.name = in.name /\ n.headers = in.headers
              /\ m.body = n.body /\ m.pathSuffix = n.pathSuffix /\ m.error = n.error
              /\ m.steps = n.steps /\ m.variants = n.variants /\ m.routes = n.routes
<1> DEFINE n == Normal(in)
           m == Row(in)
<1>1. DOMAIN n = ConfigFields
    BY DEF Normal
<1>2. n.name = in.name /\ n.headers = in.headers
    BY DEF Normal, ConfigFields
<1>3. m = [n EXCEPT !.name = TrimSpace(@), !.headers = cleanHeaders(@)]
    BY DEF Row
<1> HIDE DEF n, m
<1>4. /\ m.body = n.body /\ m.pathSuffix = n.pathSuffix /\ m.error = n.error
      /\ m.steps = n.steps /\ m.variants = n.variants /\ m.routes = n.routes
    BY <1>1, <1>3 DEF ConfigFields
<1> QED
    BY <1>2, <1>4 DEF n, m

\* The row of a mock, submitted again, is stored again; the filters may object
\* only if they are shown another text than the first time.
THEOREM RowIsStoredAgain ==
    ASSUME NEW in, IsConfig(in), ~ Padded(in), NEW ip, Verdict(in, ip) = "stored"
    PROVE  Verdict(Row(in), ip) = "stored"
<1> DEFINE n == Normal(in)
           m == Row(in)
           o == Normal(m)
<1>1. valid(in) /\ ~ SpamBlocked(n, ip) /\ ~ paymentRequestBlocked(n)
    BY DEF Verdict
<1>2. valid(m) /\ Row(m) = m /\ DOMAIN m = ConfigFields
    BY <1>1, RowPasses, RowTwice, RowIs DEF IsConfig
<1>3. /\ n.name = in.name /\ n.headers = in.headers
      /\ m.body = n.body /\ m.pathSuffix = n.pathSuffix /\ m.error = n.error
      /\ m.steps = n.steps /\ m.variants = n.variants /\ m.routes = n.routes
    BY NormalIs DEF IsConfig
<1>4. m.name = TrimSpace(in.name) /\ m.headers = cleanHeaders(in.headers)
    BY RowIs DEF IsConfig
<1> HIDE DEF n, m
<1>5. /\ o.name = m.name /\ o.headers = m.headers
      /\ m.body = o.body /\ m.pathSuffix = o.pathSuffix /\ m.error = o.error
      /\ m.steps = o.steps /\ m.variants = o.variants /\ m.routes = o.routes
    BY <1>2, NormalIs
<1>6. m.name = in.name
    BY <1>4 DEF Padded, TrimSpace, Mapped
<1>7. ASSUME NEW k \in DOMAIN m.headers
      PROVE  k \in DOMAIN in.headers /\ m.headers[k] = in.headers[k]
    <2>1. PICK name \in DOMAIN in.headers :
             TrimSpace(name) = k /\ m.headers[k] = TrimSpace(in.headers[name])
        <3> DEFINE h == in.headers
        <3>1. m.headers = cleanHeaders(h) /\ k \in DOMAIN cleanHeaders(h)
            BY <1>4
        <3> HIDE DEF h
        <3>2. \E name \in DOMAIN h :
                 TrimSpace(name) = k /\ cleanHeaders(h)[k] = TrimSpace(h[name])
            BY <3>1, CleanIs
        <3> QED
            BY <3>1, <3>2 DEF h
    <2>2. name \notin Malformed
        BY <1>1, Zenon DEF valid, validHeaderMap
    <2>3. k = name
        BY <2>1, <2>2, AcceptedIsTrimmed
    <2>4. TrimSpace(in.headers[name]) = in.headers[name]
        BY DEF Padded, Values, TrimSpace, Mapped
    <2> QED
        BY <2>1, <2>3, <2>4
<1> HIDE DEF o
<1>8. /\ \A addr : SpamBlocked(o, addr) => SpamBlocked(n, addr)
      /\ paymentRequestBlocked(o) => paymentRequestBlocked(n)
    <2>1. /\ o.name = n.name /\ o.body = n.body /\ o.pathSuffix = n.pathSuffix
          /\ o.error = n.error /\ o.steps = n.steps /\ o.variants = n.variants
          /\ o.routes = n.routes
        BY <1>3, <1>5, <1>6
    <2>2. \A k \in DOMAIN o.headers : k \in DOMAIN n.headers /\ o.headers[k] = n.headers[k]
        BY <1>3, <1>5, <1>7
    <2> QED
        BY <2>1, <2>2, FewerHeaders
<1>9. Verdict(m, ip) = "stored"
    BY <1>1, <1>2, <1>8 DEF Verdict, o
<1> QED
    BY <1>9 DEF m

=============================================================================
