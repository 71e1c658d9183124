--------------------------- MODULE CandidatesProofs ---------------------------
(***************************************************************************)
(* Theorems about Candidates, for every set of addresses, every situation  *)
(* a host can be in, and every limit on the number of candidates.          *)
(***************************************************************************)
EXTENDS Candidates, FiniteSetTheorems, TLAPS

-----------------------------------------------------------------------------
(* The order of candidates.  It is total, because the priority of a          *)
(* candidate tells its type; so a sorted list has one first element, and n   *)
(* elements that n others are not before.                                    *)

Ranked(c) ==
    \/ c.type = "lan4" /\ c.priority = 1000
    \/ c.type = "host6" /\ c.priority \in {900, 910}
    \/ c.type = "reflexive6" /\ c.priority = 825
    \/ c.type = "mapped4" /\ c.priority = 800
    \/ c.type = "observed4" /\ c.priority = 700
    \/ c.type = "predicted4" /\ c.priority = 500

Proper == {c \in Candidate : Ranked(c)}

LEMMA ProperFields ==
    ASSUME NEW c \in Proper
    PROVE  /\ c \in Candidate /\ Ranked(c) /\ c.priority \in Int
           /\ c.at = <<c.at[1], c.at[2]>> /\ c.at[1] \in Int /\ c.at[2] \in Int
  <1>1. c \in Candidate /\ Ranked(c)
    BY DEF Proper
  <1>2. c.at \in Addresses \X Int /\ c.priority \in Priorities
    BY <1>1 DEF Candidate
  <1>3. c.priority \in Int
    BY <1>2 DEF Priorities
  <1>4. c.at[1] \in Addresses /\ c.at[2] \in Int /\ c.at = <<c.at[1], c.at[2]>>
    BY <1>2
  <1>5. \A a \in Addresses : a \in Int
    BY AddressesAssumption
  <1> QED BY <1>1, <1>3, <1>4, <1>5

LEMMA OfIsProper ==
    ASSUME NEW type \in Types, NEW at \in Addresses \X Int
    PROVE  Of(type, at) \in Proper /\ Of(type, at).type = type /\ Of(type, at).at = at
  <1>1. /\ Priority["lan4"] = 1000 /\ Priority["host6"] = 900 /\ Priority["reflexive6"] = 825
        /\ Priority["mapped4"] = 800 /\ Priority["observed4"] = 700
        /\ Priority["predicted4"] = 500
    BY DEF Priority
  <1>2. Priority[type] \in Priorities
    BY <1>1 DEF Types, Priorities
  <1>3. Of(type, at) \in Candidate
    BY <1>2 DEF Of, Candidate
  <1>4. Of(type, at).type = type /\ Of(type, at).at = at /\ Of(type, at).priority = Priority[type]
    BY DEF Of
  <1>5. Ranked(Of(type, at))
    BY <1>1, <1>4 DEF Ranked, Types
  <1> QED BY <1>3, <1>4, <1>5 DEF Proper

\* Of the same endpoint and priority there is one candidate.
LEMMA SameRank ==
    ASSUME NEW c \in Proper, NEW d \in Proper, c.at = d.at, c.priority = d.priority
    PROVE  c = d
  <1>1. c.type = d.type
    BY ProperFields DEF Ranked
  <1>2. /\ c = [type |-> c.type, at |-> c.at, priority |-> c.priority]
        /\ d = [type |-> d.type, at |-> d.at, priority |-> d.priority]
    BY DEF Proper, Candidate
  <1> QED BY <1>1, <1>2

LEMMA BeforeIsOrder ==
    /\ \A c \in Proper : ~Before(c, c)
    /\ \A c, d, e \in Proper : Before(c, d) /\ Before(d, e) => Before(c, e)
    /\ \A c, d \in Proper : c # d => Before(c, d) \/ Before(d, c)
  <1>1. ASSUME NEW c \in Proper PROVE ~Before(c, c)
    BY ProperFields DEF Before
  <1>2. ASSUME NEW c \in Proper, NEW d \in Proper, NEW e \in Proper,
               Before(c, d), Before(d, e)
        PROVE  Before(c, e)
    <2>1. /\ c.priority \in Int /\ d.priority \in Int /\ e.priority \in Int
          /\ c.at[1] \in Int /\ d.at[1] \in Int /\ e.at[1] \in Int
          /\ c.at[2] \in Int /\ d.at[2] \in Int /\ e.at[2] \in Int
      BY ProperFields
    <2> QED BY <1>2, <2>1 DEF Before
  <1>3. ASSUME NEW c \in Proper, NEW d \in Proper, c # d, ~Before(c, d)
        PROVE  Before(d, c)
    <2>1. /\ c.priority \in Int /\ d.priority \in Int
          /\ c.at[1] \in Int /\ d.at[1] \in Int /\ c.at[2] \in Int /\ d.at[2] \in Int
          /\ c.at = <<c.at[1], c.at[2]>> /\ d.at = <<d.at[1], d.at[2]>>
      BY ProperFields
    <2>2. c.at # d.at \/ c.priority # d.priority
      BY <1>3, SameRank
    <2> QED BY <1>3, <2>1, <2>2 DEF Before
  <1> QED BY <1>1, <1>2, <1>3

Earlier(S, c) == {d \in S : Before(d, c)}

LEMMA EarlierGrows ==
    ASSUME NEW S \in SUBSET Proper, NEW c \in S, NEW d \in S, Before(c, d)
    PROVE  Earlier(S, c) \subseteq Earlier(S, d) /\ Earlier(S, c) # Earlier(S, d)
  <1>1. c \in Proper /\ d \in Proper /\ \A e \in S : e \in Proper
    OBVIOUS
  <1>2. Earlier(S, c) \subseteq Earlier(S, d)
    BY <1>1, BeforeIsOrder DEF Earlier
  <1>3. c \in Earlier(S, d) /\ c \notin Earlier(S, c)
    BY <1>1, BeforeIsOrder DEF Earlier
  <1> QED BY <1>2, <1>3

LEMMA EarlierCounts ==
    ASSUME NEW S \in SUBSET Proper, IsFiniteSet(S), NEW c \in S
    PROVE  /\ IsFiniteSet(Earlier(S, c)) /\ Cardinality(Earlier(S, c)) \in Nat
           /\ \A d \in S : Before(c, d) =>
                  Cardinality(Earlier(S, c)) < Cardinality(Earlier(S, d))
  <1>1. \A d \in S : IsFiniteSet(Earlier(S, d)) /\ Cardinality(Earlier(S, d)) \in Nat
    BY FS_Subset, FS_CardinalityType DEF Earlier
  <1>2. ASSUME NEW d \in S, Before(c, d)
        PROVE  Cardinality(Earlier(S, c)) < Cardinality(Earlier(S, d))
    <2>1. Earlier(S, c) \in SUBSET Earlier(S, d) /\ Earlier(S, c) # Earlier(S, d)
      BY <1>2, EarlierGrows
    <2>2. /\ Cardinality(Earlier(S, c)) <= Cardinality(Earlier(S, d))
          /\ Cardinality(Earlier(S, d)) = Cardinality(Earlier(S, c))
                 => Earlier(S, d) = Earlier(S, c)
      BY <1>1, <2>1, FS_Subset
    <2> QED BY <1>1, <2>1, <2>2
  <1> QED BY <1>1, <1>2

\* A sorted list has a first element.
LEMMA FirstExists ==
    ASSUME NEW S \in SUBSET Proper, IsFiniteSet(S), S # {}
    PROVE  \E c \in S : Earlier(S, c) = {}
  <1> DEFINE T == {Earlier(S, c) : c \in S}
  <1>1. T \subseteq FiniteSubsetsOf(S) /\ T # {}
    BY EarlierCounts DEF FiniteSubsetsOf, Earlier
  <1>2. IsWellFoundedOn(StrictSubsetOrdering(S), FiniteSubsetsOf(S))
    BY FS_StrictSubsetOrderingWellFounded
  <1>3. PICK x \in T : \A y \in T : <<y, x>> \notin StrictSubsetOrdering(S)
    <2> HIDE DEF T
    <2> QED BY <1>1, <1>2, WFMin
  <1>4. PICK c \in S : x = Earlier(S, c)
    BY <1>3
  <1>5. ASSUME NEW d \in Earlier(S, c) PROVE FALSE
    <2>1. d \in S /\ Before(d, c)
      BY DEF Earlier
    <2>2. Earlier(S, d) \subseteq x /\ Earlier(S, d) # x /\ x \subseteq S /\ Earlier(S, d) \in T
      BY <1>4, <2>1, EarlierGrows DEF Earlier
    <2>3. <<Earlier(S, d), x>> \in StrictSubsetOrdering(S)
      BY <2>2 DEF StrictSubsetOrdering
    <2> QED BY <1>3, <2>2, <2>3
  <1> QED BY <1>5

-----------------------------------------------------------------------------
(* What the operators of the model make of finite sets of candidates *)

LEMMA ImageIsFinite ==
    ASSUME NEW A, IsFiniteSet(A), NEW f, NEW T, T = {f[a] : a \in A}
    PROVE  IsFiniteSet(T)
  <1> DEFINE g == [a \in A |-> f[a]]
  <1>1. g \in Surjection(A, T)
    BY DEF Surjection
  <1> HIDE DEF g
  <1> QED BY <1>1, FS_Surjection

\* At most n come first, and some do.
LEMMA FirstTypes ==
    ASSUME NEW S \in SUBSET Proper, IsFiniteSet(S), NEW n \in Nat
    PROVE  /\ First(n, S) \in SUBSET S
           /\ IsFiniteSet(First(n, S)) /\ Cardinality(First(n, S)) <= n
           /\ S # {} /\ n > 0 => First(n, S) # {}
           /\ Cardinality(First(n, S)) \in Nat
  <1> DEFINE T == First(n, S)
             f == [c \in T |-> Cardinality(Earlier(S, c))]
  <1>1. T = {c \in S : Cardinality(Earlier(S, c)) < n}
    BY DEF First, Earlier
  <1>2. \A c \in S : Cardinality(Earlier(S, c)) \in Nat
    BY EarlierCounts
  <1>3. f \in [T -> 0 .. n - 1]
    BY <1>1, <1>2
  <1>4. ASSUME NEW c \in T, NEW d \in T, c # d PROVE f[c] # f[d]
    <2>1. c \in S /\ d \in S /\ c \in Proper /\ d \in Proper
      BY <1>1
    <2>2. Before(c, d) \/ Before(d, c)
      BY <1>4, <2>1, BeforeIsOrder
    <2>3. \/ Cardinality(Earlier(S, c)) < Cardinality(Earlier(S, d))
          \/ Cardinality(Earlier(S, d)) < Cardinality(Earlier(S, c))
      BY <2>1, <2>2, EarlierCounts
    <2> QED BY <1>2, <2>1, <2>3
  <1>5. f \in Injection(T, 0 .. n - 1)
    BY <1>3, <1>4 DEF Injection, IsInjective
  <1>6. IsFiniteSet(0 .. n - 1) /\ Cardinality(0 .. n - 1) = n
    BY FS_Interval
  <1>7. IsFiniteSet(T) /\ Cardinality(T) <= n
    <2> HIDE DEF T, f
    <2> QED BY <1>5, <1>6, FS_Injection
  <1>8. ASSUME S # {}, n > 0 PROVE T # {}
    <2>1. PICK c \in S : Earlier(S, c) = {}
      BY <1>8, FirstExists
    <2>2. c \in T
      BY <1>1, <1>8, <2>1, FS_EmptySet
    <2> QED BY <2>2
  <1> QED BY <1>1, <1>7, <1>8, FS_CardinalityType

\* One of the best candidates of every endpoint is kept, and one only.
LEMMA DedupedTypes ==
    ASSUME NEW S \in SUBSET Proper, IsFiniteSet(S)
    PROVE  /\ Deduped(S) \in SUBSET S /\ IsFiniteSet(Deduped(S))
           /\ \A c \in S : \E d \in Deduped(S) : d.at = c.at
           /\ \A c, d \in Deduped(S) : c.at = d.at => c = d
  <1>1. Deduped(S) \in SUBSET S
    BY DEF Deduped
  <1>2. IsFiniteSet(Deduped(S))
    BY <1>1, FS_Subset
  <1>3. ASSUME NEW c \in S PROVE \E d \in Deduped(S) : d.at = c.at
    <2> DEFINE E == {d \in S : d.at = c.at}
    <2>1. E \in SUBSET Proper /\ IsFiniteSet(E) /\ E # {}
      BY FS_Subset
    <2>2. PICK e \in E : Earlier(E, e) = {}
      <3> HIDE DEF E
      <3> QED BY <2>1, FirstExists
    <2>3. ASSUME NEW d \in S, d.at = e.at PROVE d.priority <= e.priority
      <3>1. d \in E /\ ~Before(d, e)
        BY <2>2, <2>3 DEF Earlier
      <3>2. d.priority \in Int /\ e.priority \in Int
        BY ProperFields
      <3> QED BY <3>1, <3>2 DEF Before
    <2>4. e \in Deduped(S)
      BY <2>3 DEF Deduped
    <2> QED BY <2>4
  <1>4. ASSUME NEW c \in Deduped(S), NEW d \in Deduped(S), c.at = d.at PROVE c = d
    <2>1. c \in Proper /\ d \in Proper /\ c.priority <= d.priority /\ d.priority <= c.priority
      BY <1>4 DEF Deduped
    <2>2. c.priority = d.priority
      BY <2>1, ProperFields
    <2> QED BY <1>4, <2>1, <2>2, SameRank
  <1> QED BY <1>1, <1>2, <1>3, <1>4

LEMMA LegacyTypes ==
    ASSUME NEW endpoint \in Addresses \X Int, NEW allowLan \in BOOLEAN
    PROVE  \E c \in Proper :
               /\ Legacy(endpoint, allowLan) = {c} /\ c.at = endpoint
               /\ c.type \in {"lan4", "host6", "observed4"}
               /\ c.type = "host6" => endpoint[1] \in Global6
               /\ allowLan /\ endpoint[1] \in Private4 => c.type = "lan4"
               /\ c.type = "lan4" => allowLan
  <1>1. CASE allowLan /\ endpoint[1] \in Private4
    <2>1. Legacy(endpoint, allowLan) = {Of("lan4", endpoint)}
      BY <1>1, AddressesAssumption DEF Legacy
    <2>2. Of("lan4", endpoint) \in Proper /\ Of("lan4", endpoint).type = "lan4"
          /\ Of("lan4", endpoint).at = endpoint
      BY OfIsProper DEF Types
    <2> QED BY <1>1, <2>1, <2>2
  <1>2. CASE ~(allowLan /\ endpoint[1] \in Private4) /\ endpoint[1] \in Global6
    <2>1. Legacy(endpoint, allowLan) = {Of("host6", endpoint)}
      BY <1>2 DEF Legacy
    <2>2. Of("host6", endpoint) \in Proper /\ Of("host6", endpoint).type = "host6"
          /\ Of("host6", endpoint).at = endpoint
      BY OfIsProper DEF Types
    <2> QED BY <1>2, <2>1, <2>2
  <1>3. CASE ~(allowLan /\ endpoint[1] \in Private4) /\ endpoint[1] \notin Global6
    <2>1. Legacy(endpoint, allowLan) = {Of("observed4", endpoint)}
      BY <1>3 DEF Legacy
    <2>2. Of("observed4", endpoint) \in Proper /\ Of("observed4", endpoint).type = "observed4"
          /\ Of("observed4", endpoint).at = endpoint
      BY OfIsProper DEF Types
    <2> QED BY <1>3, <2>1, <2>2
  <1> QED BY <1>1, <1>2, <1>3

LEMMA UsableTypes ==
    ASSUME NEW S \in SUBSET Proper, IsFiniteSet(S), NEW endpoint \in Addresses \X Int,
           NEW allowLan \in BOOLEAN
    PROVE  /\ Usable(S, endpoint, allowLan) \in SUBSET Proper
           /\ IsFiniteSet(Usable(S, endpoint, allowLan))
           /\ Usable(S, endpoint, allowLan) \subseteq S \cup Legacy(endpoint, allowLan)
           /\ \A c, d \in Usable(S, endpoint, allowLan) : c.at = d.at => c = d
           /\ \E c \in Usable(S, endpoint, allowLan) : c.at = endpoint
           /\ \A c \in S : (c.type = "lan4" => allowLan) =>
                  \E d \in Usable(S, endpoint, allowLan) : d.at = c.at
  <1> DEFINE X == {c \in S : c.type = "lan4" => allowLan} \cup Legacy(endpoint, allowLan)
  <1>1. PICK e \in Proper : Legacy(endpoint, allowLan) = {e} /\ e.at = endpoint
    BY LegacyTypes
  <1>2. X \in SUBSET Proper /\ e \in X /\ X \subseteq S \cup Legacy(endpoint, allowLan)
    BY <1>1
  <1>3. IsFiniteSet(X)
    <2>1. IsFiniteSet({c \in S : c.type = "lan4" => allowLan})
      BY FS_Subset
    <2>2. IsFiniteSet(Legacy(endpoint, allowLan))
      BY <1>1, FS_Singleton
    <2> QED BY <2>1, <2>2, FS_Union
  <1>4. Usable(S, endpoint, allowLan) = Deduped(X)
    BY DEF Usable
  <1>5. \A c \in S : (c.type = "lan4" => allowLan) => c \in X
    OBVIOUS
  <1> HIDE DEF X
  <1>6. /\ Deduped(X) \in SUBSET X /\ IsFiniteSet(Deduped(X))
        /\ \A c \in X : \E d \in Deduped(X) : d.at = c.at
        /\ \A c, d \in Deduped(X) : c.at = d.at => c = d
    BY <1>2, <1>3, DedupedTypes
  <1> QED BY <1>1, <1>2, <1>4, <1>5, <1>6

\* Some candidates are selected, within the limit and from those that are usable.
LEMMA SelectedTypes ==
    ASSUME NEW S \in SUBSET Proper, IsFiniteSet(S), NEW endpoint \in Addresses \X Int,
           NEW allowLan \in BOOLEAN
    PROVE  LET T == Selected(S, endpoint, allowLan) IN
           /\ T \subseteq Usable(S, endpoint, allowLan) /\ T # {}
           /\ IsFiniteSet(T) /\ Cardinality(T) <= MaxProbe
  <1> DEFINE all == Usable(S, endpoint, allowLan)
             O == {c \in all : c.type = "observed4"}
             first == First(MaxProbe, all)
             rest == First(MaxProbe - 1, first)
             observed == First(1, O)
  <1>1. all \in SUBSET Proper /\ IsFiniteSet(all) /\ all # {}
    BY UsableTypes
  <1>2. O \in SUBSET Proper /\ O \in SUBSET all /\ IsFiniteSet(O)
    BY <1>1, FS_Subset
  <1>3. MaxProbe \in Nat /\ MaxProbe > 0 /\ MaxProbe - 1 \in Nat
    BY LimitsAssumption
  <1> HIDE DEF all, O
  <1>4. /\ first \in SUBSET all /\ IsFiniteSet(first) /\ Cardinality(first) <= MaxProbe
        /\ first # {} /\ first \in SUBSET Proper
    BY <1>1, <1>3, FirstTypes
  <1>5. /\ observed \in SUBSET O /\ IsFiniteSet(observed) /\ Cardinality(observed) <= 1
        /\ Cardinality(observed) \in Nat
    BY <1>2, FirstTypes
  <1> HIDE DEF first
  <1>6. /\ rest \in SUBSET first /\ IsFiniteSet(rest) /\ Cardinality(rest) <= MaxProbe - 1
        /\ Cardinality(rest) \in Nat
    BY <1>3, <1>4, FirstTypes
  <1>7. Selected(S, endpoint, allowLan) = IF observed \subseteq first THEN first
                                                                      ELSE rest \cup observed
    BY DEF Selected, first, all, O
  <1> HIDE DEF rest, observed
  <1>8. CASE observed \subseteq first
    BY <1>4, <1>7, <1>8 DEF all
  <1>9. CASE ~(observed \subseteq first)
    <2>1. /\ IsFiniteSet(rest \cup observed)
          /\ Cardinality(rest \cup observed)
                 = Cardinality(rest) + Cardinality(observed) - Cardinality(rest \cap observed)
      BY <1>5, <1>6, FS_Union
    <2>2. Cardinality(rest \cap observed) \in Nat
      BY <1>6, FS_Intersection, FS_CardinalityType
    <2>3. Cardinality(rest \cup observed) <= MaxProbe
      BY <1>3, <1>5, <1>6, <2>1, <2>2
    <2> QED BY <1>2, <1>4, <1>5, <1>6, <1>7, <1>9, <2>1, <2>3 DEF all
  <1> QED BY <1>8, <1>9

-----------------------------------------------------------------------------
(* What is announced, and what the Coordinator makes of it *)

\* The candidates of a host: at most one of them is its LAN address.
Announcement(S) ==
    /\ S \in SUBSET Proper /\ IsFiniteSet(S)
    /\ \A c \in S :
           /\ c.at \in Endpoints
           /\ c.type \in {"lan4", "host6", "reflexive6", "mapped4"}
           /\ c.type \in {"host6", "reflexive6"} => c.at[1] \in Global6
    /\ \A c, d \in S : c.type = "lan4" /\ d.type = "lan4" => c = d

LEMMA EndpointTypes ==
    /\ Endpoints \subseteq Addresses \X Int
    /\ \A a \in Addresses : <<a, ListenPort>> \in Endpoints
    /\ \A a \in Private4 \cup Public4 \cup Global6 : a \in Addresses
  BY LimitsAssumption DEF Endpoints, Addresses

LEMMA OfEndpoint ==
    ASSUME NEW type \in Types, NEW at \in Endpoints
    PROVE  Of(type, at) \in Proper /\ Of(type, at).type = type /\ Of(type, at).at = at
  BY OfIsProper, EndpointTypes

LEMMA Lan4Types ==
    ASSUME NEW a \in Private4 \cup {None}
    PROVE  /\ Lan4(a) \in SUBSET Proper /\ IsFiniteSet(Lan4(a))
           /\ \A c \in Lan4(a) : /\ c = Of("lan4", <<a, ListenPort>>)
                                 /\ c.at \in Endpoints /\ c.type = "lan4"
  <1>1. CASE a = None
    BY <1>1, FS_EmptySet DEF Lan4
  <1>2. CASE a # None
    <2>1. <<a, ListenPort>> \in Endpoints
      BY <1>2, EndpointTypes
    <2>2. Lan4(a) = {Of("lan4", <<a, ListenPort>>)}
      BY <1>2 DEF Lan4
    <2>3. IsFiniteSet(Lan4(a))
      BY <2>2, FS_Singleton
    <2>4. "lan4" \in Types
      BY DEF Types
    <2> QED BY <2>1, <2>2, <2>3, <2>4, OfEndpoint
  <1> QED BY <1>1, <1>2

\* The global addresses of a host, the preferred one first.
Host6(A, preferred) ==
    {IF c.at[1] = preferred THEN [c EXCEPT !.priority = 910] ELSE c :
        c \in {Of("host6", <<a, ListenPort>>) : a \in A}}

LEMMA Host6Types ==
    ASSUME NEW A \in SUBSET Global6, NEW preferred
    PROVE  /\ Host6(A, preferred) \in SUBSET Proper /\ IsFiniteSet(Host6(A, preferred))
           /\ \A c \in Host6(A, preferred) :
                  c.at \in Endpoints /\ c.type = "host6" /\ c.at[1] \in Global6
  <1> DEFINE of == [a \in A |-> Of("host6", <<a, ListenPort>>)]
             six == {Of("host6", <<a, ListenPort>>) : a \in A}
             S == Host6(A, preferred)
             raised == [c \in six |-> IF c.at[1] = preferred
                                      THEN [c EXCEPT !.priority = 910] ELSE c]
  <1>1. IsFiniteSet(A)
    <2>1. A \in SUBSET Addresses
      BY DEF Addresses
    <2> QED BY <2>1, AddressesAssumption, FS_Subset
  <1>2. IsFiniteSet(six)
    <2>1. six = {of[a] : a \in A}
      OBVIOUS
    <2> HIDE DEF six, of
    <2> QED BY <1>1, <2>1, ImageIsFinite
  <1>3. IsFiniteSet(S)
    <2>1. \A c \in six : raised[c] = IF c.at[1] = preferred
                                   THEN [c EXCEPT !.priority = 910] ELSE c
      OBVIOUS
    <2>2. S = {IF c.at[1] = preferred THEN [c EXCEPT !.priority = 910] ELSE c : c \in six}
      BY DEF Host6
    <2> HIDE DEF six, raised, S
    <2>3. ASSUME NEW x \in S PROVE \E c \in six : x = raised[c]
      <3>1. PICK c \in six : x = IF c.at[1] = preferred THEN [c EXCEPT !.priority = 910]
                                                       ELSE c
        BY <2>2, <2>3
      <3> QED BY <2>1, <3>1
    <2>4. ASSUME NEW c \in six PROVE raised[c] \in S
      BY <2>1, <2>2
    <2>5. S = {raised[c] : c \in six}
      BY <2>3, <2>4
    <2> QED BY <1>2, <2>5, ImageIsFinite
  <1>4. ASSUME NEW c \in six
        PROVE  /\ c \in Proper /\ c.type = "host6" /\ c.at \in Endpoints /\ c.at[1] \in Global6
               /\ LET d == [c EXCEPT !.priority = 910] IN
                  d \in Proper /\ d.type = "host6" /\ d.at = c.at
    <2>1. PICK a \in A : c = Of("host6", <<a, ListenPort>>)
      OBVIOUS
    <2>2. a \in Global6 /\ <<a, ListenPort>> \in Endpoints /\ "host6" \in Types
      BY EndpointTypes DEF Types
    <2>3. c \in Proper /\ c.type = "host6" /\ c.at = <<a, ListenPort>>
      BY <2>1, <2>2, OfEndpoint
    <2> DEFINE d == [c EXCEPT !.priority = 910]
    <2>4. /\ d \in Candidate /\ d.type = c.type /\ d.at = c.at /\ d.priority = 910
      BY <2>3 DEF Proper, Candidate, Priorities
    <2>5. d \in Proper
      <3>1. d.type = "host6" /\ d.priority \in {900, 910}
        BY <2>3, <2>4
      <3> HIDE DEF d
      <3>2. Ranked(d)
        BY <3>1 DEF Ranked
      <3> QED BY <2>4, <3>2 DEF Proper
    <2> QED BY <2>2, <2>3, <2>4, <2>5
  <1>5. ASSUME NEW c \in S
        PROVE  c \in Proper /\ c.at \in Endpoints /\ c.type = "host6" /\ c.at[1] \in Global6
    <2>1. PICK d \in six : c = IF d.at[1] = preferred THEN [d EXCEPT !.priority = 910] ELSE d
      BY <1>5 DEF Host6
    <2> HIDE DEF six
    <2> QED BY <1>4, <2>1
  <1> QED BY <1>3, <1>5

LEMMA GatherTypes ==
    ASSUME NEW h \in HostStates, NEW seen \in Global6 \cup {None}
    PROVE  Announcement(Gather(h, seen))
  <1> DEFINE six == Host6(h.six, h.preferred)
             mapped == IF h.mapped = None THEN {} ELSE {Of("mapped4", h.mapped)}
             reflexive6 == IF seen = None THEN {} ELSE {Of("reflexive6", <<seen, ListenPort>>)}
  <1>1. Gather(h, seen) = Lan4(h.lan) \cup six \cup mapped \cup reflexive6
    BY DEF Gather, Host6
  <1>2. h.lan \in Private4 /\ h.six \in SUBSET Global6 /\ h.mapped \in Endpoints \cup {None}
    BY DEF HostStates
  <1>3. /\ Lan4(h.lan) \in SUBSET Proper /\ IsFiniteSet(Lan4(h.lan))
        /\ \A c \in Lan4(h.lan) : /\ c = Of("lan4", <<h.lan, ListenPort>>)
                                  /\ c.at \in Endpoints /\ c.type = "lan4"
    BY <1>2, Lan4Types
  <1>4. /\ six \in SUBSET Proper /\ IsFiniteSet(six)
        /\ \A c \in six : c.at \in Endpoints /\ c.type = "host6" /\ c.at[1] \in Global6
    BY <1>2, Host6Types
  <1>5. /\ mapped \in SUBSET Proper /\ IsFiniteSet(mapped)
        /\ \A c \in mapped : c.at \in Endpoints /\ c.type = "mapped4"
    <2>1. IsFiniteSet(mapped)
      BY FS_EmptySet, FS_Singleton
    <2>2. "mapped4" \in Types
      BY DEF Types
    <2> QED BY <1>2, <2>1, <2>2, OfEndpoint
  <1>6. /\ reflexive6 \in SUBSET Proper /\ IsFiniteSet(reflexive6)
        /\ \A c \in reflexive6 : c.at \in Endpoints /\ c.type = "reflexive6"
                                 /\ c.at[1] \in Global6
    <2>1. IsFiniteSet(reflexive6)
      BY FS_EmptySet, FS_Singleton
    <2>2. "reflexive6" \in Types
      BY DEF Types
    <2>3. seen # None => <<seen, ListenPort>> \in Endpoints /\ seen \in Global6
      BY EndpointTypes
    <2> QED BY <2>1, <2>2, <2>3, OfEndpoint
  <1> HIDE DEF six, mapped, reflexive6
  <1>7. IsFiniteSet(Gather(h, seen))
    <2>1. IsFiniteSet(Lan4(h.lan) \cup six)
      BY <1>3, <1>4, FS_Union
    <2>2. IsFiniteSet((Lan4(h.lan) \cup six) \cup mapped)
      BY <1>5, <2>1, FS_Union
    <2>3. IsFiniteSet(((Lan4(h.lan) \cup six) \cup mapped) \cup reflexive6)
      BY <1>6, <2>2, FS_Union
    <2> QED BY <1>1, <2>3
  <1> QED BY <1>1, <1>3, <1>4, <1>5, <1>6, <1>7 DEF Announcement

LEMMA ObservedTypes ==
    ASSUME NEW at \in Endpoints
    PROVE  /\ Observed(at) \in SUBSET Proper /\ IsFiniteSet(Observed(at))
           /\ \A c \in Observed(at) : c.at = at /\ c.type = "observed4"
  <1>1. IsFiniteSet(Observed(at))
    BY FS_EmptySet, FS_Singleton DEF Observed
  <1>2. "observed4" \in Types
    BY DEF Types
  <1> QED BY <1>1, <1>2, OfEndpoint DEF Observed

LEMMA PredictedTypes ==
    ASSUME NEW at \in Endpoints
    PROVE  /\ Predicted(at) \in SUBSET Proper /\ IsFiniteSet(Predicted(at))
           /\ \A c \in Predicted(at) : c.at \in Endpoints /\ c.at # at /\ c.type = "predicted4"
  <1> DEFINE ports == {at[2] + d : d \in {-2, -1, 1, 2}} \cap 1..MaxPort
             of == [port \in ports |-> Of("predicted4", <<at[1], port>>)]
  <1>1. at[1] \in Addresses /\ at[2] \in 1..MaxPort /\ MaxPort \in Nat
    BY LimitsAssumption DEF Endpoints
  <1>2. IsFiniteSet(ports)
    <2>1. IsFiniteSet(1..MaxPort)
      BY <1>1, FS_Interval
    <2> QED BY <2>1, FS_Subset
  <1>3. CASE at[1] \notin Public4
    BY <1>3, FS_EmptySet DEF Predicted
  <1>4. CASE at[1] \in Public4
    <2>1. Predicted(at) = {of[port] : port \in ports}
      BY <1>4 DEF Predicted
    <2>2. IsFiniteSet(Predicted(at))
      <3> HIDE DEF ports, of
      <3> QED BY <1>2, <2>1, ImageIsFinite
    <2>3. ASSUME NEW c \in Predicted(at)
          PROVE  /\ c \in Proper /\ c.at \in Endpoints /\ c.at # at /\ c.type = "predicted4"
      <3>1. PICK port \in ports : c = Of("predicted4", <<at[1], port>>)
        BY <2>1, <2>3
      <3>2. port \in 1..MaxPort /\ port # at[2]
        BY <1>1
      <3>3. <<at[1], port>> \in Endpoints /\ <<at[1], port>> # at /\ "predicted4" \in Types
        BY <1>1, <3>2 DEF Endpoints, Types
      <3> QED BY <3>1, <3>3, OfEndpoint
    <2> QED BY <2>2, <2>3
  <1> QED BY <1>3, <1>4

\* What is offered of a host is valid; and where its candidates come from.
LEMMA MergedTypes ==
    ASSUME NEW a \in Private4 \cup {None}, NEW S, Announcement(S), NEW wan \in Endpoints
    PROVE  LET T == Merged(a, S, wan) IN
           /\ T \in SUBSET Proper /\ IsFiniteSet(T) /\ Valid(T)
           /\ \A c \in T :
                 \/ c = Of("lan4", <<a, ListenPort>>) /\ c.type = "lan4"
                 \/ c \in S
                 \/ c.at = wan /\ c.type = "observed4"
                 \/ c.at # wan /\ c.type = "predicted4"
  <1> DEFINE predicted == IF \E c \in S : c.type = "mapped4" THEN {} ELSE Predicted(wan)
             X == Lan4(a) \cup S \cup Observed(wan) \cup predicted
  <1>1. /\ Lan4(a) \in SUBSET Proper /\ IsFiniteSet(Lan4(a))
        /\ \A c \in Lan4(a) : /\ c = Of("lan4", <<a, ListenPort>>)
                              /\ c.at \in Endpoints /\ c.type = "lan4"
    BY Lan4Types
  <1>2. /\ predicted \in SUBSET Proper /\ IsFiniteSet(predicted)
        /\ \A c \in predicted : c.at \in Endpoints /\ c.at # wan /\ c.type = "predicted4"
    BY PredictedTypes, FS_EmptySet
  <1>3. /\ Observed(wan) \in SUBSET Proper /\ IsFiniteSet(Observed(wan))
        /\ \A c \in Observed(wan) : c.at = wan /\ c.type = "observed4"
    BY ObservedTypes
  <1>4. S \in SUBSET Proper /\ IsFiniteSet(S) /\ \A c \in S : c.at \in Endpoints
    BY DEF Announcement
  <1>5. Merged(a, S, wan) = First(MaxCandidates, X)
    BY DEF Merged
  <1> HIDE DEF predicted
  <1>6. X \in SUBSET Proper
    BY <1>1, <1>2, <1>3, <1>4
  <1>7. IsFiniteSet(X)
    <2>1. IsFiniteSet(Lan4(a) \cup S)
      BY <1>1, <1>4, FS_Union
    <2>2. IsFiniteSet((Lan4(a) \cup S) \cup Observed(wan))
      BY <1>3, <2>1, FS_Union
    <2> QED BY <1>2, <2>2, FS_Union
  <1>8. \A c \in X : /\ c.at \in Endpoints
                     /\ \/ c = Of("lan4", <<a, ListenPort>>) /\ c.type = "lan4"
                        \/ c \in S
                        \/ c.at = wan /\ c.type = "observed4"
                        \/ c.at # wan /\ c.type = "predicted4"
    BY <1>1, <1>2, <1>3, <1>4
  <1> HIDE DEF X
  <1>9. /\ First(MaxCandidates, X) \in SUBSET X /\ IsFiniteSet(First(MaxCandidates, X))
        /\ Cardinality(First(MaxCandidates, X)) <= MaxCandidates
    BY <1>6, <1>7, FirstTypes, LimitsAssumption
  <1>10. Valid(First(MaxCandidates, X))
    <2>1. \A c \in First(MaxCandidates, X) : c.at \in Endpoints
      BY <1>8, <1>9
    <2> QED BY <1>9, <2>1 DEF Valid, Endpoints
  <1> QED BY <1>5, <1>6, <1>8, <1>9, <1>10

-----------------------------------------------------------------------------
(* The inductive invariant: whatever is recorded, coordinated or offered was *)
(* once gathered by the host, or is nothing.                                 *)

OfferInv(o) ==
    /\ o.lan \in Private4 \cup {None} /\ Announcement(o.candidates) /\ o.wan \in Endpoints
    /\ o.type \in {"LAN", "WAN"}
    /\ o.type = "LAN" => o.lan \in Private4

IInv ==
    /\ host \in Hosts /\ place \in Places /\ reflexive \in Global6 \cup {None}
    /\ lan \in Private4 \cup {None} /\ moves \in 0..MaxMoves
    /\ Announcement(stored) /\ Cardinality(stored) <= MaxCandidates
    /\ synced # None => /\ synced.lan \in Private4 /\ Announcement(synced.candidates)
                        /\ synced.wan \in Endpoints
    /\ offers = [p \in Peers |-> offers[p]]
    /\ \A p \in Peers : offers[p] # None => OfferInv(offers[p])

LEMMA NothingAnnounced == Announcement({}) /\ Cardinality({}) <= MaxCandidates
  BY FS_EmptySet, LimitsAssumption DEF Announcement

LEMMA HostTypes ==
    ASSUME NEW h \in Hosts
    PROVE  /\ h \in HostStates /\ h.lan \in Private4 /\ h.wan \in Endpoints
           /\ Discovered(h) \in Global6 \cup {None}
  BY HostsAssumption DEF HostStates, Discovered

LEMMA InitInv == Init => IInv
  BY HostTypes, NothingAnnounced, LimitsAssumption DEF Init, IInv

\* An offer made of what is known is well formed.
LEMMA OfferKeepsInv ==
    ASSUME IInv, NEW p \in Peers, NEW o, OfferInv(o), offers' = [offers EXCEPT ![p] = o],
           UNCHANGED <<host, place, reflexive, lan, stored, synced, moves>>
    PROVE  IInv'
  <1>1. \A q \in Peers : offers'[q] = IF q = p THEN o ELSE offers[q]
    BY DEF IInv
  <1>2. offers' = [q \in Peers |-> offers'[q]]
    BY DEF IInv
  <1>3. \A q \in Peers : offers'[q] # None => OfferInv(offers'[q])
    BY <1>1 DEF IInv
  <1>4. Announcement(stored)' /\ (synced' # None => Announcement(synced'.candidates))
    BY DEF IInv
  <1> HIDE DEF OfferInv
  <1> QED BY <1>2, <1>3, <1>4 DEF IInv

LEMMA StepInv == IInv /\ [Next]_vars => IInv'
  <1> SUFFICES ASSUME IInv, [Next]_vars PROVE IInv'
    OBVIOUS
  <1>0. /\ host \in Hosts /\ host \in HostStates /\ host.lan \in Private4
        /\ host.wan \in Endpoints /\ Discovered(host) \in Global6 \cup {None}
        /\ MaxMoves \in Nat
    BY HostTypes, LimitsAssumption DEF IInv
  <1>1. CASE ReflexiveFound \/ ReflexiveTooOld \/ DiscoveryFails
    BY <1>0, <1>1 DEF ReflexiveFound, ReflexiveTooOld, DiscoveryFails, IInv
  <1>2. CASE Sync
    <2> DEFINE S == Gather(host, reflexive)
    <2>1. Announcement(S)
      BY <1>0, GatherTypes DEF IInv
    <2>2. CASE Cardinality(S) <= MaxCandidates
      <3> DEFINE new == [lan |-> host.lan, candidates |-> S, wan |-> host.wan]
      <3>1. /\ stored' = S /\ synced' = new /\ lan' = host.lan
            /\ UNCHANGED <<host, place, reflexive, offers, moves>>
        BY <1>2, <2>2 DEF Sync, Recorded
      <3>2. new.lan = host.lan /\ new.candidates = S /\ new.wan = host.wan
        OBVIOUS
      <3> HIDE DEF new, S
      <3> QED BY <1>0, <2>1, <2>2, <3>1, <3>2 DEF IInv
    <2>3. CASE ~(Cardinality(S) <= MaxCandidates)
      <3>1. lan' = host.lan /\ UNCHANGED <<host, place, reflexive, stored, synced, offers, moves>>
        BY <1>2, <2>3 DEF Sync
      <3> HIDE DEF S
      <3> QED BY <1>0, <3>1 DEF IInv
    <2> QED BY <2>2, <2>3
  <1>3. CASE Push
    <2>1. PICK type \in {"LAN", "WAN"} :
              offers' = [offers EXCEPT !["pushed"] =
                  [lan |-> synced.lan, candidates |-> synced.candidates, wan |-> synced.wan,
                   type |-> type]]
      BY <1>3 DEF Push
    <2> DEFINE o == [lan |-> synced.lan, candidates |-> synced.candidates,
                     wan |-> synced.wan, type |-> type]
    <2>2. /\ o.lan \in Private4 /\ Announcement(o.candidates) /\ o.wan \in Endpoints
          /\ o.type \in {"LAN", "WAN"}
      BY <1>3 DEF Push, IInv
    <2>3. OfferInv(o)
      <3> HIDE DEF o
      <3> QED BY <2>2 DEF OfferInv
    <2>4. "pushed" \in Peers
      BY DEF Peers
    <2>5. offers' = [offers EXCEPT !["pushed"] = o]
      BY <2>1
    <2> HIDE DEF o
    <2> QED BY <1>3, <2>3, <2>4, <2>5, OfferKeepsInv DEF Push
  <1>4. CASE Ask
    <2>1. PICK type \in {"LAN", "WAN"} :
              /\ offers' = [offers EXCEPT !["asks"] =
                     [lan |-> lan, candidates |-> stored, wan |-> host.wan, type |-> type]]
              /\ type = "LAN" => lan # None
      BY <1>4 DEF Ask
    <2> DEFINE o == [lan |-> lan, candidates |-> stored, wan |-> host.wan, type |-> type]
    <2>2. /\ o.lan \in Private4 \cup {None} /\ Announcement(o.candidates) /\ o.wan \in Endpoints
          /\ o.type \in {"LAN", "WAN"} /\ (o.type = "LAN" => o.lan \in Private4)
      BY <1>0, <2>1 DEF IInv
    <2>3. OfferInv(o)
      <3> HIDE DEF o
      <3> QED BY <2>2 DEF OfferInv
    <2>4. "asks" \in Peers
      BY DEF Peers
    <2>5. offers' = [offers EXCEPT !["asks"] = o]
      BY <2>1
    <2> HIDE DEF o
    <2> QED BY <1>4, <2>3, <2>4, <2>5, OfferKeepsInv DEF Ask
  <1>5. CASE Expire
    BY <1>0, <1>5, NothingAnnounced DEF Expire, IInv
  <1>6. ASSUME NEW h \in Hosts, Move(h) PROVE IInv'
    BY <1>0, <1>6 DEF Move, IInv
  <1>7. CASE UNCHANGED vars
    BY <1>7 DEF vars, IInv
  <1> QED BY <1>1, <1>2, <1>3, <1>4, <1>5, <1>6, <1>7 DEF Next

-----------------------------------------------------------------------------
(* What a peer probes *)

\* An offer is accepted, and what is probed is selected from it.
LEMMA OfferIsProbed ==
    ASSUME NEW p \in Peers, offers[p] # None, OfferInv(offers[p])
    PROVE  \E endpoint \in Addresses \X Int, allowLan \in BOOLEAN :
               /\ Probes(p) = Selected(Offered(p), endpoint, allowLan)
               /\ offers[p].type = "WAN" => endpoint = offers[p].wan
               /\ offers[p].type = "LAN" =>
                      /\ allowLan /\ offers[p].lan \in Private4
                      /\ endpoint = <<offers[p].lan, ListenPort>>
  <1> DEFINE o == offers[p]
             near == o.lan # None /\ SameSubnet(place.lan, o.lan)
             endpoint == IF o.type = "LAN" THEN <<o.lan, ListenPort>> ELSE o.wan
             allowLan == o.type = "LAN" \/ near
  <1>1. Valid(Offered(p))
    BY MergedTypes DEF OfferInv, Offered
  <1>2. Probes(p) = Selected(Offered(p), endpoint, allowLan)
    BY <1>1 DEF Probes
  <1>3. endpoint \in Addresses \X Int
    BY EndpointTypes DEF OfferInv
  <1>4. allowLan \in BOOLEAN
    OBVIOUS
  <1>5. /\ o.type = "WAN" => endpoint = o.wan
        /\ o.type = "LAN" => /\ allowLan /\ o.lan \in Private4
                             /\ endpoint = <<o.lan, ListenPort>>
    BY DEF OfferInv
  <1> HIDE DEF endpoint, allowLan
  <1> QED BY <1>2, <1>3, <1>4, <1>5

LEMMA ProbesTypes ==
    ASSUME NEW p \in Peers, offers[p] # None, OfferInv(offers[p])
    PROVE  /\ Probes(p) \in SUBSET Candidate /\ IsFiniteSet(Probes(p)) /\ Probes(p) # {}
           /\ Cardinality(Probes(p)) <= MaxProbe
           /\ Cardinality({c.at : c \in Probes(p)}) = Cardinality(Probes(p))
  <1> DEFINE P == Probes(p)
             T == {c.at : c \in P}
             at == [c \in P |-> c.at]
  <1>1. PICK endpoint \in Addresses \X Int, allowLan \in BOOLEAN :
            P = Selected(Offered(p), endpoint, allowLan)
    BY OfferIsProbed
  <1>2. Offered(p) \in SUBSET Proper /\ IsFiniteSet(Offered(p))
    BY MergedTypes DEF OfferInv, Offered
  <1> HIDE DEF P
  <1>3. /\ P \subseteq Usable(Offered(p), endpoint, allowLan) /\ P # {}
        /\ IsFiniteSet(P) /\ Cardinality(P) <= MaxProbe
    BY <1>1, <1>2, SelectedTypes
  <1>4. P \in SUBSET Proper /\ \A c, d \in P : c.at = d.at => c = d
    BY <1>2, <1>3, UsableTypes
  <1>5. at \in Surjection(P, T)
    BY DEF Surjection
  <1>6. at \in Injection(P, T)
    BY <1>4 DEF Injection, IsInjective
  <1>7. Cardinality(T) = Cardinality(P)
    <2> HIDE DEF T, at
    <2> QED BY <1>3, <1>5, <1>6, FS_Surjection
  <1> QED BY <1>3, <1>4, <1>7 DEF P, Proper

LEMMA PairIsSmall ==
    ASSUME NEW x, NEW y, NEW S, S \subseteq {x, y}
    PROVE  IsFiniteSet(S) /\ Cardinality(S) \in Nat /\ Cardinality(S) <= 2
  <1>1. IsFiniteSet({x}) /\ IsFiniteSet({y}) /\ Cardinality({x}) = 1 /\ Cardinality({y}) = 1
    BY FS_Singleton
  <1> DEFINE A == {x}
             B == {y}
  <1>2. /\ IsFiniteSet(A) /\ IsFiniteSet(B) /\ Cardinality(A) = 1 /\ Cardinality(B) = 1
    BY <1>1
  <1> HIDE DEF A, B
  <1>3. /\ IsFiniteSet(A \cup B) /\ IsFiniteSet(A \cap B)
        /\ Cardinality(A \cup B) = Cardinality(A) + Cardinality(B) - Cardinality(A \cap B)
    BY <1>2, FS_Union, FS_Intersection
  <1>4. Cardinality(A \cap B) \in Nat /\ Cardinality(A \cup B) <= 2
    BY <1>2, <1>3, FS_CardinalityType
  <1>5. S \in SUBSET (A \cup B)
    BY DEF A, B
  <1>6. Cardinality(A \cup B) \in Nat /\ IsFiniteSet(S) /\ Cardinality(S) \in Nat
        /\ Cardinality(S) <= Cardinality(A \cup B)
    BY <1>3, <1>5, FS_Subset, FS_CardinalityType
  <1> QED BY <1>4, <1>6

\* When all the observed candidates have one endpoint, it is selected.
LEMMA ObservedIsSelected ==
    ASSUME NEW S \in SUBSET Proper, IsFiniteSet(S), NEW endpoint \in Addresses \X Int,
           NEW allowLan \in BOOLEAN, NEW d \in Usable(S, endpoint, allowLan),
           d.type = "observed4",
           \A c \in Usable(S, endpoint, allowLan) : c.type = "observed4" => c.at = d.at
    PROVE  \E c \in Selected(S, endpoint, allowLan) : c.at = d.at
  <1> DEFINE all == Usable(S, endpoint, allowLan)
             O == {c \in all : c.type = "observed4"}
             first == First(MaxProbe, all)
             rest == First(MaxProbe - 1, first)
             observed == First(1, O)
  <1>1. O \in SUBSET Proper /\ IsFiniteSet(O) /\ O # {} /\ \A c \in O : c.at = d.at
    BY UsableTypes, FS_Subset
  <1>2. Selected(S, endpoint, allowLan) = IF observed \subseteq first THEN first
                                                                      ELSE rest \cup observed
    BY DEF Selected
  <1> HIDE DEF O
  <1>3. observed \in SUBSET O /\ observed # {}
    BY <1>1, FirstTypes
  <1> HIDE DEF observed, rest, first
  <1> QED BY <1>1, <1>2, <1>3

\* When there is no observed candidate, one that two others at most are before is.
LEMMA BestAreSelected ==
    ASSUME MaxProbe >= 3, NEW S \in SUBSET Proper, IsFiniteSet(S),
           NEW endpoint \in Addresses \X Int, NEW allowLan \in BOOLEAN,
           NEW d \in Usable(S, endpoint, allowLan), NEW x, NEW y,
           Earlier(Usable(S, endpoint, allowLan), d) \subseteq {x, y},
           \A c \in Usable(S, endpoint, allowLan) : c.type # "observed4"
    PROVE  d \in Selected(S, endpoint, allowLan)
  <1> DEFINE all == Usable(S, endpoint, allowLan)
             observed == First(1, {c \in all : c.type = "observed4"})
  <1>1. observed = {}
    BY DEF First
  <1>2. Cardinality(Earlier(all, d)) < MaxProbe
    <2> DEFINE E == Earlier(all, d)
    <2>1. Cardinality(E) \in Nat /\ Cardinality(E) <= 2
      <3> HIDE DEF E
      <3> QED BY PairIsSmall DEF E
    <2> QED BY <2>1, LimitsAssumption
  <1>3. d \in First(MaxProbe, all)
    BY <1>2 DEF First, Earlier
  <1> QED BY <1>1, <1>3 DEF Selected

LEMMA ObservedInv ==
    ASSUME MaxProbe >= 3, NEW p \in Peers, offers[p] # None, OfferInv(offers[p]),
           offers[p].wan[1] \notin Global6,
           {c \in Offered(p) : c.at = offers[p].wan} # {} \/ offers[p].type = "WAN",
           \A c \in Offered(p) : c.at = offers[p].wan => c.type # "mapped4"
    PROVE  \E c \in Probes(p) : c.at = offers[p].wan
  <1> DEFINE o == offers[p]
             S == Offered(p)
  <1>1. PICK endpoint \in Addresses \X Int, allowLan \in BOOLEAN :
            /\ Probes(p) = Selected(S, endpoint, allowLan)
            /\ o.type = "WAN" => endpoint = o.wan
            /\ o.type = "LAN" => /\ allowLan /\ o.lan \in Private4
                                 /\ endpoint = <<o.lan, ListenPort>>
    BY OfferIsProbed
  <1> DEFINE all == Usable(S, endpoint, allowLan)
             origin(c) == \/ c = Of("lan4", <<o.lan, ListenPort>>) /\ c.type = "lan4"
                          \/ c \in o.candidates
                          \/ c.at = o.wan /\ c.type = "observed4"
                          \/ c.at # o.wan /\ c.type = "predicted4"
  <1>2. S \in SUBSET Proper /\ IsFiniteSet(S) /\ \A c \in S : origin(c)
    BY MergedTypes DEF OfferInv, Offered
  <1>3. PICK e \in Proper :
            /\ Legacy(endpoint, allowLan) = {e} /\ e.at = endpoint
            /\ e.type \in {"lan4", "host6", "observed4"}
            /\ e.type = "host6" => endpoint[1] \in Global6
            /\ allowLan /\ endpoint[1] \in Private4 => e.type = "lan4"
    BY LegacyTypes
  <1>4. o.type = "LAN" => e.type = "lan4" /\ e.at = <<o.lan, ListenPort>>
    BY <1>1, <1>3
  <1>5. o.type = "WAN" => e.at = o.wan /\ e.type \in {"lan4", "observed4"}
    BY <1>1, <1>3
  <1>6. o.type \in {"LAN", "WAN"} /\ Announcement(o.candidates)
    BY DEF OfferInv
  <1>7. /\ all \in SUBSET Proper /\ all \subseteq S \cup {e}
        /\ \A c, d \in all : c.at = d.at => c = d
        /\ \E c \in all : c.at = endpoint
        /\ \A c \in S : (c.type = "lan4" => allowLan) => \E d \in all : d.at = c.at
    BY <1>2, <1>3, UsableTypes
  <1>8. PICK d \in all : d.at = o.wan
    <2>1. CASE o.type = "WAN"
      BY <1>1, <1>7, <2>1
    <2>2. CASE o.type = "LAN"
      <3>1. PICK c \in S : c.at = o.wan
        BY <2>2
      <3>2. allowLan
        BY <1>1, <2>2
      <3>3. \E b \in all : b.at = c.at
        BY <1>7, <3>2
      <3> QED BY <3>1, <3>3
    <2> QED BY <1>6, <2>1, <2>2
  <1>9. \A c \in all : c.type = "observed4" => c.at = o.wan
    <2> SUFFICES ASSUME NEW c \in all, c.type = "observed4" PROVE c.at = o.wan
      OBVIOUS
    <2>1. CASE c \in S
      <3>1. c \in o.candidates => c.type # "observed4"
        BY <1>6 DEF Announcement
      <3> QED BY <1>2, <2>1, <3>1
    <2>2. CASE c = e
      BY <1>4, <1>5, <1>6, <2>2
    <2> QED BY <1>7, <2>1, <2>2
  <1>10. d.type \in {"lan4", "observed4"}
    <2>1. CASE d = e
      BY <1>4, <1>5, <1>6, <2>1
    <2>2. CASE d \in S
      <3>1. ASSUME d \in o.candidates PROVE d.type = "lan4"
        <4>1. d.type \in {"lan4", "host6", "reflexive6", "mapped4"}
              /\ (d.type \in {"host6", "reflexive6"} => d.at[1] \in Global6)
          BY <1>6, <3>1 DEF Announcement
        <4>2. d.type # "mapped4" /\ d.at[1] \notin Global6
          BY <1>8, <2>2
        <4> QED BY <4>1, <4>2
      <3> QED BY <1>2, <1>8, <2>2, <3>1
    <2> QED BY <1>7, <2>1, <2>2
  <1>11. CASE d.type = "observed4"
    <2>1. \E c \in Selected(S, endpoint, allowLan) : c.at = d.at
      <3> HIDE DEF S
      <3> QED BY <1>2, <1>8, <1>9, <1>11, ObservedIsSelected
    <2> QED BY <1>1, <1>8, <2>1
  <1>12. CASE d.type = "lan4"
    <2> DEFINE x == CHOOSE c \in all : c.at = <<o.lan, ListenPort>>
               y == CHOOSE c \in o.candidates : c.type = "lan4"
    <2>1. \A c \in all : c.type # "observed4"
      BY <1>7, <1>8, <1>9, <1>12
    <2>2. ASSUME NEW c \in Earlier(all, d) PROVE c \in {x, y}
      <3>1. c \in all /\ Before(c, d) /\ c \in Proper /\ d \in Proper
        BY <1>7 DEF Earlier
      <3>2. c # d /\ c.type = "lan4"
        <4>1. c # d
          BY <3>1, BeforeIsOrder
        <4>2. c.priority >= d.priority /\ c.priority \in Int
          BY <3>1, ProperFields DEF Before
        <4>3. d.priority = 1000
          BY <1>12, <3>1, ProperFields DEF Ranked
        <4> QED BY <3>1, <4>1, <4>2, <4>3, ProperFields DEF Ranked
      <3>3. ASSUME c.at = <<o.lan, ListenPort>> PROVE c = x
        BY <1>7, <3>1, <3>3
      <3>4. ASSUME c \in o.candidates PROVE c = y
        BY <1>6, <3>2, <3>4 DEF Announcement
      <3>5. CASE c \in S
        <4>1. c = Of("lan4", <<o.lan, ListenPort>>) => c.at = <<o.lan, ListenPort>>
          BY DEF Of
        <4> QED BY <1>2, <3>2, <3>3, <3>4, <3>5, <4>1
      <3>6. CASE c = e
        <4>1. o.type = "LAN"
          BY <1>5, <1>6, <1>7, <1>8, <3>1, <3>2, <3>6
        <4> QED BY <1>4, <3>3, <3>6, <4>1
      <3> QED BY <1>7, <3>1, <3>5, <3>6
    <2>3. Earlier(all, d) \subseteq {x, y}
      BY <2>2
    <2>4. d \in Selected(S, endpoint, allowLan)
      <3> HIDE DEF S, x, y
      <3> QED BY <1>2, <2>1, <2>3, BestAreSelected
    <2> QED BY <1>1, <1>8, <2>4
  <1> QED BY <1>10, <1>11, <1>12

-----------------------------------------------------------------------------
(* Theorems *)

\* Types, and what they say of the lists: what is recorded of the host and what
\* its peers probe stay within their limits, and no endpoint is probed twice.
THEOREM CandidatesTyped == Spec => []TypeOK
  <1>1. IInv => TypeOK
    <2> SUFFICES ASSUME IInv PROVE TypeOK
      OBVIOUS
    <2>1. stored \subseteq Candidate
      BY DEF IInv, Announcement, Proper
    <2>2. \A p \in Peers : offers[p] # None =>
              /\ Probes(p) \subseteq Candidate /\ Cardinality(Probes(p)) <= MaxProbe
              /\ Cardinality({c.at : c \in Probes(p)}) = Cardinality(Probes(p))
      BY ProbesTypes DEF IInv
    <2> QED BY <2>1, <2>2 DEF IInv, TypeOK
  <1> QED BY <1>1, InitInv, StepInv, PTL DEF Spec

\* However the host moves and whatever expires, no offer the Coordinator puts
\* together is refused by the agent, and each gives it something to probe.
THEOREM NoOfferIsRefused == Spec => []OffersAccepted
  <1>1. IInv => OffersAccepted
    BY ProbesTypes DEF IInv, OffersAccepted
  <1> QED BY <1>1, InitInv, StepInv, PTL DEF Spec

\* An observed IPv4 endpoint is probed however many better candidates there are,
\* and whatever is stale among them.  Three places are needed: the LAN address of
\* the offer, another that was announced, and an endpoint that is private itself
\* all come before; MAX_PROBE_CANDIDATES is 5.
THEOREM ObservedEndpointIsProbed ==
    ASSUME MaxProbe >= 3
    PROVE  Spec => []ObservedIsProbed
  <1>1. IInv => ObservedIsProbed
    BY ObservedInv DEF IInv, ObservedIsProbed
  <1> QED BY <1>1, InitInv, StepInv, PTL DEF Spec

=============================================================================
