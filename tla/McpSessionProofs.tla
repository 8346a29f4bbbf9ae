-------------------------- MODULE McpSessionProofs --------------------------
(***************************************************************************)
(* What a session of guild-mcp-server keeps for every list of supported    *)
(* versions, every set of builds, every number of records, every limit and *)
(* every size of a page: the order of the handshake, the one build of a    *)
(* skill that it executes, what its lists and queries say, and that the    *)
(* URIs it hands out can be read.                                          *)
(*                                                                         *)
(* The lists rest on what sorting a set of records yields: first that      *)
(* there is exactly one sorted sequence and that it holds every member,    *)
(* then how far a record can move when others are added, which is what a   *)
(* cursor of a list that changes has to survive.                           *)
(***************************************************************************)
EXTENDS McpSession, FiniteSetTheorems, TLAPS

\* Inductive strengthening: only initialize sets the version, and only a session that is
\* ready executes.
Shaken ==
    /\ state \in {"pre", "waiting", "ready"}
    /\ protocol_version # None => state # "pre"
    /\ call # None => state = "ready"

\* The one build that a session executes is the newest that LocalRegistry::load saw.
Pinned == ran \subseteq {Newest(loaded)}

-----------------------------------------------------------------------------
(* Sequences and functions *)

\* A sequence is a function on 1 .. its length.
LEMMA LengthOf ==
    ASSUME NEW S, NEW seq \in Seq(S)
    PROVE  Len(seq) \in Nat /\ seq \in [1..Len(seq) -> S] /\ DOMAIN seq = 1..Len(seq)
  OBVIOUS

\* A list of versions that is not empty has a last one.
LEMMA NonEmpty ==
    ASSUME NEW S, NEW seq \in Seq(S), seq # <<>>
    PROVE  Len(seq) \in DOMAIN seq
  OBVIOUS

\* A function on 1 .. n is a sequence.
LEMMA SequenceOf ==
    ASSUME NEW S, NEW n \in Nat, NEW seq \in [1..n -> S]
    PROVE  seq \in Seq(S)
  OBVIOUS

\* Sequences with the same members at the same places are equal.
LEMMA SameSequence ==
    ASSUME NEW S, NEW s \in Seq(S), NEW t \in Seq(S), Len(s) = Len(t), \A i \in 1..Len(s) : s[i] = t[i]
    PROVE  s = t
  OBVIOUS

\* Where the members of a page that is appended come to stand,
LEMMA Joined ==
    ASSUME NEW S, NEW s \in Seq(S), NEW t \in Seq(S)
    PROVE  /\ s \o t \in Seq(S) /\ Len(s \o t) = Len(s) + Len(t)
           /\ \A i \in 1..(Len(s) + Len(t)) : (s \o t)[i] = IF i <= Len(s) THEN s[i] ELSE t[i - Len(s)]
  OBVIOUS

\* and that no other members come in.
LEMMA JoinedRange ==
    ASSUME NEW S, NEW s \in Seq(S), NEW t \in Seq(S)
    PROVE  Range(s \o t) = Range(s) \cup Range(t)
  <1>1. DOMAIN (s \o t) = 1..(Len(s) + Len(t)) /\ DOMAIN s = 1..Len(s) /\ DOMAIN t = 1..Len(t)
    OBVIOUS
  <1>2. ASSUME NEW x \in Range(s) PROVE x \in Range(s \o t)
    BY <1>1 DEF Range
  <1>3. ASSUME NEW x \in Range(t) PROVE x \in Range(s \o t)
    <2>1. PICK i \in 1..Len(t) : x = t[i]
      BY Zenon, <1>1 DEF Range
    <2>2. i + Len(s) \in DOMAIN (s \o t) /\ (s \o t)[i + Len(s)] = x
      BY <1>1, <2>1
    <2> QED
      BY Zenon, <2>2 DEF Range
  <1>4. ASSUME NEW x \in Range(s \o t) PROVE x \in Range(s) \cup Range(t)
    BY <1>1 DEF Range
  <1> QED
    BY Zenon, <1>2, <1>3, <1>4

\* What a page of a list holds.
LEMMA Slice ==
    ASSUME NEW S, NEW s, NEW m \in Int, NEW n \in Int, \A i \in m..n : s[i] \in S
    PROVE  /\ SubSeq(s, m, n) \in Seq(S) /\ Len(SubSeq(s, m, n)) = IF m <= n THEN n - m + 1 ELSE 0
           /\ \A i \in 1..(n - m + 1) : SubSeq(s, m, n)[i] = s[m + i - 1]
  OBVIOUS

\* Nothing was seen of a list before its first page,
LEMMA EmptySlice ==
    ASSUME NEW S, NEW s \in Seq(S)
    PROVE  SubSeq(s, 1, 0) = <<>>
  OBVIOUS

\* and all of it after the last.
LEMMA WholeSlice ==
    ASSUME NEW S, NEW s \in Seq(S)
    PROVE  SubSeq(s, 1, Len(s)) = s
  OBVIOUS

\* A function without two arguments of one value is an injection,
LEMMA IsInjection ==
    ASSUME NEW S, NEW T, NEW F \in [S -> T], \A a, b \in S : F[a] = F[b] => a = b
    PROVE  F \in Injection(S, T)
  BY Zenon DEF Injection, IsInjective

\* a surjection takes every value,
LEMMA Hits ==
    ASSUME NEW S, NEW T, NEW F \in Surjection(S, T)
    PROVE  \A t \in T : \E s \in S : F[s] = t
  BY Zenon DEF Surjection

\* and what is both is a bijection.
LEMMA IsBijection ==
    ASSUME NEW S, NEW T, NEW F \in [S -> T], \A a, b \in S : F[a] = F[b] => a = b,
           \A t \in T : \E s \in S : F[s] = t
    PROVE  F \in Bijection(S, T)
  BY Zenon DEF Bijection, Injection, Surjection, IsInjective

-----------------------------------------------------------------------------
(* The handshake *)

\* A handler that answers a message leaves the handshake and the execution alone, and
\* hands out a URI only when the session is ready.
LEMMA AnswersOnly ==
    ASSUME \/ HandleMalformed \/ HandlePing \/ HandleNotReady \/ HandleUnknown
           \/ HandleToolsList \/ HandleTemplatesList \/ HandleResourcesList
           \/ HandleResourcesRead \/ write_json_line
    PROVE  /\ UNCHANGED <<state, protocol_version, loaded, call, ran>>
           /\ state # "ready" => held' = held
  <1> USE DEF session, store, Ready, Idle
  <1>1. CASE HandleMalformed \/ HandlePing \/ HandleNotReady \/ HandleUnknown \/ write_json_line
    BY Zenon, <1>1 DEF HandleMalformed, HandlePing, HandleNotReady, HandleUnknown, write_json_line
  <1>2. CASE HandleToolsList \/ HandleTemplatesList \/ HandleResourcesList
    BY Zenon, <1>2 DEF HandleToolsList, HandleTemplatesList, HandleResourcesList
  <1>3. CASE HandleResourcesRead
    BY Zenon, <1>3 DEF HandleResourcesRead
  <1> QED
    BY Zenon, <1>1, <1>2, <1>3

\* The other processes write to the root and touch nothing of the session.
LEMMA OthersApart ==
    ASSUME OtherCreates \/ OtherWrites \/ OtherInstalls
    PROVE  UNCHANGED <<state, protocol_version, loaded, call, ran, held>>
  BY Zenon DEF OtherCreates, OtherWrites, OtherInstalls, session

-----------------------------------------------------------------------------
\* What one step does to the handshake.
HandshakeStep ==
    /\ <<state, state'>> \in {<<"pre", "waiting">>, <<"waiting", "ready">>} \/ state' = state
    /\ protocol_version # None => protocol_version' = protocol_version
    /\ state # "ready" => held' = held /\ call' = call

\* Every handler keeps Shaken, and from it takes a step of the handshake.
LEMMA NextShaken ==
    ASSUME Shaken, [Next]_vars
    PROVE  Shaken' /\ HandshakeStep
  <1> USE DEF Shaken, HandshakeStep, session, store, Ready, Idle
  <1>1. CASE \/ HandleMalformed \/ HandlePing \/ HandleNotReady \/ HandleUnknown
             \/ HandleToolsList \/ HandleTemplatesList \/ HandleResourcesList
             \/ HandleResourcesRead \/ write_json_line
    BY Zenon, <1>1, AnswersOnly
  <1>2. CASE HandleNotification
    BY Zenon, <1>2 DEF HandleNotification
  <1>3. CASE HandleInitialize
    BY Zenon, <1>3 DEF HandleInitialize
  <1>4. CASE HandleToolsCall
    BY Zenon, <1>4 DEF HandleToolsCall
  <1>5. CASE CallPersists \/ CallReplies
    BY Zenon, <1>5 DEF CallPersists, CallReplies
  <1>6. CASE OtherCreates \/ OtherWrites \/ OtherInstalls
    BY Zenon, <1>6, OthersApart
  <1>7. CASE UNCHANGED vars
    BY Zenon, <1>7 DEF vars
  <1> QED
    BY Zenon, <1>1, <1>2, <1>3, <1>4, <1>5, <1>6, <1>7 DEF Next

\* initialize and notifications/initialized, in whatever order and however often clients
\* send them: the session moves forward only, keeps the version it negotiated, and
\* neither executes nor hands out anything before it is ready.
THEOREM HandshakeIsOrdered == Spec => HandshakeHolds
  <1>1. Init => Shaken
    BY Zenon DEF Init, Shaken
  <1>2. Shaken /\ [Next]_vars => Shaken'
    BY Zenon, NextShaken
  <1>3. Shaken /\ [Next]_vars => [HandshakeStep]_vars
    BY Zenon, NextShaken
  <1> QED
    BY <1>1, <1>2, <1>3, PTL DEF Spec, HandshakeHolds, HandshakeStep

-----------------------------------------------------------------------------
\* Every handler keeps the registry that was loaded, and executes from no other.
LEMMA NextPinned ==
    ASSUME Pinned, [Next]_vars
    PROVE  Pinned'
  <1> USE DEF session, store
  <1>1. CASE \/ HandleMalformed \/ HandlePing \/ HandleNotReady \/ HandleUnknown
             \/ HandleToolsList \/ HandleTemplatesList \/ HandleResourcesList
             \/ HandleResourcesRead \/ write_json_line
    BY Zenon, <1>1, AnswersOnly DEF Pinned, Newest
  <1>2. CASE HandleNotification \/ HandleInitialize \/ CallPersists \/ CallReplies
    <2>1. UNCHANGED <<loaded, ran>>
      BY Zenon, <1>2 DEF HandleNotification, HandleInitialize, CallPersists, CallReplies
    <2> QED
      BY Zenon, <2>1 DEF Pinned, Newest
  <1>3. CASE HandleToolsCall
    <2>1. loaded' = loaded /\ (ran' = ran \/ ran' = ran \cup {Newest(loaded)})
      BY Zenon, <1>3 DEF HandleToolsCall, Starts
    <2> QED
      BY Zenon, <2>1 DEF Pinned, Newest
  <1>4. CASE OtherCreates \/ OtherWrites \/ OtherInstalls
    BY Zenon, <1>4, OthersApart DEF Pinned, Newest
  <1>5. CASE UNCHANGED vars
    BY Zenon, <1>5 DEF vars, Pinned, Newest
  <1> QED
    BY Zenon, <1>1, <1>2, <1>3, <1>4, <1>5 DEF Next

\* Whatever other processes install while the server runs, a session executes one build of
\* a skill, the newest of those its registry was loaded with.
THEOREM SkillIsPinned == Spec => []SessionPinsSkill
  <1>1. Init => Pinned
    BY Zenon DEF Init, Pinned
  <1>2. Pinned /\ [Next]_vars => Pinned'
    BY Zenon, NextPinned
  <1>3. Pinned => SessionPinsSkill
    <2> SUFFICES ASSUME NEW b, ran \subseteq {b} PROVE Cardinality(ran) <= 1
      BY Zenon DEF Pinned, SessionPinsSkill
    <2>1. CASE ran = {}
      BY <2>1, FS_EmptySet
    <2>2. CASE ran = {b}
      <3>1. Cardinality({b}) = 1
        BY FS_Singleton, Zenon
      <3> QED
        BY <2>2, <3>1
    <2> QED
      BY Zenon, <2>1, <2>2
  <1> QED
    BY <1>1, <1>2, <1>3, PTL DEF Spec

-----------------------------------------------------------------------------
(* Sorting *)

\* R orders the members of S strictly and totally.
Orders(R, S) ==
    /\ \A x, y \in S : x # y => <<x, y>> \in R \/ <<y, x>> \in R
    /\ \A x, y \in S : <<x, y>> \in R => <<y, x>> \notin R
    /\ \A x, y, z \in S : <<x, y>> \in R /\ <<y, z>> \in R => <<x, z>> \in R

Sorts(s, S, R) ==
    /\ s \in [1..Cardinality(S) -> S]
    /\ \A i, j \in 1..Cardinality(S) : i < j => <<s[i], s[j]>> \in R

\* Fewer members come before a member than before the next.
LEMMA RankGrows ==
    ASSUME NEW S, IsFiniteSet(S), NEW R, Orders(R, S), NEW x \in S, NEW y \in S, <<x, y>> \in R
    PROVE  Cardinality({z \in S : <<z, x>> \in R}) < Cardinality({z \in S : <<z, y>> \in R})
  <1> DEFINE Bx == {z \in S : <<z, x>> \in R}
             By == {z \in S : <<z, y>> \in R}
  <1>1. IsFiniteSet(Bx) /\ IsFiniteSet(By)
    BY ZenonT(30), FS_Subset
  <1>2. x \notin Bx /\ Bx \cup {x} \subseteq By
    BY Zenon DEF Orders
  <1>3. Cardinality(Bx) \in Nat /\ Cardinality(By) \in Nat
    BY Zenon, <1>1, FS_CardinalityType
  <1> HIDE DEF Bx, By
  <1>4. Cardinality(Bx \cup {x}) = Cardinality(Bx) + 1
    BY ZenonT(30), <1>1, <1>2, FS_AddElement
  <1>5. Cardinality(Bx \cup {x}) <= Cardinality(By)
    BY Zenon, <1>1, <1>2, FS_Subset
  <1>6. Cardinality(Bx) < Cardinality(By)
    BY <1>3, <1>4, <1>5
  <1> QED
    BY Zenon, <1>6 DEF Bx, By

\* A finite set has a sorting.
LEMMA SortingExists ==
    ASSUME NEW S, IsFiniteSet(S), NEW R, Orders(R, S)
    PROVE  \E s : Sorts(s, S, R)
  <1> DEFINE n == Cardinality(S)
             Before(x) == {z \in S : <<z, x>> \in R}
             rank == [x \in S |-> Cardinality(Before(x)) + 1]
             s == [i \in 1..n |-> CHOOSE x \in S : rank[x] = i]
  <1>1. n \in Nat
    BY Zenon, FS_CardinalityType
  <1>2. ASSUME NEW x \in S PROVE Cardinality(Before(x)) + 1 \in 1..n
    <2> DEFINE B == Before(x)
               D == S \ {x}
    <2>1. IsFiniteSet(D) /\ Cardinality(D) = n - 1
      BY Zenon, FS_RemoveElement
    <2>2. B \in SUBSET D
      BY Zenon DEF Orders
    <2> HIDE DEF B, D
    <2>3. IsFiniteSet(B) /\ Cardinality(B) <= Cardinality(D)
      BY Zenon, <2>1, <2>2, FS_Subset
    <2>4. Cardinality(B) \in Nat
      BY Zenon, <2>3, FS_CardinalityType
    <2>5. Cardinality(B) + 1 \in 1..n
      BY <1>1, <2>1, <2>3, <2>4
    <2> QED
      BY Zenon, <2>5 DEF B
  <1>3. rank \in [S -> 1..n]
    BY Zenon, <1>2
  <1>4. ASSUME NEW x \in S, NEW y \in S, <<x, y>> \in R PROVE rank[x] < rank[y]
    <2>1. Cardinality(Before(x)) < Cardinality(Before(y))
      BY <1>4, RankGrows
    <2>2. rank[x] = Cardinality(Before(x)) + 1 /\ rank[y] = Cardinality(Before(y)) + 1
      BY Zenon
    <2>3. IsFiniteSet(Before(x)) /\ IsFiniteSet(Before(y))
      BY ZenonT(30), FS_Subset
    <2>4. Cardinality(Before(x)) \in Nat /\ Cardinality(Before(y)) \in Nat
      BY Zenon, <2>3, FS_CardinalityType
    <2> QED
      BY <2>1, <2>2, <2>4
  <1> HIDE DEF rank
  <1>5. rank \in Injection(S, 1..n)
    <2>1. ASSUME NEW x \in S, NEW y \in S, rank[x] = rank[y] PROVE x = y
      <3>1. rank[x] \in Nat /\ rank[y] \in Nat
        BY <1>1, <1>3
      <3>2. <<x, y>> \notin R /\ <<y, x>> \notin R
        BY <1>4, <2>1, <3>1
      <3> QED
        BY Zenon, <3>2 DEF Orders
    <2> QED
      BY ZenonT(30), <1>3, <2>1, IsInjection
  <1>6. \A i \in 1..n : \E x \in S : rank[x] = i
    <2>1. IsFiniteSet(1..n) /\ Cardinality(1..n) = n
      BY <1>1, FS_Interval
    <2>2. rank \in Surjection(S, 1..n)
      BY Zenon, <1>5, <2>1, FS_Injection
    <2> QED
      BY Zenon, <2>2 DEF Surjection
  <1>7. \A i \in 1..n : s[i] \in S /\ rank[s[i]] = i
    BY Zenon, <1>6
  <1>8. s \in [1..n -> S]
    BY Zenon, <1>7
  <1> HIDE DEF s
  <1>9. ASSUME NEW i \in 1..n, NEW j \in 1..n, i < j PROVE <<s[i], s[j]>> \in R
    <2>1. s[i] # s[j]
      BY <1>1, <1>7, <1>9
    <2>2. <<s[j], s[i]>> \in R => j < i
      BY Zenon, <1>4, <1>7
    <2> QED
      BY <1>1, <1>7, <1>9, <2>1, <2>2 DEF Orders
  <1> QED
    BY ZenonT(30), <1>8, <1>9 DEF Sorts

\* A sorting has every member once.
LEMMA SortingIsOnto ==
    ASSUME NEW S, IsFiniteSet(S), NEW R, Orders(R, S), NEW s, Sorts(s, S, R)
    PROVE  /\ Cardinality(S) \in Nat
           /\ \A i, j \in 1..Cardinality(S) : s[i] = s[j] => i = j
           /\ \A x \in S : \E i \in 1..Cardinality(S) : s[i] = x
           /\ Range(s) = S
  <1> DEFINE n == Cardinality(S)
  <1>1. n \in Nat
    BY Zenon, FS_CardinalityType
  <1>2. ASSUME NEW i \in 1..n, NEW j \in 1..n, s[i] = s[j] PROVE i = j
    <2>1. s[i] \in S /\ <<s[i], s[i]>> \notin R
      BY Zenon DEF Sorts, Orders
    <2>2. ~(i < j) /\ ~(j < i)
      BY Zenon, <1>2, <2>1 DEF Sorts
    <2> QED
      BY <1>1, <2>2
  <1>3. s \in Injection(1..n, S)
    BY ZenonT(30), <1>2, IsInjection DEF Sorts
  <1>4. IsFiniteSet(1..n) /\ Cardinality(1..n) = n
    BY <1>1, FS_Interval
  <1>5. s \in Surjection(1..n, S)
    BY Zenon, <1>3, <1>4, FS_Injection
  <1>6. \A x \in S : \E i \in 1..n : s[i] = x
    <2> DEFINE D == 1..n
    <2>1. s \in Surjection(D, S)
      BY Zenon, <1>5
    <2> HIDE DEF D
    <2>2. \A x \in S : \E i \in D : s[i] = x
      BY <2>1, Hits
    <2> QED
      BY Zenon, <2>2 DEF D
  <1>7. Range(s) = S
    BY Zenon, <1>6 DEF Sorts, Range
  <1> QED
    BY Zenon, <1>1, <1>2, <1>6, <1>7

\* A member never moves to the front when others join: what is at a place in the larger
\* sorting was at that place or before it in the smaller one.
LEMMA MembersMoveBack ==
    ASSUME NEW S, NEW T, IsFiniteSet(T), S \subseteq T, NEW R, Orders(R, T),
           NEW s, Sorts(s, S, R), NEW t, Sorts(t, T, R),
           NEW i \in 1..Cardinality(T), t[i] \in S
    PROVE  \E j \in 1..Cardinality(S) : j <= i /\ s[j] = t[i]
  <1>1. IsFiniteSet(S) /\ Orders(R, S)
    BY Zenon, FS_Subset DEF Orders
  <1>2. PICK j \in 1..Cardinality(S) : s[j] = t[i]
    BY <1>1, SortingIsOnto
  <1>3. Cardinality(S) \in Nat /\ Cardinality(T) \in Nat
    BY Zenon, <1>1, FS_CardinalityType
  <1>4. \A k \in 1..(j - 1) : \E l \in 1..(i - 1) : t[l] = s[k]
    <2> SUFFICES ASSUME NEW k \in 1..(j - 1) PROVE \E l \in 1..(i - 1) : t[l] = s[k]
      BY Zenon
    <2>1. k \in 1..Cardinality(S) /\ k < j
      BY <1>3
    <2>2. <<s[k], t[i]>> \in R /\ s[k] \in T
      BY Zenon, <1>2, <2>1 DEF Sorts
    <2>3. PICK l \in 1..Cardinality(T) : t[l] = s[k]
      BY <2>2, SortingIsOnto
    <2>4. ~(i < l) /\ l # i
      BY ZenonT(30), <2>2, <2>3 DEF Sorts, Orders
    <2>5. l \in 1..(i - 1)
      BY <1>3, <2>4
    <2> QED
      BY Zenon, <2>3, <2>5
  <1> DEFINE f == [k \in 1..(j - 1) |-> CHOOSE l \in 1..(i - 1) : t[l] = s[k]]
  <1>5. \A k \in 1..(j - 1) : f[k] \in 1..(i - 1) /\ t[f[k]] = s[k]
    BY Zenon, <1>4
  <1>6. f \in [1..(j - 1) -> 1..(i - 1)]
    BY Zenon, <1>5
  <1> HIDE DEF f
  <1>7. \A k, l \in 1..(j - 1) : f[k] = f[l] => k = l
    <2>1. \A k, l \in 1..Cardinality(S) : s[k] = s[l] => k = l
      BY Zenon, <1>1, SortingIsOnto
    <2> QED
      BY <1>3, <1>5, <2>1
  <1>8. f \in Injection(1..(j - 1), 1..(i - 1))
    BY Zenon, <1>6, <1>7, IsInjection
  <1>9. /\ IsFiniteSet(1..(i - 1)) /\ Cardinality(1..(i - 1)) = i - 1
        /\ Cardinality(1..(j - 1)) = j - 1
    <2> DEFINE a == i - 1
               b == j - 1
    <2>1. a \in Nat /\ b \in Nat
      BY <1>3
    <2> HIDE DEF a, b
    <2>2. IsFiniteSet(1..a) /\ Cardinality(1..a) = a /\ Cardinality(1..b) = b
      BY <2>1, FS_Interval
    <2> QED
      BY Zenon, <2>2 DEF a, b
  <1>10. j - 1 <= i - 1
    BY <1>8, <1>9, FS_Injection
  <1>11. j <= i
    BY <1>3, <1>10
  <1> QED
    BY Zenon, <1>2, <1>11

\* The order of execution records, and that of evidence.
Latest(E) == {p \in E \X E : compare_execution_records_for_query(p[1], p[2])}

Larger(V) == {p \in V \X V : compare_evidence_records_desc(p[1], p[2])}

\* Execution records that can be told apart by their identifiers.
Records(E) ==
    /\ IsFiniteSet(E)
    /\ \A r \in E : r.id \in Nat /\ r.started \in Nat /\ r.finished \in Nat
    /\ \A r, s \in E : r.id = s.id => r = s

\* compare_execution_records_for_query orders records strictly and totally.
LEMMA RecordsAreOrdered ==
    ASSUME NEW E, Records(E)
    PROVE  Orders(Latest(E), E)
  <1>1. ASSUME NEW x \in E, NEW y \in E
        PROVE  <<x, y>> \in Latest(E) <=> compare_execution_records_for_query(x, y)
    BY Zenon DEF Latest
  <1>2. \A x, y \in E : x # y => <<x, y>> \in Latest(E) \/ <<y, x>> \in Latest(E)
    BY <1>1 DEF Records, compare_execution_records_for_query
  <1>3. \A x, y \in E : <<x, y>> \in Latest(E) => <<y, x>> \notin Latest(E)
    BY <1>1 DEF Records, compare_execution_records_for_query
  <1>4. \A x, y, z \in E :
            <<x, y>> \in Latest(E) /\ <<y, z>> \in Latest(E) => <<x, z>> \in Latest(E)
    BY <1>1 DEF Records, compare_execution_records_for_query
  <1> QED
    BY Zenon, <1>2, <1>3, <1>4 DEF Orders

\* So do numbers.
LEMMA EvidenceIsOrdered ==
    ASSUME NEW V \in SUBSET Nat
    PROVE  Orders(Larger(V), V)
  <1>1. ASSUME NEW x \in V, NEW y \in V PROVE <<x, y>> \in Larger(V) <=> x > y
    BY Zenon DEF Larger, compare_evidence_records_desc
  <1> QED
    BY <1>1 DEF Orders

\* What load_execution_records_sorted returns is sorted.
LEMMA RecordsSorted ==
    ASSUME NEW E, Records(E)
    PROVE  Sorts(Sorted(E, compare_execution_records_for_query), E, Latest(E))
  <1> DEFINE n == Cardinality(E)
             Ok(s) == \A i, j \in DOMAIN s : i < j => compare_execution_records_for_query(s[i], s[j])
  <1>1. ASSUME NEW s \in [1..n -> E] PROVE Ok(s) <=> Sorts(s, E, Latest(E))
    <2>1. ASSUME NEW x \in E, NEW y \in E
          PROVE  <<x, y>> \in Latest(E) <=> compare_execution_records_for_query(x, y)
      BY Zenon DEF Latest
    <2>2. DOMAIN s = 1..n /\ \A i \in 1..n : s[i] \in E
      BY Zenon
    <2>3. ASSUME NEW i \in 1..n, NEW j \in 1..n
          PROVE  <<s[i], s[j]>> \in Latest(E) <=> compare_execution_records_for_query(s[i], s[j])
      BY Zenon, <2>1, <2>2
    <2> QED
      BY <2>2, <2>3, Zenon DEF Sorts
  <1>2. \E s \in [1..n -> E] : Ok(s)
    <2>1. PICK s : Sorts(s, E, Latest(E))
      BY Zenon, RecordsAreOrdered, SortingExists DEF Records
    <2>2. s \in [1..n -> E]
      BY Zenon, <2>1 DEF Sorts
    <2> QED
      BY Zenon, <1>1, <2>1, <2>2
  <1>3. Sorted(E, compare_execution_records_for_query) = CHOOSE s \in [1..n -> E] : Ok(s)
    BY Zenon DEF Sorted
  <1> HIDE DEF Ok
  <1> QED
    BY Zenon, <1>1, <1>2, <1>3

\* And what load_evidence_records_sorted returns.
LEMMA EvidenceSorted ==
    ASSUME NEW V \in SUBSET Nat, IsFiniteSet(V)
    PROVE  Sorts(Sorted(V, compare_evidence_records_desc), V, Larger(V))
  <1> DEFINE n == Cardinality(V)
             Ok(s) == \A i, j \in DOMAIN s : i < j => compare_evidence_records_desc(s[i], s[j])
  <1>1. ASSUME NEW s \in [1..n -> V] PROVE Ok(s) <=> Sorts(s, V, Larger(V))
    <2>1. ASSUME NEW x \in V, NEW y \in V
          PROVE  <<x, y>> \in Larger(V) <=> compare_evidence_records_desc(x, y)
      BY Zenon DEF Larger
    <2>2. DOMAIN s = 1..n /\ \A i \in 1..n : s[i] \in V
      BY Zenon
    <2>3. ASSUME NEW i \in 1..n, NEW j \in 1..n
          PROVE  <<s[i], s[j]>> \in Larger(V) <=> compare_evidence_records_desc(s[i], s[j])
      BY <2>1, <2>2, Zenon
    <2> QED
      BY <2>2, <2>3, Zenon DEF Sorts
  <1>2. \E s \in [1..n -> V] : Ok(s)
    <2>1. PICK s : Sorts(s, V, Larger(V))
      BY Zenon, EvidenceIsOrdered, SortingExists
    <2>2. s \in [1..n -> V]
      BY Zenon, <2>1 DEF Sorts
    <2> QED
      BY Zenon, <1>1, <2>1, <2>2
  <1>3. Sorted(V, compare_evidence_records_desc) = CHOOSE s \in [1..n -> V] : Ok(s)
    BY Zenon DEF Sorted
  <1> HIDE DEF Ok
  <1> QED
    BY Zenon, <1>1, <1>2, <1>3

-----------------------------------------------------------------------------
(* Queries *)

\* The front of a sequence.
LEMMA Taken ==
    ASSUME NEW S, NEW s \in Seq(S), NEW k \in Nat, NEW t, t = Take(s, k)
    PROVE  /\ t \in Seq(S) /\ Len(t) = (IF k < Len(s) THEN k ELSE Len(s))
           /\ \A i \in 1..Len(t) : t[i] = s[i]
  <1> DEFINE m == IF k < Len(s) THEN k ELSE Len(s)
  <1>1. Len(s) \in Nat /\ m \in Nat /\ m <= Len(s)
    BY LengthOf
  <1>2. t = SubSeq(s, 1, m)
    BY Zenon DEF Take
  <1>3. \A i \in 1..m : s[i] \in S
    BY <1>1, LengthOf
  <1> HIDE DEF m
  <1>4. /\ t \in Seq(S) /\ Len(t) = (IF 1 <= m THEN m - 1 + 1 ELSE 0)
        /\ \A i \in 1..(m - 1 + 1) : t[i] = s[1 + i - 1]
    BY <1>1, <1>2, <1>3, Slice
  <1>5. Len(t) = m
    BY <1>1, <1>4
  <1>6. ASSUME NEW i \in 1..m PROVE t[i] = s[i]
    BY <1>1, <1>4
  <1> QED
    BY Zenon, <1>4, <1>5, <1>6 DEF m

\* The rest of a sequence.
LEMMA Skipped ==
    ASSUME NEW S, NEW s \in Seq(S), NEW k \in Nat, k <= Len(s), NEW t, t = Skip(s, k)
    PROVE  /\ t \in Seq(S) /\ Len(t) = Len(s) - k
           /\ \A i \in 1..Len(t) : t[i] = s[k + i]
  <1> DEFINE n == Len(s)
  <1>1. n \in Nat
    BY Zenon, LengthOf
  <1>2. t = SubSeq(s, k + 1, n)
    BY Zenon DEF Skip
  <1>3. \A i \in (k + 1)..n : s[i] \in S
    BY <1>1, LengthOf
  <1> HIDE DEF n
  <1>4. /\ t \in Seq(S) /\ Len(t) = (IF k + 1 <= n THEN n - (k + 1) + 1 ELSE 0)
        /\ \A i \in 1..(n - (k + 1) + 1) : t[i] = s[k + 1 + i - 1]
    BY <1>1, <1>2, <1>3, Slice
  <1>5. k <= n
    BY Zenon DEF n
  <1>6. Len(t) = n - k
    BY <1>1, <1>4, <1>5
  <1>7. ASSUME NEW i \in 1..(n - k) PROVE t[i] = s[k + i]
    BY <1>1, <1>4
  <1> QED
    BY Zenon, <1>4, <1>6, <1>7 DEF n

\* A function on 1..n is a sequence.
LEMMA FunctionsAreSequences ==
    ASSUME NEW S, NEW n \in Nat, NEW s \in [1..n -> S]
    PROVE  s \in Seq(S) /\ Len(s) = n /\ DOMAIN s = 1..n
  <1>1. s \in Seq(S)
    BY Zenon, SequenceOf
  <1>2. DOMAIN s = 1..n /\ DOMAIN s = 1..Len(s) /\ Len(s) \in Nat
    BY Zenon, <1>1, LengthOf
  <1> QED
    BY <1>1, <1>2

\* shown, the members of t, are the first of the sorting f of M, as many as limit allows.
IsFront(f, t, M, limit, shown) ==
    /\ shown \subseteq M /\ Cardinality(shown) = Len(t)
    /\ \A r \in shown, s \in M \ shown : compare_execution_records_for_query(r, s)
    /\ Len(f) = Cardinality(M)
    /\ Len(t) <= limit /\ (Len(f) > Len(t) => Len(t) = limit)
    /\ Len(f) > Len(t) <=> shown # M

\* The front of a sorting of records: nothing that is left out comes before something that
\* is in it.
LEMMA FrontOfSorting ==
    ASSUME NEW M, Records(M), NEW f, Sorts(f, M, Latest(M)), NEW limit \in Nat,
           NEW t, t = Take(f, limit), NEW shown, shown = Range(t)
    PROVE  IsFront(f, t, M, limit, shown)
  <1> DEFINE n == Cardinality(M)
             m == IF limit < n THEN limit ELSE n
  <1>1. IsFiniteSet(M) /\ Orders(Latest(M), M)
    BY Zenon, RecordsAreOrdered DEF Records
  <1>2. /\ n \in Nat
        /\ \A i, j \in 1..n : f[i] = f[j] => i = j
        /\ \A r \in M : \E i \in 1..n : f[i] = r
    BY <1>1, SortingIsOnto
  <1>3. f \in [1..n -> M]
    BY Zenon DEF Sorts
  <1>4. f \in Seq(M) /\ Len(f) = n
    BY Zenon, <1>2, <1>3, FunctionsAreSequences
  <1>5. /\ t \in Seq(M) /\ Len(t) = (IF limit < Len(f) THEN limit ELSE Len(f))
        /\ \A i \in 1..Len(t) : t[i] = f[i]
    BY <1>4, Taken
  <1>6. Len(t) = m /\ \A i \in 1..m : t[i] = f[i]
    BY Zenon, <1>4, <1>5
  <1>7. m \in Nat /\ m <= n /\ m <= limit /\ (m < n => m = limit)
    BY <1>2
  <1> HIDE DEF m, n
  <1>8. DOMAIN t = 1..m /\ t \in [1..m -> M]
    BY Zenon, <1>5, <1>6, LengthOf
  <1>9. shown = {f[i] : i \in 1..m}
    BY Zenon, <1>6, <1>8 DEF Range
  <1>10. shown \subseteq M
    BY <1>2, <1>3, <1>7, <1>9
  <1>11. Cardinality(shown) = m
    <2>1. t \in [1..m -> shown] /\ \A i, j \in 1..m : t[i] = t[j] => i = j
      BY <1>2, <1>6, <1>7, <1>8, <1>9
    <2>2. \A r \in shown : \E i \in 1..m : t[i] = r
      BY Zenon, <1>6, <1>9
    <2> DEFINE D == 1..m
    <2> HIDE DEF D
    <2>3. t \in [D -> shown] /\ (\A i, j \in D : t[i] = t[j] => i = j)
            /\ \A r \in shown : \E i \in D : t[i] = r
      BY Zenon, <2>1, <2>2 DEF D
    <2>4. t \in Bijection(D, shown)
      BY Zenon, <2>3, IsBijection
    <2>5. ExistsBijection(D, shown)
      BY Zenon, <2>4 DEF ExistsBijection
    <2> QED
      BY Zenon, <1>7, <2>5, FS_CountingElements DEF D
  <1>12. ASSUME NEW r \in shown, NEW s \in M \ shown
         PROVE  compare_execution_records_for_query(r, s)
    <2>1. PICK i \in 1..m : f[i] = r
      BY Zenon, <1>9
    <2>2. PICK j \in 1..n : f[j] = s
      BY Zenon, <1>2
    <2>3. j \notin 1..m
      BY Zenon, <1>9, <2>2
    <2>4. i \in 1..n /\ i < j
      BY <1>2, <1>7, <2>3
    <2>5. <<r, s>> \in Latest(M)
      BY Zenon, <2>1, <2>2, <2>4 DEF Sorts, n
    <2> QED
      BY Zenon, <2>5 DEF Latest
  <1>13. n > m <=> shown # M
    <2>1. CASE n = m
      BY <1>2, <1>3, <1>7, <1>9, <2>1
    <2>2. CASE n > m
      <3>1. n \in 1..n /\ f[n] \in M
        BY <1>2, <1>3, <1>7, <2>2
      <3>2. f[n] \notin shown
        BY <1>2, <1>7, <1>9, <2>2, <3>1
      <3> QED
        BY Zenon, <2>2, <3>1, <3>2
    <2> QED
      BY <1>2, <1>7, <2>1, <2>2
  <1>14. n > m => m = limit
    BY Zenon, <1>2, <1>7
  <1> QED
    BY Zenon, <1>2, <1>4, <1>6, <1>7, <1>10, <1>11, <1>12, <1>13, <1>14 DEF n, IsFront

\* query_execution_records: the front of the records that match, and what it says of them.
LEMMA QueryIsHonest ==
    ASSUME Records(executions), NEW kind \in QueryKinds, NEW limit \in Nat,
           NEW q, q = query_execution_records(kind, limit),
           NEW matching, matching = {r \in executions : execution_record_matches_query(r, kind)},
           NEW shown, shown = Range(q.results)
    PROVE  /\ shown \subseteq matching /\ Cardinality(shown) = Len(q.results)
           /\ \A r \in shown, s \in matching \ shown : compare_execution_records_for_query(r, s)
           /\ Len(q.results) <= limit /\ (q.truncated => Len(q.results) = limit)
           /\ q.truncated = (shown # matching) /\ q.total_matches = Cardinality(matching)
  <1>1. Records(matching)
    BY Zenon, FS_Subset DEF Records
  <1>2. PICK f : /\ Sorts(f, matching, Latest(matching))
                 /\ f = Sorted(matching, compare_execution_records_for_query)
    BY Zenon, <1>1, RecordsSorted
  <1>3. PICK t : t = Take(f, limit)
    BY Zenon
  <1>4. q = [results |-> t, total_matches |-> Len(f), truncated |-> Len(f) > Len(t)]
    BY Zenon, <1>2, <1>3 DEF query_execution_records
  <1>5. q.results = t /\ q.total_matches = Len(f) /\ q.truncated = (Len(f) > Len(t))
    BY <1>4
  <1>6. IsFront(f, t, matching, limit, shown)
    BY Zenon, <1>1, <1>2, <1>3, <1>5, FrontOfSorting
  <1>7. q.truncated = (shown # matching)
    BY <1>5, <1>6 DEF IsFront
  <1>8. q.truncated => Len(q.results) = limit
    BY <1>5, <1>6, Zenon DEF IsFront
  <1> QED
    BY <1>5, <1>6, <1>7, <1>8, Zenon DEF IsFront

-----------------------------------------------------------------------------
(* The list of resources *)

AllUris ==
    [kind : {"inspect", "execution", "payload", "metadata", "blob"} \cup QueryKinds, id : Nat]

\* Evidence is told apart by its identifiers.
Proofs(V) == IsFiniteSet(V) /\ V \subseteq Nat

\* Resources, for the records E and the evidence V.
Listing(E, V) ==
    LET records == Take(Sorted(E, compare_execution_records_for_query), RecentLimit)
        proofs == Take(Sorted(V, compare_evidence_records_desc), RecentLimit)
    IN  <<recent_executions_query_resource, recent_failures_query_resource>>
            \o [i \in DOMAIN records |-> execution_record_to_resource(records[i])]
            \o [i \in DOMAIN proofs |-> evidence_metadata_resource(proofs[i])]

Recent(n) == IF RecentLimit < n THEN RecentLimit ELSE n

\* items lists two queries, the first n of es and the first m of vs.
ListsFirst(items, es, vs, n, m) ==
    /\ items \in Seq(AllUris) /\ Len(items) = 2 + n + m
    /\ items[1] = recent_executions_query_resource /\ items[2] = recent_failures_query_resource
    /\ \A i \in 1..n : items[2 + i] = Uri("execution", es[i].id)
    /\ \A i \in 1..m : items[2 + n + i] = Uri("metadata", vs[i])

ListsRecent(items, E, V) ==
    \E es, vs :
        /\ Sorts(es, E, Latest(E)) /\ Sorts(vs, V, Larger(V))
        /\ ListsFirst(items, es, vs, Recent(Cardinality(E)), Recent(Cardinality(V)))

TakesRecent(t, s, n, S) ==
    t \in [1..Recent(n) -> S] /\ Recent(n) \in Nat /\ \A i \in 1..Recent(n) : t[i] = s[i]

\* What is taken of a sorting, as resources.
LEMMA ResourcesOf ==
    ASSUME NEW S, NEW n \in Nat, NEW s \in [1..n -> S], NEW t, t = Take(s, RecentLimit)
    PROVE  TakesRecent(t, s, n, S)
  <1>1. s \in Seq(S) /\ Len(s) = n
    BY Zenon, FunctionsAreSequences
  <1>2. RecentLimit \in Nat
    BY Zenon, BoundsAssumption
  <1>3. /\ t \in Seq(S) /\ Len(t) = (IF RecentLimit < Len(s) THEN RecentLimit ELSE Len(s))
        /\ \A i \in 1..Len(t) : t[i] = s[i]
    BY <1>1, <1>2, Taken
  <1>4. Len(t) = Recent(n)
    BY Zenon, <1>1, <1>3 DEF Recent
  <1>5. t \in [1..Len(t) -> S] /\ Len(t) \in Nat
    BY Zenon, <1>3, LengthOf
  <1> QED
    BY Zenon, <1>3, <1>4, <1>5 DEF TakesRecent

Joins(items, a, b, n, m) ==
    /\ items \in Seq(AllUris) /\ Len(items) = 2 + n + m
    /\ items[1] = recent_executions_query_resource
    /\ items[2] = recent_failures_query_resource
    /\ \A i \in 1..n : items[2 + i] = a[i]
    /\ \A i \in 1..m : items[2 + n + i] = b[i]

\* Concatenating the three parts.
LEMMA ThreeParts ==
    ASSUME NEW n \in Nat, NEW m \in Nat, NEW a \in [1..n -> AllUris], NEW b \in [1..m -> AllUris],
           NEW items,
           items = <<recent_executions_query_resource, recent_failures_query_resource>> \o a \o b
    PROVE  Joins(items, a, b, n, m)
  <1> DEFINE h == <<recent_executions_query_resource, recent_failures_query_resource>>
             c == h \o a
  <1>1. a \in Seq(AllUris) /\ Len(a) = n /\ b \in Seq(AllUris) /\ Len(b) = m
    BY Zenon, FunctionsAreSequences
  <1>2. recent_executions_query_resource \in AllUris /\ recent_failures_query_resource \in AllUris
    BY Zenon DEF recent_executions_query_resource, recent_failures_query_resource, AllUris, QueryKinds, Uri
  <1>3. h \in Seq(AllUris) /\ Len(h) = 2
    BY <1>2
  <1>4. h[1] = recent_executions_query_resource /\ h[2] = recent_failures_query_resource
    BY Zenon
  <1>5. items = c \o b
    BY Zenon
  <1> HIDE DEF h
  <1>6. /\ c \in Seq(AllUris) /\ Len(c) = Len(h) + Len(a)
        /\ \A i \in 1..(Len(h) + Len(a)) : c[i] = IF i <= Len(h) THEN h[i] ELSE a[i - Len(h)]
    BY <1>1, <1>3, Joined, Zenon
  <1> HIDE DEF c
  <1>7. /\ items \in Seq(AllUris) /\ Len(items) = Len(c) + Len(b)
        /\ \A i \in 1..(Len(c) + Len(b)) : items[i] = IF i <= Len(c) THEN c[i] ELSE b[i - Len(c)]
    <2>0. c \in Seq(AllUris) /\ b \in Seq(AllUris)
      BY Zenon, <1>1, <1>6
    <2>1. /\ c \o b \in Seq(AllUris) /\ Len(c \o b) = Len(c) + Len(b)
          /\ \A i \in 1..(Len(c) + Len(b)) :
                (c \o b)[i] = IF i <= Len(c) THEN c[i] ELSE b[i - Len(c)]
      BY <2>0, Joined, Zenon
    <2> QED
      BY <1>5, <2>1, Zenon
  <1>8. Len(c) = 2 + n
    BY Zenon, <1>1, <1>3, <1>6
  <1>9. ASSUME NEW i \in 1..(2 + n) PROVE items[i] = c[i]
    BY <1>1, <1>7, <1>8
  <1>10. ASSUME NEW i \in 1..n PROVE items[2 + i] = a[i]
    <2>1. 2 + i \in 1..(2 + n) /\ ~(2 + i <= 2) /\ 2 + i - 2 = i
      OBVIOUS
    <2>2. c[2 + i] = a[2 + i - 2]
      BY <1>1, <1>3, <1>6, <2>1
    <2> QED
      BY Zenon, <1>9, <2>1, <2>2
  <1>11. ASSUME NEW i \in 1..m PROVE items[2 + n + i] = b[i]
    <2>1. 2 + n + i \in 1..(2 + n + m) /\ ~(2 + n + i <= 2 + n) /\ 2 + n + i - (2 + n) = i
      OBVIOUS
    <2> QED
      BY <1>1, <1>7, <1>8, <2>1
  <1>12. items[1] = h[1] /\ items[2] = h[2]
    BY <1>1, <1>3, <1>6, <1>9
  <1> QED
    BY Zenon, <1>1, <1>4, <1>7, <1>8, <1>10, <1>11, <1>12 DEF Joins

\* The list is that of the latest records and of the evidence with the largest identifiers.
LEMMA ListingIsRecent ==
    ASSUME NEW E, Records(E), NEW V, Proofs(V)
    PROVE  ListsRecent(Listing(E, V), E, V)
  <1>1. PICK es : es = Sorted(E, compare_execution_records_for_query) /\ Sorts(es, E, Latest(E))
    BY Zenon, RecordsSorted
  <1>2. PICK vs : vs = Sorted(V, compare_evidence_records_desc) /\ Sorts(vs, V, Larger(V))
    BY Zenon, EvidenceSorted DEF Proofs
  <1> DEFINE n == Cardinality(E)
             m == Cardinality(V)
  <1>3. n \in Nat /\ m \in Nat /\ es \in [1..n -> E] /\ vs \in [1..m -> V]
    BY Zenon, <1>1, <1>2, FS_CardinalityType DEF Records, Proofs, Sorts
  <1>4. PICK records : records = Take(es, RecentLimit)
    BY Zenon
  <1>5. PICK proofs : proofs = Take(vs, RecentLimit)
    BY Zenon
  <1> HIDE DEF n, m
  <1>6. TakesRecent(records, es, n, E)
    BY Zenon, <1>3, <1>4, ResourcesOf
  <1>7. TakesRecent(proofs, vs, m, V)
    BY Zenon, <1>3, <1>5, ResourcesOf
  <1>8. PICK a : a = [i \in DOMAIN records |-> execution_record_to_resource(records[i])]
    BY Zenon
  <1>9. PICK b : b = [i \in DOMAIN proofs |-> evidence_metadata_resource(proofs[i])]
    BY Zenon
  <1>10. a \in [1..Recent(n) -> AllUris] /\ \A i \in 1..Recent(n) : a[i] = Uri("execution", es[i].id)
    <2>1. \A r \in E : Uri("execution", r.id) \in AllUris
      BY Zenon DEF Records, AllUris, Uri
    <2> QED
      BY Zenon, <1>6, <1>8, <2>1 DEF execution_record_to_resource, TakesRecent
  <1>11. b \in [1..Recent(m) -> AllUris] /\ \A i \in 1..Recent(m) : b[i] = Uri("metadata", vs[i])
    <2>1. \A e \in V : Uri("metadata", e) \in AllUris
      BY Zenon DEF Proofs, AllUris, Uri
    <2> QED
      BY Zenon, <1>7, <1>9, <2>1 DEF evidence_metadata_resource, TakesRecent
  <1>12. PICK items : items = Listing(E, V)
    BY Zenon
  <1>13. items = <<recent_executions_query_resource, recent_failures_query_resource>> \o a \o b
    BY Zenon, <1>1, <1>2, <1>4, <1>5, <1>8, <1>9, <1>12 DEF Listing
  <1>14. ListsFirst(items, es, vs, Recent(n), Recent(m))
    <2>1. Joins(items, a, b, Recent(n), Recent(m))
      <3>1. Recent(n) \in Nat /\ Recent(m) \in Nat
        BY Zenon, <1>6, <1>7 DEF TakesRecent
      <3>2. a \in [1..Recent(n) -> AllUris] /\ b \in [1..Recent(m) -> AllUris]
        BY Zenon, <1>10, <1>11
      <3> QED
        BY <1>13, <3>1, <3>2, ThreeParts, Zenon
    <2> QED
      BY Zenon, <1>10, <1>11, <2>1 DEF ListsFirst, Joins
  <1> QED
    BY Zenon, <1>1, <1>2, <1>12, <1>14 DEF ListsRecent, n, m

\* What the list may hold when E and V are stored.
Uris(E, V) ==
    {recent_executions_query_resource, recent_failures_query_resource}
        \cup {Uri("execution", r.id) : r \in E} \cup {Uri("metadata", e) : e \in V}

\* Which resources are in it.
LEMMA UrisOf ==
    ASSUME NEW E, NEW V, NEW x
    PROVE  /\ Uri("execution", x) \in Uris(E, V) => \E r \in E : r.id = x
           /\ Uri("metadata", x) \in Uris(E, V) => x \in V
  <1>1. ASSUME NEW k, NEW u, NEW l, NEW y, u = Uri(k, x), u = Uri(l, y) PROVE k = l /\ x = y
    <2>1. u.kind = k /\ u.id = x
      BY <1>1 DEF Uri
    <2>2. u.kind = l /\ u.id = y
      BY <1>1 DEF Uri
    <2> QED
      BY Zenon, <2>1, <2>2
  <1>2. /\ Uri("execution", x) \notin {Uri("recent", 10), Uri("failures", 10)}
        /\ Uri("metadata", x) \notin {Uri("recent", 10), Uri("failures", 10)}
        /\ \A y : Uri("execution", x) # Uri("metadata", y) /\ Uri("metadata", x) # Uri("execution", y)
    BY <1>1
  <1>3. ASSUME Uri("execution", x) \in Uris(E, V) PROVE \E r \in E : r.id = x
    <2>1. PICK r \in E : Uri("execution", x) = Uri("execution", r.id)
      BY Zenon, <1>2, <1>3 DEF Uris, recent_executions_query_resource, recent_failures_query_resource
    <2> QED
      BY Zenon, <1>1, <2>1
  <1>4. ASSUME Uri("metadata", x) \in Uris(E, V) PROVE x \in V
    <2>1. PICK e \in V : Uri("metadata", x) = Uri("metadata", e)
      BY Zenon, <1>2, <1>4 DEF Uris, recent_executions_query_resource, recent_failures_query_resource
    <2> QED
      BY <1>1, <2>1
  <1> QED
    BY Zenon, <1>3, <1>4

\* The place of an item tells which part of the list it belongs to.
LEMMA Places ==
    ASSUME NEW n \in Nat, NEW m \in Nat, NEW i \in 1..(2 + n + m)
    PROVE  i = 1 \/ i = 2 \/ (\E k \in 1..n : i = 2 + k) \/ (\E k \in 1..m : i = 2 + n + k)
  <1>1. CASE i > 2 /\ i <= 2 + n
    <2>1. i - 2 \in 1..n /\ i = 2 + (i - 2)
      BY <1>1
    <2> QED
      BY Zenon, <2>1
  <1>2. CASE i > 2 + n
    <2>1. i - (2 + n) \in 1..m /\ i = 2 + n + (i - (2 + n))
      BY <1>2
    <2> QED
      BY Zenon, <2>1
  <1> QED
    BY <1>1, <1>2

\* What is listed is stored.
LEMMA ListedIsStored ==
    ASSUME NEW E, Records(E), NEW V, Proofs(V), NEW items, ListsRecent(items, E, V),
           NEW i \in 1..Len(items)
    PROVE  items[i] \in Uris(E, V) /\ items[i] \in AllUris
  <1>1. PICK es, vs : /\ Sorts(es, E, Latest(E)) /\ Sorts(vs, V, Larger(V))
                      /\ ListsFirst(items, es, vs, Recent(Cardinality(E)), Recent(Cardinality(V)))
    BY Zenon DEF ListsRecent
  <1>2. items \in Seq(AllUris)
    BY Zenon, <1>1 DEF ListsFirst
  <1>3. items[i] \in AllUris
    BY Zenon, <1>2, LengthOf
  <1> DEFINE n == Recent(Cardinality(E))
             m == Recent(Cardinality(V))
  <1>4. /\ Cardinality(E) \in Nat /\ Cardinality(V) \in Nat /\ RecentLimit \in Nat
        /\ n \in Nat /\ n <= Cardinality(E) /\ m \in Nat /\ m <= Cardinality(V)
    BY FS_CardinalityType, BoundsAssumption DEF Records, Proofs, Recent
  <1>5. /\ \A k \in 1..n : es[k] \in E
        /\ \A k \in 1..m : vs[k] \in V
    BY SMTT(30), <1>1, <1>4 DEF Sorts
  <1> HIDE DEF n, m
  <1>6. i \in 1..(2 + n + m)
    BY Zenon, <1>1 DEF ListsFirst, n, m
  <1>7. i = 1 \/ i = 2 \/ (\E k \in 1..n : i = 2 + k) \/ (\E k \in 1..m : i = 2 + n + k)
    BY Zenon, <1>4, <1>6, Places
  <1>8. ListsFirst(items, es, vs, n, m)
    BY Zenon, <1>1 DEF n, m
  <1>9. items[i] \in Uris(E, V)
    BY Zenon, <1>5, <1>7, <1>8 DEF ListsFirst, Uris
  <1> QED
    BY Zenon, <1>3, <1>9

MovesBack(old, new, S) ==
    /\ Len(old) <= Len(new)
    /\ \A i \in 1..Len(new) : new[i] \in S => \E j \in 1..Len(old) : j <= i /\ old[j] = new[i]

\* Records and evidence are only added: what is at a place of the list of resources and was
\* stored before was at that place or before it, and the list does not get shorter.
LEMMA ItemsMoveBack ==
    ASSUME NEW E, NEW F, E \subseteq F, Records(F), NEW V, NEW W, V \subseteq W, Proofs(W),
           NEW old, ListsRecent(old, E, V), NEW new, ListsRecent(new, F, W)
    PROVE  MovesBack(old, new, Uris(E, V))
  <1>1. Records(E) /\ Proofs(V)
    <2>1. IsFiniteSet(F) /\ IsFiniteSet(W)
      BY Zenon DEF Records, Proofs
    <2>2. IsFiniteSet(E) /\ IsFiniteSet(V)
      BY Zenon, <2>1, FS_Subset
    <2>3. Records(E)
      BY Zenon, <2>2 DEF Records
    <2>4. Proofs(V)
      BY Zenon, <2>2 DEF Proofs
    <2> QED
      BY Zenon, <2>3, <2>4
  <1>2. PICK es, vs : /\ Sorts(es, E, Latest(E)) /\ Sorts(vs, V, Larger(V))
                      /\ ListsFirst(old, es, vs, Recent(Cardinality(E)), Recent(Cardinality(V)))
    BY Zenon DEF ListsRecent
  <1>3. PICK fs, ws : /\ Sorts(fs, F, Latest(F)) /\ Sorts(ws, W, Larger(W))
                      /\ ListsFirst(new, fs, ws, Recent(Cardinality(F)), Recent(Cardinality(W)))
    BY Zenon DEF ListsRecent
  <1> DEFINE n == Recent(Cardinality(E))
             m == Recent(Cardinality(V))
             p == Recent(Cardinality(F))
             q == Recent(Cardinality(W))
  <1>4. /\ Cardinality(E) \in Nat /\ Cardinality(F) \in Nat /\ Cardinality(E) <= Cardinality(F)
        /\ Cardinality(V) \in Nat /\ Cardinality(W) \in Nat /\ Cardinality(V) <= Cardinality(W)
    <2>1. IsFiniteSet(E) /\ IsFiniteSet(F) /\ IsFiniteSet(V) /\ IsFiniteSet(W)
      BY Zenon, <1>1 DEF Records, Proofs
    <2> QED
      BY Zenon, <2>1, FS_CardinalityType, FS_Subset
  <1>5. /\ n \in Nat /\ m \in Nat /\ p \in Nat /\ q \in Nat /\ n <= p /\ m <= q
        /\ p <= Cardinality(F) /\ q <= Cardinality(W)
        /\ \A k \in Nat : k <= p /\ k <= Cardinality(E) => k <= n
        /\ \A k \in Nat : k <= q /\ k <= Cardinality(V) => k <= m
    BY SMTT(30), <1>4, BoundsAssumption DEF Recent
  <1>6. Sorts(es, E, Latest(F)) /\ Sorts(vs, V, Larger(W))
    BY Zenon, <1>2 DEF Sorts, Latest, Larger
  <1>7. ASSUME NEW k \in 1..p, fs[k] \in E
        PROVE  \E j \in 1..n : j <= k /\ es[j] = fs[k]
    <2>1. k \in 1..Cardinality(F)
      BY <1>4, <1>5
    <2>2. IsFiniteSet(F) /\ Orders(Latest(F), F)
      BY Zenon, RecordsAreOrdered DEF Records
    <2>3. PICK j \in 1..Cardinality(E) : j <= k /\ es[j] = fs[k]
      BY SMTT(30), <1>3, <1>6, <1>7, <2>1, <2>2, MembersMoveBack
    <2>4. j \in 1..n
      BY <1>4, <1>5, <2>3
    <2> QED
      BY Zenon, <2>3, <2>4
  <1>8. ASSUME NEW k \in 1..q, ws[k] \in V
        PROVE  \E j \in 1..m : j <= k /\ vs[j] = ws[k]
    <2>1. k \in 1..Cardinality(W)
      BY <1>4, <1>5
    <2>2. IsFiniteSet(W) /\ Orders(Larger(W), W)
      BY Zenon, EvidenceIsOrdered DEF Proofs
    <2>3. PICK j \in 1..Cardinality(V) : j <= k /\ vs[j] = ws[k]
      BY SMTT(30), <1>3, <1>6, <1>8, <2>1, <2>2, MembersMoveBack
    <2>4. j \in 1..m
      BY <1>4, <1>5, <2>3
    <2> QED
      BY Zenon, <2>3, <2>4
  <1>9. ListsFirst(old, es, vs, n, m) /\ ListsFirst(new, fs, ws, p, q)
    BY Zenon, <1>2, <1>3
  <1>10. /\ \A k \in 1..p : fs[k] \in F
         /\ \A k \in 1..q : ws[k] \in W
    BY SMTT(30), <1>3, <1>4, <1>5 DEF Sorts
  <1> HIDE DEF n, m, p, q
  <1>11. Len(old) <= Len(new) /\ Len(old) = 2 + n + m /\ Len(new) = 2 + p + q
    BY <1>5, <1>9 DEF ListsFirst
  <1>12. ASSUME NEW i \in 1..Len(new), new[i] \in Uris(E, V)
         PROVE  \E j \in 1..Len(old) : j <= i /\ old[j] = new[i]
    <2>1. i = 1 \/ i = 2 \/ (\E k \in 1..p : i = 2 + k) \/ (\E k \in 1..q : i = 2 + p + k)
      BY SMTT(30), <1>5, <1>11, Places
    <2>2. CASE i = 1 \/ i = 2
      BY <1>5, <1>9, <1>11, <2>2 DEF ListsFirst
    <2>3. ASSUME NEW k \in 1..p, i = 2 + k PROVE \E j \in 1..Len(old) : j <= i /\ old[j] = new[i]
      <3>1. new[i] = Uri("execution", fs[k].id)
        BY Zenon, <1>9, <2>3 DEF ListsFirst
      <3>2. \E r \in E : r.id = fs[k].id
        BY SMTT(30), <1>12, <3>1, UrisOf
      <3>3. fs[k] \in E
        BY Zenon, <1>10, <3>2 DEF Records
      <3>4. PICK j \in 1..n : j <= k /\ es[j] = fs[k]
        BY Zenon, <1>7, <3>3
      <3>5. old[2 + j] = new[i] /\ 2 + j \in 1..Len(old) /\ 2 + j <= i
        BY SMTT(30), <1>5, <1>9, <1>11, <2>3, <3>1, <3>4 DEF ListsFirst
      <3> QED
        BY Zenon, <3>5
    <2>4. ASSUME NEW k \in 1..q, i = 2 + p + k PROVE \E j \in 1..Len(old) : j <= i /\ old[j] = new[i]
      <3>1. new[i] = Uri("metadata", ws[k])
        BY ZenonT(30), <1>9, <2>4 DEF ListsFirst
      <3>2. ws[k] \in V
        BY <1>12, <3>1, UrisOf
      <3>4. PICK j \in 1..m : j <= k /\ vs[j] = ws[k]
        BY Zenon, <1>8, <3>2
      <3>5. old[2 + n + j] = new[i] /\ 2 + n + j \in 1..Len(old) /\ 2 + n + j <= i
        BY SMTT(30), <1>5, <1>9, <1>11, <2>4, <3>1, <3>4 DEF ListsFirst
      <3> QED
        BY Zenon, <3>5
    <2> QED
      BY Zenon, <2>1, <2>2, <2>3, <2>4
  <1> QED
    BY Zenon, <1>11, <1>12 DEF MovesBack

\* No resource is listed twice.
LEMMA ListIsDistinct ==
    ASSUME NEW E, Records(E), NEW V, Proofs(V), NEW items, ListsRecent(items, E, V),
           NEW i \in 1..Len(items), NEW j \in 1..Len(items), items[i] = items[j]
    PROVE  i = j
  <1>1. PICK es, vs : /\ Sorts(es, E, Latest(E)) /\ Sorts(vs, V, Larger(V))
                      /\ ListsFirst(items, es, vs, Recent(Cardinality(E)), Recent(Cardinality(V)))
    BY Zenon DEF ListsRecent
  <1> DEFINE n == Recent(Cardinality(E))
             m == Recent(Cardinality(V))
  <1>2. /\ Cardinality(E) \in Nat /\ Cardinality(V) \in Nat /\ RecentLimit \in Nat
        /\ n \in Nat /\ n <= Cardinality(E) /\ m \in Nat /\ m <= Cardinality(V)
    BY FS_CardinalityType, BoundsAssumption DEF Records, Proofs, Recent
  <1>3. \A k, l \in 1..n : es[k].id = es[l].id => k = l
    <2>1. \A k, l \in 1..Cardinality(E) : es[k] = es[l] => k = l
      <3>1. IsFiniteSet(E) /\ Orders(Latest(E), E)
        BY Zenon, RecordsAreOrdered DEF Records
      <3> QED
        BY Zenon, <1>1, <3>1, SortingIsOnto
    <2>2. \A k \in 1..Cardinality(E) : es[k] \in E
      BY Zenon, <1>1 DEF Sorts
    <2>3. \A k, l \in 1..Cardinality(E) : es[k].id = es[l].id => es[k] = es[l]
      BY Zenon, <2>2 DEF Records
    <2> QED
      BY SMTT(30), <1>2, <2>1, <2>3
  <1>4. \A k, l \in 1..m : vs[k] = vs[l] => k = l
    <2>1. \A k, l \in 1..Cardinality(V) : vs[k] = vs[l] => k = l
      <3>1. IsFiniteSet(V) /\ Orders(Larger(V), V)
        BY Zenon, EvidenceIsOrdered DEF Proofs
      <3> QED
        BY Zenon, <1>1, <3>1, SortingIsOnto
    <2> QED
      BY <1>2, <2>1
  <1>5. ListsFirst(items, es, vs, n, m)
    BY Zenon, <1>1
  <1> HIDE DEF n, m
  <1>6. ASSUME NEW h \in 1..Len(items)
        PROVE  \/ h = 1 /\ items[h].kind = "recent"
               \/ h = 2 /\ items[h].kind = "failures"
               \/ \E k \in 1..n : h = 2 + k /\ items[h].kind = "execution" /\ items[h].id = es[k].id
               \/ \E k \in 1..m : h = 2 + n + k /\ items[h].kind = "metadata" /\ items[h].id = vs[k]
    <2>1. h = 1 \/ h = 2 \/ (\E k \in 1..n : h = 2 + k) \/ (\E k \in 1..m : h = 2 + n + k)
      BY SMTT(30), <1>2, <1>5, Places DEF ListsFirst
    <2>2. /\ items[1].kind = "recent" /\ items[2].kind = "failures"
          /\ \A k \in 1..n : items[2 + k].kind = "execution" /\ items[2 + k].id = es[k].id
          /\ \A k \in 1..m : items[2 + n + k].kind = "metadata" /\ items[2 + n + k].id = vs[k]
      <3>1. \A kind, id : Uri(kind, id).kind = kind /\ Uri(kind, id).id = id
        BY Zenon DEF Uri
      <3> QED
        BY <1>5, <3>1 DEF ListsFirst, recent_executions_query_resource, recent_failures_query_resource
    <2> QED
      BY SMTT(30), <2>1, <2>2
  <1> QED
    BY <1>3, <1>4, <1>6

\* If everything that is now listed was stored before, the list is what it was before.
LEMMA ListIsTheSame ==
    ASSUME NEW E, NEW F, E \subseteq F, Records(F), NEW V, NEW W, V \subseteq W, Proofs(W),
           NEW old, ListsRecent(old, E, V), NEW new, ListsRecent(new, F, W),
           \A i \in 1..Len(new) : new[i] \in Uris(E, V)
    PROVE  old = new
  <1>1. /\ Len(old) <= Len(new)
        /\ \A i \in 1..Len(new) : \E j \in 1..Len(old) : j <= i /\ old[j] = new[i]
    <2>1. MovesBack(old, new, Uris(E, V))
      BY Zenon, ItemsMoveBack
    <2> QED
      BY Zenon, <2>1 DEF MovesBack
  <1>2. \A i, j \in 1..Len(new) : new[i] = new[j] => i = j
    BY Zenon, ListIsDistinct
  <1>3. old \in Seq(AllUris) /\ new \in Seq(AllUris) /\ Len(old) \in Nat /\ Len(new) \in Nat
    BY ZenonT(30), LengthOf DEF ListsRecent, ListsFirst
  <1>4. ASSUME NEW i \in 1..Len(new) PROVE i \in 1..Len(old) /\ old[i] = new[i]
    <2> DEFINE f == [k \in 1..i |-> CHOOSE j \in 1..Len(old) : j <= k /\ old[j] = new[k]]
               D == 1..i
    <2>1. \A k \in 1..i : k \in 1..Len(new) /\ k \in Nat
      BY <1>3
    <2>2. \A k \in 1..i : f[k] \in 1..Len(old) /\ f[k] <= k /\ old[f[k]] = new[k]
      BY ZenonT(30), <1>1, <2>1
    <2>3. \A k \in 1..i : f[k] \in 1..i
      BY SMTT(30), <1>3, <2>1, <2>2
    <2>4. f \in [D -> D]
      BY Zenon, <2>3
    <2> HIDE DEF f
    <2>5. \A k, l \in D : f[k] = f[l] => k = l
      BY <1>2, <2>1, <2>2
    <2>6. IsFiniteSet(D)
      BY <1>3, FS_Interval
    <2> HIDE DEF D
    <2>7. f \in Injection(D, D)
      BY Zenon, <2>4, <2>5, IsInjection
    <2>8. f \in Surjection(D, D)
      BY Zenon, <2>6, <2>7, FS_Injection
    <2>9. \A j \in D : \E k \in D : f[k] = j
      BY <2>8, Hits
    <2>10. i \in D
      BY <1>3 DEF D
    <2>11. PICK k \in 1..i : f[k] = i
      BY Zenon, <2>9, <2>10 DEF D
    <2>12. k = i
      BY <1>3, <2>2, <2>11
    <2> QED
      BY Zenon, <2>2, <2>11, <2>12
  <1>5. Len(old) = Len(new)
    <2>1. CASE Len(new) = 0
      BY <1>1, <1>3, <2>1
    <2>2. CASE Len(new) > 0
      <3>1. Len(new) \in 1..Len(new)
        BY <1>3, <2>2
      <3>2. Len(new) \in 1..Len(old)
        BY Zenon, <1>4, <3>1
      <3> QED
        BY <1>1, <1>3, <3>2
    <2> QED
      BY <1>3, <2>1, <2>2
  <1> QED
    BY Zenon, <1>3, <1>4, <1>5, SameSequence

-----------------------------------------------------------------------------
(* What is stored *)

\* The inductive invariant of the store and of the call that is being executed.
Stored ==
    /\ Records(executions) /\ Proofs(evidence) /\ clock \in Nat
    /\ \A r \in executions : r.id \in ExecutionIds \ partial /\ r.finished <= clock
    /\ \A r \in executions :
        r.evidence \subseteq evidence /\ \A c \in r.children : \E s \in executions : s.id = c
    /\ evidence \subseteq EvidenceIds /\ partial \subseteq ExecutionIds
    /\ call # None =>
        /\ call = [id |-> call.id, started |-> call.started, record |-> call.record]
        /\ call.id \in ExecutionIds /\ call.started \in Nat
        /\ call.record # None => call.record \in executions /\ call.record.id = call.id

Grows == executions \subseteq executions' /\ evidence \subseteq evidence'

\* A record with a new identifier is told apart from the others.
LEMMA AddRecord ==
    ASSUME NEW E, Records(E), NEW r, r.id \in Nat, r.started \in Nat, r.finished \in Nat,
           \A s \in E : s.id # r.id
    PROVE  Records(E \cup {r})
  <1>1. IsFiniteSet(E \cup {r})
    BY Zenon, FS_AddElement DEF Records
  <1> QED
    BY Zenon, <1>1 DEF Records

\* The record of a call, or of its child.
Rec(status, t, id, kids, evs) ==
    [id |-> id, skill |-> "ours", status |-> status, started |-> call.started, finished |-> t,
     evidence |-> evs, children |-> kids]

\* persist_execution_record, for a call without children and for one with a child.
LEMMA PersistsStored ==
    ASSUME Stored, call # None, call.id \in FreshIds, NEW status, NEW child, child \subseteq FreshIds,
           child \in {{}, {call.id + 1}}, NEW new \in {{}} \cup {{e} : e \in EvidenceIds \ evidence},
           executions' = executions \cup {Rec(status, clock + 1, c, {}, {}) : c \in child}
                                    \cup {Rec(status, clock + 1, call.id, child, new)},
           evidence' = evidence \cup new, clock' = clock + 1, partial' = partial,
           call' = [call EXCEPT !.record = Rec(status, clock + 1, call.id, child, new)]
    PROVE  Stored' /\ Grows
  <1>1. Grows
    BY Zenon DEF Grows
  <1> DEFINE kids == {Rec(status, clock + 1, c, {}, {}) : c \in child}
             r == Rec(status, clock + 1, call.id, child, new)
  <1>2. /\ clock + 1 \in Nat /\ call.started \in Nat /\ call.id \in Nat
        /\ call.id \notin child /\ child \subseteq Nat
        /\ \A c \in child \cup {call.id} : c \in ExecutionIds \ partial /\ \A s \in executions : s.id # c
    BY BoundsAssumption DEF Stored, FreshIds
  <1>3. /\ \A id, ks, vs : Rec(status, clock + 1, id, ks, vs).id = id
        /\ \A id, ks, vs : Rec(status, clock + 1, id, ks, vs).started = call.started
        /\ \A id, ks, vs : Rec(status, clock + 1, id, ks, vs).finished = clock + 1
        /\ \A id, ks, vs : Rec(status, clock + 1, id, ks, vs).children = ks
        /\ \A id, ks, vs : Rec(status, clock + 1, id, ks, vs).evidence = vs
    BY Zenon DEF Rec
  <1>4. Records(executions \cup kids)
    <2>1. CASE child = {}
      <3>1. kids = {}
        BY Zenon, <2>1
      <3> HIDE DEF kids
      <3>2. executions \cup kids = executions
        BY Zenon, <3>1
      <3>3. Records(executions)
        BY Zenon DEF Stored
      <3> QED
        BY <3>2, <3>3, Zenon
    <2>2. CASE child = {call.id + 1}
      <3>1. PICK k : k = Rec(status, clock + 1, call.id + 1, {}, {})
        BY Zenon
      <3>2. kids = {k}
        BY Zenon, <2>2, <3>1
      <3>3. k.id \in Nat /\ k.started \in Nat /\ k.finished \in Nat /\ \A s \in executions : s.id # k.id
        BY <1>2, <1>3, <2>2, <3>1
      <3>4. Records(executions \cup {k})
        BY Zenon, <3>3, AddRecord DEF Stored
      <3> QED
        BY Zenon, <3>2, <3>4
    <2> QED
      BY Zenon, <2>1, <2>2
  <1>5. Records(executions')
    <2>1. PICK E : E = executions \cup kids
      BY Zenon
    <2>2. PICK x : x = r
      BY Zenon
    <2>3. x.id \in Nat /\ x.started \in Nat /\ x.finished \in Nat
      BY <1>2, <1>3, <2>2
    <2>4. \A s \in E : s.id # x.id
      BY <1>2, <1>3, <2>1, <2>2
    <2>5. Records(E \cup {x})
      BY Zenon, <1>4, <2>1, <2>3, <2>4, AddRecord
    <2> QED
      BY Zenon, <2>1, <2>2, <2>5
  <1>6. Proofs(evidence') /\ evidence' \subseteq EvidenceIds
    <2>1. CASE new = {}
      BY Zenon, <2>1 DEF Stored
    <2>2. ASSUME NEW e \in EvidenceIds, new = {e}
          PROVE  Proofs(evidence') /\ evidence' \subseteq EvidenceIds
      <3>1. IsFiniteSet(evidence) /\ evidence \subseteq EvidenceIds
        BY Zenon DEF Stored, Proofs
      <3>2. IsFiniteSet(evidence \cup {e})
        BY Zenon, <3>1, FS_AddElement
      <3>3. evidence' = evidence \cup {e}
        BY Zenon, <2>2
      <3>4. IsFiniteSet(evidence')
        BY <3>2, <3>3, Zenon
      <3> QED
        BY Zenon, <3>1, <3>3, <3>4, BoundsAssumption DEF Proofs
    <2> QED
      BY Zenon, <2>1, <2>2
  <1>7. \A s \in executions' : s.id \in ExecutionIds \ partial' /\ s.finished <= clock'
    BY <1>2, <1>3 DEF Stored, Records
  <1>8. \A s \in executions' :
            s.evidence \subseteq evidence' /\ \A c \in s.children : \E u \in executions' : u.id = c
    <2> SUFFICES ASSUME NEW s \in executions'
                 PROVE  s.evidence \subseteq evidence' /\ \A c \in s.children : \E u \in executions' : u.id = c
      BY Zenon
    <2>1. CASE s \in executions
      BY Zenon, <2>1 DEF Stored
    <2>2. CASE s \in kids
      BY <1>3, <2>2
    <2>3. CASE s = r
      <3>1. s.evidence = new /\ s.children = child
        BY <1>3, <2>3
      <3>2. \A c \in child : \E u \in kids : u.id = c
        BY <1>3
      <3> QED
        BY Zenon, <3>1, <3>2
    <2> QED
      BY Zenon, <2>1, <2>2, <2>3
  <1>9. /\ call' = [id |-> call.id, started |-> call.started, record |-> r]
        /\ r \in executions' /\ r.id = call.id
    BY <1>3 DEF Stored
  <1>10. call' # None =>
            /\ call' = [id |-> call'.id, started |-> call'.started, record |-> call'.record]
            /\ call'.id \in ExecutionIds /\ call'.started \in Nat
            /\ call'.record # None => call'.record \in executions' /\ call'.record.id = call'.id
    BY Zenon, <1>2, <1>9 DEF Stored
  <1>11. clock' \in Nat /\ partial' \subseteq ExecutionIds
    BY Zenon, <1>2 DEF Stored
  <1> QED
    BY Zenon, <1>1, <1>5, <1>6, <1>7, <1>8, <1>10, <1>11 DEF Stored

\* Another process's record, which was created before.
LEMMA OtherWritesStored ==
    ASSUME Stored, OtherWrites
    PROVE  Stored' /\ Grows
  <1>0. PICK id \in partial, t \in {clock, clock + 1} :
            /\ executions' = executions \cup
                    {[id |-> id, skill |-> "other", status |-> "rejected", started |-> 0,
                      finished |-> t, evidence |-> {}, children |-> {}]}
            /\ partial' = partial \ {id} /\ clock' = t
            /\ UNCHANGED <<evidence, call>>
    BY Zenon DEF OtherWrites
  <1>1. PICK r :
            /\ r = [id |-> id, skill |-> "other", status |-> "rejected", started |-> 0,
                    finished |-> t, evidence |-> {}, children |-> {}]
            /\ executions' = executions \cup {r} /\ partial' = partial \ {id} /\ clock' = t
            /\ UNCHANGED <<evidence, call>>
    BY <1>0, Zenon
  <1>2. /\ r.id = id /\ r.started = 0 /\ r.finished = t /\ r.evidence = {} /\ r.children = {}
        /\ t \in Nat /\ id \in Nat /\ id \in ExecutionIds /\ clock <= t
    BY SMTT(30), <1>1, BoundsAssumption DEF Stored
  <1>3. Records(executions')
    <2>1. \A s \in executions : s.id # r.id
      BY Zenon, <1>2 DEF Stored
    <2>2. r.id \in Nat /\ r.started \in Nat /\ r.finished \in Nat /\ Records(executions)
      BY <1>2 DEF Stored
    <2>3. Records(executions \cup {r})
      BY Zenon, <2>1, <2>2, AddRecord
    <2> QED
      BY Zenon, <1>1, <2>3
  <1>4. \A s \in executions' : s.id \in ExecutionIds \ partial' /\ s.finished <= clock'
    BY SMTT(30), <1>1, <1>2 DEF Stored, Records
  <1>5. \A s \in executions' :
            s.evidence \subseteq evidence' /\ \A c \in s.children : \E u \in executions' : u.id = c
    BY Zenon, <1>1, <1>2 DEF Stored
  <1> QED
    BY Zenon, <1>1, <1>2, <1>3, <1>4, <1>5 DEF Stored, Grows

\* Which handlers leave the root alone: all that answer, and the start of a call.
LEMMA AnswersStored ==
    ASSUME Stored,
           \/ HandleMalformed \/ HandlePing \/ HandleNotReady \/ HandleUnknown
           \/ HandleToolsList \/ HandleTemplatesList \/ HandleResourcesList
           \/ HandleResourcesRead \/ write_json_line
           \/ HandleNotification \/ HandleInitialize \/ UNCHANGED vars
    PROVE  Stored' /\ Grows
  <1> USE DEF store, session
  <1>1. UNCHANGED <<executions, evidence, partial, clock, call>>
    <2>1. CASE HandleMalformed \/ HandlePing \/ HandleNotReady \/ HandleUnknown \/ write_json_line
      BY Zenon, <2>1 DEF HandleMalformed, HandlePing, HandleNotReady, HandleUnknown, write_json_line
    <2>2. CASE HandleToolsList \/ HandleTemplatesList \/ HandleResourcesList \/ HandleResourcesRead
      BY Zenon, <2>2 DEF HandleToolsList, HandleTemplatesList, HandleResourcesList, HandleResourcesRead
    <2>3. CASE HandleNotification \/ HandleInitialize
      BY Zenon, <2>3 DEF HandleNotification, HandleInitialize
    <2>4. CASE UNCHANGED vars
      BY Zenon, <2>4 DEF vars
    <2> QED
      BY Zenon, <2>1, <2>2, <2>3, <2>4
  <1>2. Records(executions) /\ Proofs(evidence)
    BY Zenon DEF Stored
  <1>3. Records(executions') /\ Proofs(evidence')
    BY <1>1, <1>2, Zenon
  <1> QED
    BY Zenon, <1>1, <1>3 DEF Stored, Grows

\* Every step keeps what is stored in order, and no record or evidence is ever lost.
LEMMA NextStored ==
    ASSUME Stored, [Next]_vars
    PROVE  Stored' /\ Grows
  <1> USE DEF store, session
  <1>0. Records(executions) /\ Proofs(evidence)
    BY Zenon DEF Stored
  <1>1. CASE \/ HandleMalformed \/ HandlePing \/ HandleNotReady \/ HandleUnknown
             \/ HandleToolsList \/ HandleTemplatesList \/ HandleResourcesList
             \/ HandleResourcesRead \/ write_json_line
             \/ HandleNotification \/ HandleInitialize \/ UNCHANGED vars
    BY Zenon, <1>1, AnswersStored
  <1>2. CASE HandleToolsCall
    <2>1. /\ UNCHANGED <<executions, evidence, partial, clock>>
          /\ \/ call' = call
             \/ \E id \in FreshIds : call' = [id |-> id, started |-> clock, record |-> None]
      BY Zenon, <1>2 DEF HandleToolsCall, Starts
    <2>2. Records(executions') /\ Proofs(evidence')
      BY <1>0, <2>1, Zenon
    <2> QED
      BY SMTT(30), <2>1, <2>2 DEF Stored, Grows, FreshIds
  <1>3. CASE CallPersists
    <2>1. PICK status \in {"succeeded", "failed"}, child \in {{}, {call.id + 1}},
               new \in {{}} \cup {{e} : e \in EvidenceIds \ evidence} :
            /\ child \subseteq FreshIds
            /\ executions' = executions \cup {Rec(status, clock + 1, c, {}, {}) : c \in child}
                                        \cup {Rec(status, clock + 1, call.id, child, new)}
            /\ evidence' = evidence \cup new /\ clock' = clock + 1
            /\ call' = [call EXCEPT !.record = Rec(status, clock + 1, call.id, child, new)]
      BY <1>3, Zenon DEF CallPersists, Rec
    <2>2. call # None /\ call.id \in FreshIds /\ partial' = partial
      BY Zenon, <1>3 DEF CallPersists
    <2> QED
      BY Zenon, <2>1, <2>2, PersistsStored
  <1>4. CASE CallReplies
    <2>1. UNCHANGED <<executions, evidence, partial, clock>> /\ call' = None
      BY Zenon, <1>4 DEF CallReplies
    <2>2. Records(executions') /\ Proofs(evidence')
      BY <1>0, <2>1, Zenon
    <2> QED
      BY Zenon, <2>1, <2>2 DEF Stored, Grows
  <1>5. CASE OtherCreates
    <2>1. /\ UNCHANGED <<executions, evidence, clock, call>>
          /\ \E id \in FreshIds : partial' = partial \cup {id}
      BY Zenon, <1>5 DEF OtherCreates
    <2>2. Records(executions') /\ Proofs(evidence')
      BY <1>0, <2>1, Zenon
    <2> QED
      BY Zenon, <2>1, <2>2 DEF Stored, Grows, FreshIds
  <1>6. CASE OtherWrites
    BY Zenon, <1>6, OtherWritesStored
  <1>7. CASE OtherInstalls
    <2>1. UNCHANGED <<executions, evidence, partial, clock, call>>
      BY Zenon, <1>7 DEF OtherInstalls
    <2>2. Records(executions') /\ Proofs(evidence')
      BY <1>0, <2>1, Zenon
    <2> QED
      BY Zenon, <2>1, <2>2 DEF Stored, Grows
  <1> QED
    BY Zenon, <1>1, <1>2, <1>3, <1>4, <1>5, <1>6, <1>7 DEF Next

\* A new session of an empty root.
LEMMA InitStored == Init => Stored
  <1> SUFFICES ASSUME Init PROVE Stored
    BY Zenon
  <1>1. executions = {} /\ evidence = {} /\ partial = {} /\ clock = 0 /\ call = None
    BY Zenon DEF Init
  <1>2. IsFiniteSet({})
    BY Zenon, FS_EmptySet
  <1>3. Records(executions) /\ Proofs(evidence)
    BY Zenon, <1>1, <1>2 DEF Records, Proofs
  <1> QED
    BY Zenon, <1>1, <1>3 DEF Stored

-----------------------------------------------------------------------------
(* Pages *)

ListNames == {"tools", "resource-templates", "resources"}

\* A walk that began at start has seen the items before offset o of what is listed now,
\* those that were listed at the start; and all of them in order if the list is the same.
UnderWay(start, seen, items, o) ==
    /\ o \in Nat /\ o <= Len(items)
    /\ start \in Seq(AllUris) /\ seen \in Seq(AllUris)
    /\ \A i \in 1..o : items[i] \in Range(start) => items[i] \in Range(seen)
    /\ items = start => seen = SubSeq(items, 1, o)

\* A cursor is told apart from its absence.
LEMMA CursorIsSome ==
    ASSUME NEW list \in ListNames, NEW o \in Nat
    PROVE  Cursor(list, o) # None
  BY SMTT(30), BoundsAssumption DEF Cursor, ListNames

\* One page: which items it has, and where the next one starts.
IsPage(page, items, o, list, next) ==
    /\ next \in Nat /\ o <= next /\ next <= Len(items)
    /\ page.items \in Seq(AllUris) /\ Len(page.items) = next - o
    /\ \A k \in 1..(next - o) : page.items[k] = items[o + k]
    /\ page.next = IF next < Len(items) THEN Cursor(list, next) ELSE None

\* paginate_list, for every offset within the list.
LEMMA PageOf ==
    ASSUME NEW items \in Seq(AllUris), NEW o \in Nat, o <= Len(items), NEW size \in Nat, NEW list,
           NEW page, page = paginate_list(items, o, size, list)
    PROVE  \E next : IsPage(page, items, o, list, next)
  <1>1. PICK rest : rest = Skip(items, o)
    BY Zenon
  <1>2. PICK front : front = Take(rest, size)
    BY Zenon
  <1>3. /\ rest \in Seq(AllUris) /\ Len(rest) = Len(items) - o
        /\ \A i \in 1..Len(rest) : rest[i] = items[o + i]
    BY SMTT(30), <1>1, Skipped
  <1>4. /\ front \in Seq(AllUris) /\ Len(front) = (IF size < Len(rest) THEN size ELSE Len(rest))
        /\ \A i \in 1..Len(front) : front[i] = rest[i]
    <2>1. front = Take(rest, size) /\ rest \in Seq(AllUris)
      BY Zenon, <1>2, <1>3
    <2> QED
      BY SMTT(30), <2>1, Taken
  <1>5. Len(items) \in Nat /\ Len(front) \in Nat
    BY Zenon, <1>4, LengthOf
  <1>6. page.items = front
    BY Zenon, <1>1, <1>2 DEF paginate_list
  <1>7. page.next = IF o + Len(front) < Len(items) THEN Cursor(list, o + Len(front)) ELSE None
    BY Zenon, <1>1, <1>2 DEF paginate_list
  <1>8. PICK next : next = o + Len(front)
    BY Zenon
  <1>9. next \in Nat /\ o <= next /\ next <= Len(items) /\ Len(front) = next - o
    BY SMTT(30), <1>3, <1>4, <1>5, <1>8
  <1>10. \A k \in 1..(next - o) : front[k] = items[o + k]
    BY SMTT(30), <1>3, <1>4, <1>5, <1>9
  <1>11. page.next = IF next < Len(items) THEN Cursor(list, next) ELSE None
    BY Zenon, <1>7, <1>8
  <1> QED
    BY Zenon, <1>4, <1>6, <1>9, <1>10, <1>11 DEF IsPage

\* A page continues a walk.
LEMMA PageContinues ==
    ASSUME NEW items \in Seq(AllUris), NEW o, NEW start, NEW seen, UnderWay(start, seen, items, o),
           NEW page, NEW list, NEW next, IsPage(page, items, o, list, next)
    PROVE  UnderWay(start, seen \o page.items, items, next)
  <1> DEFINE more == page.items
             both == seen \o more
  <1>1. /\ o \in Nat /\ next \in Nat /\ o <= next /\ next <= Len(items) /\ Len(items) \in Nat
        /\ start \in Seq(AllUris) /\ seen \in Seq(AllUris) /\ more \in Seq(AllUris)
        /\ Len(more) = next - o
    BY Zenon, LengthOf DEF UnderWay, IsPage
  <1>2. \A k \in 1..(next - o) : more[k] = items[o + k]
    BY Zenon DEF IsPage
  <1> HIDE DEF more
  <1>3. both \in Seq(AllUris) /\ Range(both) = Range(seen) \cup Range(more)
    BY SMTT(30), <1>1, Joined, JoinedRange
  <1>4. ASSUME NEW i \in 1..next, items[i] \in Range(start) PROVE items[i] \in Range(both)
    <2>1. CASE i <= o
      <3>1. i \in 1..o
        BY <1>1, <2>1
      <3>2. items[i] \in Range(seen)
        BY Zenon, <1>4, <3>1 DEF UnderWay
      <3> QED
        BY Zenon, <1>3, <3>2
    <2>2. CASE i > o
      <3>1. PICK k \in 1..(next - o) : i = o + k
        <4>1. i - o \in 1..(next - o) /\ i = o + (i - o)
          BY SMTT(30), <1>1, <2>2
        <4> QED
          BY Zenon, <4>1
      <3>2. items[i] = more[k]
        BY Zenon, <1>2, <3>1
      <3>3. DOMAIN more = 1..(next - o)
        BY Zenon, <1>1, LengthOf
      <3>4. items[i] \in Range(more)
        BY Zenon, <3>2, <3>3 DEF Range
      <3> QED
        BY Zenon, <1>3, <3>4
    <2> QED
      BY <1>1, <2>1, <2>2
  <1>5. ASSUME items = start PROVE both = SubSeq(items, 1, next)
    <2>1. seen = SubSeq(items, 1, o)
      BY Zenon, <1>5 DEF UnderWay
    <2>2. \A i \in 1..next : items[i] \in AllUris
      BY <1>1, LengthOf
    <2>3. \A i \in 1..o : items[i] \in AllUris
      BY SMTT(30), <1>1, <2>2
    <2>4. /\ Len(seen) = (IF 1 <= o THEN o - 1 + 1 ELSE 0)
          /\ \A i \in 1..(o - 1 + 1) : seen[i] = items[1 + i - 1]
      BY SMTT(30), <1>1, <2>1, <2>3, Slice
    <2>5. Len(seen) = o /\ \A i \in 1..o : seen[i] = items[i]
      BY <1>1, <2>4
    <2>6. PICK t : t = SubSeq(items, 1, next)
      BY Zenon
    <2>7. /\ t \in Seq(AllUris) /\ Len(t) = (IF 1 <= next THEN next - 1 + 1 ELSE 0)
          /\ \A i \in 1..(next - 1 + 1) : t[i] = items[1 + i - 1]
      BY SMTT(30), <1>1, <2>2, <2>6, Slice
    <2>8. Len(t) = next /\ \A i \in 1..next : t[i] = items[i]
      BY <1>1, <2>7
    <2>9. /\ Len(both) = Len(seen) + Len(more)
          /\ \A i \in 1..(Len(seen) + Len(more)) :
                both[i] = IF i <= Len(seen) THEN seen[i] ELSE more[i - Len(seen)]
      <3>1. seen \in Seq(AllUris) /\ more \in Seq(AllUris)
        BY Zenon, <1>1
      <3> QED
        BY <3>1, Joined, Zenon
    <2> HIDE DEF both
    <2>10. Len(both) = next
      BY SMTT(30), <1>1, <2>5, <2>9
    <2>11. ASSUME NEW i \in 1..next PROVE both[i] = items[i]
      <3>1. both[i] = IF i <= o THEN seen[i] ELSE more[i - o]
        BY SMTT(30), <1>1, <2>5, <2>9
      <3>2. CASE i <= o
        <4>1. i \in 1..o
          BY <1>1, <3>2
        <4> QED
          BY Zenon, <2>5, <3>1, <3>2, <4>1
      <3>3. CASE i > o
        <4>1. i - o \in 1..(next - o) /\ o + (i - o) = i /\ ~(i <= o)
          BY SMTT(30), <1>1, <3>3
        <4> QED
          BY Zenon, <1>2, <3>1, <4>1
      <3> QED
        BY SMTT(30), <1>1, <3>2, <3>3
    <2>12. both = t
      <3>1. both \in Seq(AllUris)
        BY Zenon, <1>3
      <3>2. Len(both) = Len(t) /\ \A i \in 1..Len(both) : both[i] = t[i]
        BY Zenon, <2>8, <2>10, <2>11
      <3> QED
        BY Zenon, <2>7, <3>1, <3>2, SameSequence
    <2> QED
      BY Zenon, <2>6, <2>12
  <1> HIDE DEF both
  <1>6. UnderWay(start, both, items, next)
    BY Zenon, <1>1, <1>3, <1>4, <1>5 DEF UnderWay
  <1> QED
    BY Zenon, <1>6 DEF both, more

\* What a client finds in the list it is walking through now.
Current(list, E, V) ==
    IF list = "tools" THEN tools
    ELSE IF list = "resource-templates" THEN resource_templates_catalog
    ELSE Listing(E, V)

\* A cursor that a client holds points into the list as it is now, and the walk is under
\* way there; a walk that ended has covered the list.
Walks(p, E, V) ==
    /\ p.finish # None =>
        /\ Range(p.start) \cap Range(p.finish) \subseteq Range(p.seen)
        /\ p.start = p.finish => p.seen = p.start
    /\ p.cursor # None =>
        /\ p.cursor.list \in ListNames
        /\ p.cursor = Cursor(p.cursor.list, p.cursor.offset)
        /\ UnderWay(p.start, p.seen, Current(p.cursor.list, E, V), p.cursor.offset)
        /\ p.cursor.list = "resources" => Range(p.start) \subseteq Uris(E, V)

\* The inductive strengthening of PagesCoverTheList.
Walking == Walks(paging, executions, evidence)

\* The inductive strengthening of HandedOutIsReadable: what a URI names is stored.
Names(uri, E, V) ==
    \/ uri.kind \in QueryKinds /\ uri.id \in Nat
    \/ uri.kind = "execution" /\ \E r \in E : r.id = uri.id
    \/ uri.kind \in {"payload", "metadata"} /\ uri.id \in V

Kept == held # None => Names(held, executions, evidence)

\* Records and evidence that are added under a walk move nothing past its cursor that was
\* listed when it began.
LEMMA ListGrows ==
    ASSUME NEW E, NEW F, E \subseteq F, Records(F), NEW V, NEW W, V \subseteq W, Proofs(W),
           NEW old, ListsRecent(old, E, V), NEW new, ListsRecent(new, F, W),
           NEW start, Range(start) \subseteq Uris(E, V), NEW seen, NEW o, UnderWay(start, seen, old, o)
    PROVE  UnderWay(start, seen, new, o)
  <1>1. MovesBack(old, new, Uris(E, V))
    BY Zenon, ItemsMoveBack
  <1>2. /\ o \in Nat /\ o <= Len(old) /\ start \in Seq(AllUris) /\ seen \in Seq(AllUris)
        /\ \A i \in 1..o : old[i] \in Range(start) => old[i] \in Range(seen)
    BY Zenon DEF UnderWay
  <1>3. old \in Seq(AllUris) /\ new \in Seq(AllUris)
    BY ZenonT(30) DEF ListsRecent, ListsFirst
  <1>4. Len(old) \in Nat /\ Len(new) \in Nat /\ Len(old) <= Len(new)
    BY Zenon, <1>1, <1>3, LengthOf DEF MovesBack
  <1>5. ASSUME NEW i \in 1..o, new[i] \in Range(start) PROVE new[i] \in Range(seen)
    <2>1. i \in 1..Len(new)
      BY <1>2, <1>4
    <2>2. PICK j \in 1..Len(old) : j <= i /\ old[j] = new[i]
      BY Zenon, <1>1, <1>5, <2>1 DEF MovesBack
    <2>3. j \in 1..o
      BY SMTT(30), <1>2, <1>4, <2>2
    <2> QED
      BY Zenon, <1>2, <1>5, <2>2, <2>3
  <1>6. ASSUME new = start PROVE seen = SubSeq(new, 1, o)
    <2>1. \A i \in 1..Len(new) : new[i] \in Range(start)
      BY ZenonT(30), <1>3, <1>6, LengthOf DEF Range
    <2>2. \A i \in 1..Len(new) : new[i] \in Uris(E, V)
      BY Zenon, <2>1
    <2>3. old = new
      BY Zenon, <2>2, ListIsTheSame
    <2> QED
      BY Zenon, <1>6, <2>3 DEF UnderWay
  <1> QED
    BY SMTT(30), <1>2, <1>4, <1>5, <1>6 DEF UnderWay

\* What the lists hold.
LEMMA CurrentLists ==
    ASSUME Stored, NEW list \in ListNames
    PROVE  /\ Current(list, executions, evidence) \in Seq(AllUris)
           /\ list = "resources" => /\ ListsRecent(Current(list, executions, evidence), executions, evidence)
                                    /\ Range(Current(list, executions, evidence)) \subseteq Uris(executions, evidence)
  <1>1. CASE list = "tools"
    BY <1>1 DEF Current, tools, Uri, AllUris
  <1>2. CASE list = "resource-templates"
    BY <1>2 DEF Current, resource_templates_catalog, Uri, AllUris, QueryKinds
  <1>3. CASE list = "resources"
    <2>1. PICK items : items = Listing(executions, evidence)
      BY Zenon
    <2>2. Records(executions) /\ Proofs(evidence)
      BY Zenon DEF Stored
    <2>3. ListsRecent(items, executions, evidence)
      BY Zenon, <2>1, <2>2, ListingIsRecent
    <2>4. items \in Seq(AllUris)
      BY ZenonT(30), <2>3 DEF ListsRecent, ListsFirst
    <2>5. \A i \in 1..Len(items) : items[i] \in Uris(executions, evidence)
      BY Zenon, <2>2, <2>3, ListedIsStored
    <2>6. Range(items) \subseteq Uris(executions, evidence)
      BY Zenon, <2>4, <2>5, LengthOf DEF Range
    <2>7. Current(list, executions, evidence) = items
      BY Zenon, <1>3, <2>1 DEF Current
    <2> QED
      BY Zenon, <2>3, <2>4, <2>6, <2>7
  <1> QED
    BY Zenon, <1>1, <1>2, <1>3 DEF ListNames

\* Whatever is written to the root, a walk stays under way.
LEMMA WalkSurvives ==
    ASSUME Stored, Stored', Grows, Walking, UNCHANGED paging
    PROVE  Walking'
  <1> USE DEF Walking, Walks
  <1>2. CASE paging.cursor = None
    BY ZenonT(30), <1>2
  <1>3. CASE paging.cursor # None
    <2>1. PICK list, o, start, seen : list = paging.cursor.list /\ o = paging.cursor.offset
                                      /\ start = paging.start /\ seen = paging.seen
      BY Zenon
    <2>2. /\ list \in ListNames /\ paging.cursor = Cursor(list, o)
          /\ UnderWay(start, seen, Current(list, executions, evidence), o)
          /\ list = "resources" => Range(start) \subseteq Uris(executions, evidence)
      BY ZenonT(30), <1>3, <2>1
    <2>3. CASE list = "resources"
      <3>1. PICK old, new : old = Listing(executions, evidence) /\ new = Listing(executions', evidence')
        BY Zenon
      <3>2. Current(list, executions, evidence) = old /\ Current(list, executions', evidence') = new
        BY ZenonT(30), <2>3, <3>1 DEF Current
      <3>3. /\ Records(executions) /\ Proofs(evidence) /\ Records(executions') /\ Proofs(evidence')
            /\ executions \subseteq executions' /\ evidence \subseteq evidence'
        BY Zenon DEF Stored, Grows
      <3>4. ListsRecent(old, executions, evidence) /\ ListsRecent(new, executions', evidence')
        BY ZenonT(30), <3>1, <3>3, ListingIsRecent
      <3>5. UnderWay(start, seen, new, o)
        BY ZenonT(30), <2>2, <2>3, <3>2, <3>3, <3>4, ListGrows
      <3>6. Range(start) \subseteq Uris(executions', evidence')
        BY ZenonT(30), <2>2, <2>3, <3>3 DEF Uris
      <3> QED
        BY ZenonT(30), <2>1, <2>2, <3>2, <3>5, <3>6
    <2>4. CASE list # "resources"
      <3>1. Current(list, executions', evidence') = Current(list, executions, evidence)
        BY ZenonT(30), <2>2, <2>4 DEF Current, ListNames
      <3> QED
        BY ZenonT(30), <2>1, <2>2, <2>4, <3>1
    <2> QED
      BY ZenonT(30), <2>3, <2>4
  <1> QED
    BY ZenonT(30), <1>2, <1>3

\* A page that a walk takes, its first or one that its cursor asked for.
LEMMA WalkTakesPage ==
    ASSUME NEW E, NEW V, NEW list \in ListNames, NEW items \in Seq(AllUris), items = Current(list, E, V),
           NEW o, NEW start, NEW seen, UnderWay(start, seen, items, o),
           list = "resources" => Range(start) \subseteq Uris(E, V),
           NEW page, NEW next, IsPage(page, items, o, list, next),
           NEW p, p.cursor = page.next, p.start = start, p.seen = seen \o page.items,
           p.finish = IF page.next = None THEN items ELSE None
    PROVE  Walks(p, E, V)
  <1>1. PICK both : both = p.seen
    BY ZenonT(30)
  <1>2. UnderWay(start, both, items, next)
    BY ZenonT(30), <1>1, PageContinues
  <1>4. next \in Nat /\ next <= Len(items) /\ Len(items) \in Nat /\ Cursor(list, next) # None
    BY Zenon, LengthOf, CursorIsSome DEF IsPage
  <1>5. CASE next < Len(items)
    <2>1. page.next = Cursor(list, next) /\ page.next # None
      BY Zenon, <1>4, <1>5 DEF IsPage
    <2>2. p.finish = None /\ p.cursor.list = list /\ p.cursor.offset = next
      BY SMTT(30), <2>1 DEF Cursor
    <2> QED
      BY <1>1, <1>2, <2>1, <2>2, ZenonT(30) DEF Walks
  <1>6. CASE next = Len(items)
    <2>1. page.next = None
      BY SMTT(30), <1>4, <1>6 DEF IsPage
    <2>2. p.finish = items /\ p.cursor = None
      BY ZenonT(30), <2>1
    <2>3. Range(start) \cap Range(items) \subseteq Range(both)
      <3> SUFFICES ASSUME NEW x \in Range(items), x \in Range(start) PROVE x \in Range(both)
        BY Zenon
      <3>1. PICK i \in 1..next : x = items[i]
        BY ZenonT(30), <1>6, LengthOf DEF Range
      <3> QED
        BY Zenon, <1>2, <3>1 DEF UnderWay
    <2>4. start = items => both = start
      <3>1. SubSeq(items, 1, Len(items)) = items
        BY Zenon, WholeSlice
      <3>2. items = start => both = SubSeq(items, 1, next)
        BY ZenonT(30), <1>2 DEF UnderWay
      <3> QED
        BY <1>6, <3>1, <3>2, ZenonT(30)
    <2> QED
      BY <1>1, <2>2, <2>3, <2>4, ZenonT(30) DEF Walks
  <1> QED
    BY SMTT(30), <1>4, <1>5, <1>6

\* An offset that is accepted: where the client's cursor points, inside the list.
IsOffset(off, cursor, list, total) ==
    /\ off \in Nat /\ off <= total
    /\ cursor = None => off = 0
    /\ cursor # None => cursor.list = list /\ cursor.offset = off

\* list_offset_from_params and decode_list_cursor, for whatever cursor a client sends.
LEMMA OffsetOf ==
    ASSUME Walking, NEW list, NEW cursor \in Cursors(list), NEW total \in Nat,
           NEW off, off = list_offset_from_params(cursor, list, total), off # None
    PROVE  IsOffset(off, cursor, list, total)
  <1>1. CASE cursor = None
    BY <1>1 DEF IsOffset, list_offset_from_params
  <1>2. CASE cursor # None
    <2>1. off = decode_list_cursor(cursor, list, total)
      BY Zenon, <1>2 DEF list_offset_from_params
    <2>2. /\ cursor.v = 1 /\ cursor.list = list /\ off = cursor.offset
          /\ (total = 0 /\ cursor.offset = 0) \/ cursor.offset < total
      BY Zenon, <2>1 DEF decode_list_cursor
    <2>3. cursor.offset \in Nat
      <3>1. CASE cursor = paging.cursor
        BY ZenonT(30), <1>2, <3>1 DEF Walking, Walks, UnderWay
      <3>2. CASE cursor \in {Cursor(list, 99), Cursor(list, 1)}
        BY <3>2 DEF Cursor
      <3>3. CASE cursor = [Cursor(list, 0) EXCEPT !.v = 2]
        <4>1. cursor.v = 2
          BY Zenon, <3>3 DEF Cursor
        <4> QED
          BY <2>2, <4>1
      <3> QED
        BY Zenon, <1>2, <3>1, <3>2, <3>3 DEF Cursors
    <2> QED
      BY SMTT(30), <1>2, <2>2, <2>3 DEF IsOffset
  <1> QED
    BY Zenon, <1>1, <1>2

\* What a list's reply does to the client's walk, and what it hands out.
LEMMA ListReplyWalks ==
    ASSUME Stored, Walking, NEW list \in ListNames, NEW size \in Nat, NEW method, NEW items,
           items = Current(list, executions, evidence), ListReply(method, list, items, size),
           UNCHANGED <<executions, evidence>>
    PROVE  /\ Walking'
           /\ held' = held \/ held' \in Uris(executions, evidence)
  <1>1. PICK cursor \in Cursors(list) :
            LET offset == list_offset_from_params(cursor, list, Len(items))
                page == paginate_list(items, offset, size, list)
            IN  IF offset = None
                THEN Fails(method, "ERROR_INVALID_PARAMS") /\ UNCHANGED <<held, paging>>
                ELSE /\ Succeeds(method) /\ Walk(items, cursor, page)
                     /\ Hands(IF list = "resources" THEN Range(page.items) ELSE {})
    BY Zenon DEF ListReply
  <1>2. PICK off, page : /\ off = list_offset_from_params(cursor, list, Len(items))
                         /\ page = paginate_list(items, off, size, list)
    BY Zenon
  <1>3. \/ off = None /\ UNCHANGED <<held, paging>>
        \/ /\ off # None /\ Walk(items, cursor, page)
           /\ Hands(IF list = "resources" THEN Range(page.items) ELSE {})
    BY <1>1, <1>2, Zenon
  <1>4. /\ items \in Seq(AllUris) /\ Len(items) \in Nat
        /\ list = "resources" => Range(items) \subseteq Uris(executions, evidence)
    BY Zenon, CurrentLists, LengthOf
  <1>5. items = Current(list, executions', evidence')
    BY Zenon
  <1>6. ASSUME UNCHANGED paging PROVE Walking'
    BY Zenon, <1>6 DEF Walking
  <1>7. CASE off = None
    BY SMTT(30), <1>3, <1>6, <1>7
  <1>8. CASE off # None
    <2>1. IsOffset(off, cursor, list, Len(items))
      BY Zenon, <1>2, <1>4, <1>8, OffsetOf
    <2>2. PICK next : IsPage(page, items, off, list, next)
      BY Zenon, <1>2, <1>4, <2>1, PageOf DEF IsOffset
    <2>3. Walking'
      <3>1. CASE goal # "walk" \/ (cursor # None /\ cursor # paging.cursor)
        <4>1. paging' = paging
          BY <1>3, <1>8, <3>1, Zenon DEF Walk
        <4> QED
          BY Zenon, <1>6, <4>1
      <3>2. CASE goal = "walk" /\ cursor = None
        <4>1. PICK nothing : nothing = <<>>
          BY Zenon
        <4>2. paging' = [cursor |-> page.next, start |-> items, seen |-> nothing \o page.items,
                         finish |-> IF page.next = None THEN items ELSE None]
          BY <1>3, <1>8, <3>2, <4>1, Zenon DEF Walk
        <4>3. off = 0
          BY Zenon, <2>1, <3>2 DEF IsOffset
        <4>4. SubSeq(items, 1, 0) = <<>>
          BY Zenon, <1>4, EmptySlice
        <4>5. nothing \in Seq(AllUris)
          BY <4>1
        <4>6. UnderWay(items, nothing, items, off)
          BY SMTT(30), <1>4, <4>1, <4>3, <4>4, <4>5 DEF UnderWay
        <4>7. list = "resources" => Range(items) \subseteq Uris(executions', evidence')
          BY Zenon, <1>4
        <4>8. PICK p : p = paging'
          BY Zenon
        <4>9. /\ p.cursor = page.next /\ p.start = items /\ p.seen = nothing \o page.items
              /\ p.finish = IF page.next = None THEN items ELSE None
          BY SMTT(30), <4>2, <4>8
        <4>10. Walks(p, executions', evidence')
          BY ZenonT(30), <1>4, <1>5, <2>2, <4>6, <4>7, <4>9, WalkTakesPage
        <4> QED
          BY Zenon, <4>8, <4>10 DEF Walking
      <3>3. CASE goal = "walk" /\ cursor # None /\ cursor = paging.cursor
        <4>1. PICK start, seen : start = paging.start /\ seen = paging.seen
          BY Zenon
        <4>2. paging' = [cursor |-> page.next, start |-> start, seen |-> seen \o page.items,
                         finish |-> IF page.next = None THEN items ELSE None]
          BY <1>3, <1>8, <3>3, <4>1, ZenonT(30) DEF Walk
        <4>3. paging.cursor.list = list /\ paging.cursor.offset = off
          BY Zenon, <2>1, <3>3 DEF IsOffset
        <4>4. /\ UnderWay(start, seen, items, off)
              /\ list = "resources" => Range(start) \subseteq Uris(executions', evidence')
          BY ZenonT(30), <3>3, <4>1, <4>3 DEF Walking, Walks
        <4>5. PICK p : p = paging'
          OBVIOUS
        <4>6. /\ p.cursor = page.next /\ p.start = start /\ p.seen = seen \o page.items
              /\ p.finish = IF page.next = None THEN items ELSE None
          BY SMTT(30), <4>2, <4>5
        <4>7. Walks(p, executions', evidence')
          BY ZenonT(30), <1>4, <1>5, <2>2, <4>4, <4>6, WalkTakesPage
        <4> QED
          BY <4>5, <4>7 DEF Walking
      <3> QED
        BY Zenon, <3>1, <3>2, <3>3
    <2>4. Range(page.items) \subseteq Range(items)
      <3>1. PICK p : p = page.items
        BY Zenon
      <3>2. /\ off \in Nat /\ next \in Nat /\ next <= Len(items) /\ p \in Seq(AllUris)
            /\ Len(p) = next - off /\ \A k \in 1..(next - off) : p[k] = items[off + k]
        BY ZenonT(30), <2>1, <2>2, <3>1 DEF IsOffset, IsPage
      <3>3. \A k \in 1..(next - off) : off + k \in 1..Len(items)
        BY SMTT(30), <1>4, <3>2
      <3>4. DOMAIN p = 1..(next - off) /\ DOMAIN items = 1..Len(items)
        BY Zenon, <1>4, <3>2, LengthOf
      <3>5. Range(p) \subseteq Range(items)
        BY SMTT(30), <3>2, <3>3, <3>4 DEF Range
      <3> QED
        BY Zenon, <3>1, <3>5
    <2>5. held' = held \/ held' \in (IF list = "resources" THEN Range(page.items) ELSE {})
      BY <1>3, <1>8 DEF Hands
    <2> QED
      BY Zenon, <1>4, <2>3, <2>4, <2>5
  <1> QED
    BY Zenon, <1>7, <1>8

\* resources/list when no record is half written.
LEMMA ResourcesWalk ==
    ASSUME Stored, Walking, HandleResourcesList, partial = {}
    PROVE  Walking' /\ (held' = held \/ held' \in Uris(executions, evidence))
  <1>1. "resources" \in ListNames /\ RESOURCES_LIST_PAGE_SIZE \in Nat
    BY Zenon, BoundsAssumption DEF ListNames
  <1>2. PICK items : items = Current("resources", executions, evidence)
    BY Zenon
  <1>3. items = Listing(executions, evidence)
    BY Zenon, <1>2 DEF Current
  <1>4. Resources = Listing(executions, evidence)
    <2>1. load_execution_records_sorted = Sorted(executions, compare_execution_records_for_query)
      BY Zenon DEF load_execution_records_sorted
    <2> QED
      BY <2>1, Zenon DEF Resources, Listing, list_recent_execution_records,
                         list_recent_evidence_records, load_evidence_records_sorted
  <1>5. ListReply("resources/list", "resources", Resources, RESOURCES_LIST_PAGE_SIZE)
    BY Zenon DEF HandleResourcesList
  <1>6. ListReply("resources/list", "resources", items, RESOURCES_LIST_PAGE_SIZE)
    BY <1>3, <1>4, <1>5, Zenon
  <1>7. UNCHANGED <<executions, evidence>>
    BY Zenon DEF HandleResourcesList, store
  <1> QED
    BY Zenon, <1>1, <1>2, <1>6, <1>7, ListReplyWalks

\* tools/list and resources/templates/list.
LEMMA CatalogsWalk ==
    ASSUME Stored, Walking, HandleToolsList \/ HandleTemplatesList
    PROVE  Walking' /\ (held' = held \/ held' \in Uris(executions, evidence))
  <1>1. CASE HandleToolsList
    <2>1. "tools" \in ListNames /\ TOOLS_LIST_PAGE_SIZE \in Nat
      BY Zenon, BoundsAssumption DEF ListNames
    <2>2. PICK items : items = Current("tools", executions, evidence)
      BY Zenon
    <2>3. items = tools
      BY Zenon, <2>2 DEF Current
    <2>4. ListReply("tools/list", "tools", items, TOOLS_LIST_PAGE_SIZE)
      BY <1>1, <2>3, Zenon DEF HandleToolsList
    <2>5. UNCHANGED <<executions, evidence>>
      BY Zenon, <1>1 DEF HandleToolsList, store
    <2> QED
      BY Zenon, <2>1, <2>2, <2>4, <2>5, ListReplyWalks
  <1>2. CASE HandleTemplatesList
    <2>1. "resource-templates" \in ListNames /\ RESOURCE_TEMPLATES_LIST_PAGE_SIZE \in Nat
      BY Zenon, BoundsAssumption DEF ListNames
    <2>2. PICK items : items = Current("resource-templates", executions, evidence)
      BY Zenon
    <2>3. items = resource_templates_catalog
      BY Zenon, <2>2 DEF Current
    <2>4. ListReply("resources/templates/list", "resource-templates", items,
                    RESOURCE_TEMPLATES_LIST_PAGE_SIZE)
      BY <1>2, <2>3, Zenon DEF HandleTemplatesList
    <2>5. UNCHANGED <<executions, evidence>>
      BY Zenon, <1>2 DEF HandleTemplatesList, store
    <2> QED
      BY Zenon, <2>1, <2>2, <2>4, <2>5, ListReplyWalks
  <1> QED
    BY Zenon, <1>1, <1>2

\* Every step keeps a walk under way.
LEMMA NextWalks ==
    ASSUME Stored, Stored', Grows, Walking, [Next]_vars
    PROVE  Walking'
  <1> USE DEF store, session
  <1>1. CASE UNCHANGED paging
    BY Zenon, <1>1, WalkSurvives
  <1>2. CASE HandleToolsList \/ HandleTemplatesList
    BY Zenon, <1>2, CatalogsWalk
  <1>4. CASE HandleResourcesList
    <2>1. CASE partial # {}
      BY Zenon, <1>1, <1>4, <2>1 DEF HandleResourcesList
    <2>2. CASE partial = {}
      BY <1>4, <2>2, ResourcesWalk
    <2> QED
      BY Zenon, <2>1, <2>2
  <1>5. CASE \/ HandleMalformed \/ HandlePing \/ HandleNotReady \/ HandleUnknown
             \/ HandleResourcesRead \/ write_json_line \/ HandleNotification \/ HandleInitialize
             \/ HandleToolsCall \/ CallPersists \/ CallReplies
             \/ OtherCreates \/ OtherWrites \/ OtherInstalls \/ UNCHANGED vars
    <2>1. UNCHANGED paging
      <3>1. CASE HandleMalformed \/ HandlePing \/ HandleNotReady \/ HandleUnknown \/ write_json_line
        BY Zenon, <3>1 DEF HandleMalformed, HandlePing, HandleNotReady, HandleUnknown, write_json_line
      <3>2. CASE HandleResourcesRead \/ HandleNotification \/ HandleInitialize \/ HandleToolsCall
        BY Zenon, <3>2 DEF HandleResourcesRead, HandleNotification, HandleInitialize, HandleToolsCall
      <3>3. CASE CallPersists \/ CallReplies
        BY Zenon, <3>3 DEF CallPersists, CallReplies
      <3>4. CASE OtherCreates \/ OtherWrites \/ OtherInstalls
        BY Zenon, <3>4 DEF OtherCreates, OtherWrites, OtherInstalls
      <3>5. CASE UNCHANGED vars
        BY Zenon, <3>5 DEF vars
      <3> QED
        BY Zenon, <1>5, <3>1, <3>2, <3>3, <3>4, <3>5
    <2> QED
      BY Zenon, <1>1, <2>1
  <1> QED
    BY Zenon, <1>2, <1>4, <1>5 DEF Next

\* A walk that has not begun.
LEMMA InitWalks == Init => Walking
  BY DEF Init, NoPaging, Walking, Walks

\* QueriesAreHonest in every state in which the records are told apart.
LEMMA StoredIsHonest == Stored => QueriesAreHonest
  <1> SUFFICES ASSUME Stored, NEW kind \in QueryKinds, NEW limit \in QueryLimits
               PROVE  LET q == query_execution_records(kind, limit)
                          matching == {r \in executions : execution_record_matches_query(r, kind)}
                          shown == Range(q.results)
                      IN  /\ shown \subseteq matching /\ Cardinality(shown) = Len(q.results)
                          /\ \A r \in shown, s \in matching \ shown :
                                compare_execution_records_for_query(r, s)
                          /\ Len(q.results) <= limit /\ (q.truncated => Len(q.results) = limit)
                          /\ q.truncated = (shown # matching) /\ q.total_matches = Cardinality(matching)
    BY Zenon DEF QueriesAreHonest
  <1>1. limit \in Nat /\ Records(executions)
    BY Zenon, BoundsAssumption DEF Stored
  <1>2. PICK q : q = query_execution_records(kind, limit)
    BY Zenon
  <1>3. PICK matching : matching = {r \in executions : execution_record_matches_query(r, kind)}
    BY Zenon
  <1>4. PICK shown : shown = Range(q.results)
    BY Zenon
  <1>5. /\ shown \subseteq matching /\ Cardinality(shown) = Len(q.results)
        /\ \A r \in shown, s \in matching \ shown : compare_execution_records_for_query(r, s)
        /\ Len(q.results) <= limit /\ (q.truncated => Len(q.results) = limit)
        /\ q.truncated = (shown # matching) /\ q.total_matches = Cardinality(matching)
    BY <1>1, <1>2, <1>3, <1>4, QueryIsHonest
  <1> QED
    BY <1>2, <1>3, <1>4, <1>5, Zenon

\* resources/list, tools/list, resources/templates/list and the queries of resources/read:
\* whatever is written to the root between two pages, a client that follows the cursors
\* to the end has seen every item that was listed from its first page to its last, and
\* each item once and in order if nothing was written; and a query's results are the
\* front of what matches, truncated exactly when it says so.
THEOREM ListsStayComplete == Spec => []ListsAreComplete
  <1>1. Init => Stored /\ Walking
    BY Zenon, InitStored, InitWalks
  <1>2. Stored /\ Walking /\ [Next]_vars => (Stored /\ Walking)'
    BY Zenon, NextStored, NextWalks
  <1>3. Stored /\ Walking => ListsAreComplete
    <2>1. Walking => PagesCoverTheList
      BY Zenon DEF Walking, Walks, PagesCoverTheList
    <2> QED
      BY Zenon, <2>1, StoredIsHonest DEF ListsAreComplete
  <1> QED
    BY <1>1, <1>2, <1>3, PTL DEF Spec

-----------------------------------------------------------------------------
(* The URIs that replies hand out *)

\* Which URIs name something.
LEMMA UrisName ==
    ASSUME NEW E, NEW V, NEW uri
    PROVE  /\ uri \in Uris(E, V) => Names(uri, E, V)
           /\ \A r \in E : uri = Uri("execution", r.id) => Names(uri, E, V)
           /\ \A e \in V, k \in {"payload", "metadata"} : uri = Uri(k, e) => Names(uri, E, V)
  <1>1. \A k, x : uri = Uri(k, x) => uri.kind = k /\ uri.id = x
    BY DEF Uri
  <1>2. uri \in {Uri("recent", 10), Uri("failures", 10)} => Names(uri, E, V)
    BY <1>1 DEF Names, QueryKinds
  <1>3. ASSUME NEW r \in E, uri = Uri("execution", r.id) PROVE Names(uri, E, V)
    BY Zenon, <1>1, <1>3 DEF Names
  <1>4. ASSUME NEW e \in V, NEW k \in {"payload", "metadata"}, uri = Uri(k, e) PROVE Names(uri, E, V)
    BY Zenon, <1>1, <1>4 DEF Names
  <1>5. ASSUME uri \in Uris(E, V) PROVE Names(uri, E, V)
    <2>1. \/ uri \in {Uri("recent", 10), Uri("failures", 10)}
          \/ \E r \in E : uri = Uri("execution", r.id)
          \/ \E e \in V : uri = Uri("metadata", e)
      BY Zenon, <1>5 DEF Uris, recent_executions_query_resource, recent_failures_query_resource
    <2> QED
      BY <1>2, <1>3, <1>4, <2>1
  <1> QED
    BY Zenon, <1>3, <1>4, <1>5

\* The links of a tools/call reply: to the record, to its children and to its evidence.
LEMMA ContentNames ==
    ASSUME Stored, NEW r \in executions, NEW uri \in inspect_content(r)
    PROVE  Names(uri, executions, evidence)
  <1>1. \/ uri = Uri("execution", r.id)
        \/ \E c \in r.children : uri = Uri("execution", c)
        \/ \E k \in {"payload", "metadata"}, e \in r.evidence : uri = Uri(k, e)
    BY DEF inspect_content, execution_resource_link, child_execution_content_blocks, evidence_content_blocks
  <1>2. CASE uri = Uri("execution", r.id)
    BY Zenon, <1>2, UrisName
  <1>3. ASSUME NEW c \in r.children, uri = Uri("execution", c) PROVE Names(uri, executions, evidence)
    <2>1. PICK s \in executions : s.id = c
      BY Zenon DEF Stored
    <2> QED
      BY Zenon, <1>3, <2>1, UrisName
  <1>4. ASSUME NEW k \in {"payload", "metadata"}, NEW e \in r.evidence, uri = Uri(k, e)
        PROVE  Names(uri, executions, evidence)
    <2>1. e \in evidence
      BY Zenon DEF Stored
    <2> QED
      BY Zenon, <1>4, <2>1, UrisName
  <1> QED
    BY Zenon, <1>1, <1>2, <1>3, <1>4

\* A query's results are records.
LEMMA ShownIsStored ==
    ASSUME Records(executions), NEW kind \in QueryKinds, NEW limit \in Nat,
           NEW q, q = query_execution_records(kind, limit), NEW shown, shown = Range(q.results)
    PROVE  shown \subseteq executions
  <1>1. PICK matching : matching = {r \in executions : execution_record_matches_query(r, kind)}
    BY Zenon
  <1>2. /\ shown \subseteq matching /\ Cardinality(shown) = Len(q.results)
        /\ \A r \in shown, s \in matching \ shown : compare_execution_records_for_query(r, s)
        /\ Len(q.results) <= limit /\ (q.truncated => Len(q.results) = limit)
        /\ q.truncated = (shown # matching) /\ q.total_matches = Cardinality(matching)
    BY <1>1, QueryIsHonest
  <1> QED
    BY <1>1, <1>2, Zenon

\* What a URI's identifier is.
LEMMA IdOf ==
    ASSUME NEW K, NEW L, NEW uri \in [kind : K, id : L]
    PROVE  uri.id \in L
  BY Zenon

\* A query hands out links to its results.
LEMMA ResultsName ==
    ASSUME Stored, Kept, HandleResourcesRead
    PROVE  held' = held \/ Names(held', executions, evidence)
  <1>1. CASE UNCHANGED held
    BY Zenon, <1>1
  <1>2. CASE held' # held
    <2>1. PICK uri \in ({held} \ {None}) \cup {Uri("execution", i) : i \in ExecutionIds}
                            \cup [kind : QueryKinds, id : QueryLimits] :
            /\ uri.kind \in QueryKinds
            /\ LET result == query_execution_records(uri.kind, uri.id)
               IN  Hands({Uri("execution", r.id) : r \in Range(result.results)})
      BY <1>2, ZenonT(30) DEF HandleResourcesRead
    <2>2. \A k, l : Uri(k, l).kind = k /\ Uri(k, l).id = l
      BY ZenonT(30) DEF Uri
    <2>3. uri.id \in Nat
      <3>1. CASE uri = held /\ held # None
        BY Zenon, <2>1, <3>1 DEF Kept, Names, QueryKinds
      <3>2. CASE uri \in {Uri("execution", i) : i \in ExecutionIds}
        <4>1. PICK i \in ExecutionIds : uri = Uri("execution", i)
          BY Zenon, <3>2
        <4>2. uri.kind = "execution"
          BY Zenon, <2>2, <4>1
        <4> QED
          BY Zenon, <2>1, <4>2 DEF QueryKinds
      <3>3. CASE uri \in [kind : QueryKinds, id : QueryLimits]
        <4>1. QueryLimits \subseteq Nat
          BY Zenon, BoundsAssumption
        <4>2. uri.id \in QueryLimits
          BY Zenon, <3>3, IdOf
        <4> QED
          BY <4>1, <4>2, Zenon
      <3> QED
        BY Zenon, <2>1, <3>1, <3>2, <3>3
    <2>4. PICK kind, limit : kind = uri.kind /\ limit = uri.id
      BY Zenon
    <2>5. PICK q : q = query_execution_records(kind, limit)
      BY Zenon
    <2>6. Hands({Uri("execution", r.id) : r \in Range(q.results)})
      BY <2>1, <2>4, <2>5, Zenon
    <2>7. PICK shown : shown = Range(q.results)
      BY Zenon
    <2>8. kind \in QueryKinds /\ limit \in Nat /\ Records(executions)
      BY <2>1, <2>3, <2>4, Zenon DEF Stored
    <2>9. shown \subseteq executions
      BY Zenon, <2>5, <2>7, <2>8, ShownIsStored
    <2>10. \E r \in shown : held' = Uri("execution", r.id)
      BY Zenon, <1>2, <2>6, <2>7 DEF Hands
    <2> QED
      BY Zenon, <2>9, <2>10, UrisName
  <1> QED
    BY Zenon, <1>1, <1>2

\* Every step hands out URIs only of what is stored, and what is stored stays.
LEMMA NextKept ==
    ASSUME Stored, Grows, Walking, Kept, [Next]_vars
    PROVE  Kept'
  <1> USE DEF store, session
  <1>1. held' = held \/ Names(held', executions, evidence)
    <2>1. CASE HandleToolsList \/ HandleTemplatesList
      BY Zenon, <2>1, CatalogsWalk, UrisName
    <2>2. CASE HandleResourcesList
      <3>1. CASE partial # {}
        BY Zenon, <2>2, <3>1 DEF HandleResourcesList
      <3>2. CASE partial = {}
        BY Zenon, <2>2, <3>2, ResourcesWalk, UrisName
      <3> QED
        BY Zenon, <3>1, <3>2
    <2>3. CASE HandleResourcesRead
      BY Zenon, <2>3, ResultsName
    <2>4. CASE CallReplies
      <3>1. CASE call.record = None
        BY Zenon, <2>4, <3>1 DEF CallReplies
      <3>2. CASE call.record # None
        <4>1. call.record \in executions /\ call.record.id = call.id
          BY Zenon, <2>4, <3>2 DEF CallReplies, Stored
        <4>2. Record(call.id) \in executions
          BY Zenon, <4>1 DEF Record
        <4>3. PICK r : r = IF call.record.status = "succeeded" THEN call.record ELSE Record(call.id)
          BY Zenon
        <4>4. r \in executions
          BY Zenon, <4>1, <4>2, <4>3
        <4>5. Hands(inspect_content(r))
          BY <2>4, <3>2, <4>3, Zenon DEF CallReplies
        <4>6. held' = held \/ held' \in inspect_content(r)
          BY <4>5, Zenon DEF Hands
        <4> QED
          BY Zenon, <4>4, <4>6, ContentNames
      <3> QED
        BY Zenon, <3>1, <3>2
    <2>5. CASE HandleMalformed \/ HandlePing \/ HandleNotReady \/ HandleUnknown \/ write_json_line
      BY Zenon, <2>5 DEF HandleMalformed, HandlePing, HandleNotReady, HandleUnknown, write_json_line
    <2>6. CASE HandleNotification \/ HandleInitialize \/ HandleToolsCall \/ CallPersists
      BY Zenon, <2>6 DEF HandleNotification, HandleInitialize, HandleToolsCall, CallPersists
    <2>7. CASE OtherCreates \/ OtherWrites \/ OtherInstalls
      BY Zenon, <2>7, OthersApart
    <2>8. CASE UNCHANGED vars
      BY Zenon, <2>8 DEF vars
    <2> QED
      BY Zenon, <2>1, <2>2, <2>3, <2>4, <2>5, <2>6, <2>7, <2>8 DEF Next
  <1>2. held' # None => Names(held', executions, evidence)
    BY Zenon, <1>1 DEF Kept
  <1>3. executions \subseteq executions' /\ evidence \subseteq evidence'
    BY Zenon DEF Grows
  <1> QED
    BY SMTT(30), <1>2, <1>3 DEF Kept, Names

\* Whatever URI a reply of resources/list, resources/read or tools/call handed out,
\* read_resource finds it from then on, whatever the session and other processes
\* write: records, children and evidence always, queries unless a record is half written.
THEOREM HandedOutStaysReadable == Spec => []HandedOutIsReadable
  <1> DEFINE Inv == Stored /\ Walking /\ Kept
  <1>1. Init => Inv
    <2>1. Init => Kept
      BY Zenon DEF Init, Kept
    <2> QED
      BY Zenon, <2>1, InitStored, InitWalks
  <1>2. Inv /\ [Next]_vars => Inv'
    BY Zenon, NextStored, NextWalks, NextKept
  <1>3. Inv => HandedOutIsReadable
    <2> SUFFICES ASSUME Kept, held # None
                 PROVE  Readable(held) \/ (held.kind \in QueryKinds /\ partial # {})
      BY Zenon DEF HandedOutIsReadable
    <2> USE DEF Readable, read_execution_query_resource, read_execution_resource, read_evidence, QueryKinds
    <2>1. CASE held.kind \in QueryKinds
      BY Zenon, <2>1
    <2>2. CASE held.kind = "execution" /\ \E r \in executions : r.id = held.id
      BY Zenon, <2>2
    <2>3. CASE held.kind \in {"payload", "metadata"} /\ held.id \in evidence
      BY Zenon, <2>3
    <2> QED
      BY Zenon, <2>1, <2>2, <2>3 DEF Kept, Names
  <1> QED
    BY <1>1, <1>2, <1>3, PTL DEF Spec

-----------------------------------------------------------------------------
\* negotiate_protocol_version answers with a version that is supported.
LEMMA NegotiatesSupported ==
    ASSUME NEW v
    PROVE  /\ negotiate_protocol_version(v) \in Range(SUPPORTED_PROTOCOL_VERSIONS)
           /\ negotiate_protocol_version(v) # None
  <1>1. PICK s : s = SUPPORTED_PROTOCOL_VERSIONS
    BY Zenon
  <1>2. s \in Seq(Range(s)) /\ s # <<>> /\ None \notin Range(s)
    BY Zenon, <1>1, BoundsAssumption
  <1>3. Len(s) \in DOMAIN s
    BY Zenon, <1>2, NonEmpty
  <1>4. s[Len(s)] \in Range(s)
    BY Zenon, <1>3 DEF Range
  <1> QED
    BY Zenon, <1>1, <1>2, <1>4 DEF negotiate_protocol_version

\* The session's version and its builds.
Versioned ==
    /\ state \in {"pre", "waiting", "ready"}
    /\ protocol_version \in Range(SUPPORTED_PROTOCOL_VERSIONS) \cup {None}
    /\ (protocol_version = None) = (state = "pre")
    /\ loaded \subseteq installed /\ installed \subseteq Builds

\* Every step keeps them.
LEMMA NextVersioned ==
    ASSUME Versioned, [Next]_vars
    PROVE  Versioned'
  <1> USE DEF Versioned, store, session
  <1>1. CASE \/ HandleMalformed \/ HandlePing \/ HandleNotReady \/ HandleUnknown
             \/ HandleToolsList \/ HandleTemplatesList \/ HandleResourcesList
             \/ HandleResourcesRead \/ write_json_line
    <2>1. UNCHANGED <<state, protocol_version, loaded>>
      BY Zenon, <1>1, AnswersOnly
    <2>2. UNCHANGED installed
      <3>1. CASE HandleMalformed \/ HandlePing \/ HandleNotReady \/ HandleUnknown \/ write_json_line
        BY Zenon, <3>1 DEF HandleMalformed, HandlePing, HandleNotReady, HandleUnknown, write_json_line
      <3>2. CASE HandleToolsList \/ HandleTemplatesList \/ HandleResourcesList \/ HandleResourcesRead
        BY Zenon, <3>2 DEF HandleToolsList, HandleTemplatesList, HandleResourcesList, HandleResourcesRead
      <3> QED
        BY Zenon, <1>1, <3>1, <3>2
    <2> QED
      BY Zenon, <2>1, <2>2
  <1>2. CASE HandleNotification
    <2>1. /\ state' = state \/ (state = "waiting" /\ state' = "ready")
          /\ UNCHANGED <<protocol_version, loaded, installed>>
      BY Zenon, <1>2 DEF HandleNotification
    <2> QED
      BY Zenon, <2>1
  <1>3. CASE HandleInitialize
    <2>1. /\ UNCHANGED <<loaded, installed>>
          /\ \/ UNCHANGED <<state, protocol_version>>
             \/ state' = "waiting" /\ \E v \in Requested : protocol_version' = negotiate_protocol_version(v)
      BY Zenon, <1>3 DEF HandleInitialize
    <2> QED
      BY Zenon, <2>1, NegotiatesSupported
  <1>4. CASE HandleToolsCall \/ CallPersists \/ CallReplies
    <2>1. UNCHANGED <<state, protocol_version, loaded, installed>>
      BY Zenon, <1>4 DEF HandleToolsCall, CallPersists, CallReplies
    <2> QED
      BY Zenon, <2>1
  <1>5. CASE OtherCreates \/ OtherWrites \/ OtherInstalls
    <2>1. /\ UNCHANGED <<state, protocol_version, loaded>>
          /\ installed' = installed \/ \E d \in Builds : installed' = installed \cup {d}
      BY Zenon, <1>5 DEF OtherCreates, OtherWrites, OtherInstalls
    <2> QED
      BY Zenon, <2>1
  <1>6. CASE UNCHANGED vars
    BY Zenon, <1>6 DEF vars
  <1> QED
    BY Zenon, <1>1, <1>2, <1>3, <1>4, <1>5, <1>6 DEF Next

\* A session's version is one that is supported, negotiated exactly when it has left its
\* first state; its builds are installed; and the records, their identifiers, their times
\* and the call that is executed are what McpSession's operators take them to be.
THEOREM McpTypeCorrect == Spec => []TypeOK
  <1>1. Init => Stored /\ Versioned
    <2>1. Init => Versioned
      BY ZenonT(30), BoundsAssumption DEF Init, Versioned
    <2> QED
      BY Zenon, <2>1, InitStored
  <1>2. Stored /\ Versioned /\ [Next]_vars => (Stored /\ Versioned)'
    BY Zenon, NextStored, NextVersioned
  <1>3. Stored /\ Versioned => TypeOK
    BY Zenon DEF Stored, Versioned, TypeOK
  <1> QED
    BY <1>1, <1>2, <1>3, PTL DEF Spec
=============================================================================
