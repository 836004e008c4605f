----------------------------- MODULE IdentityProofs ----------------------------
(***************************************************************************)
(* Proofs about the identity client: how long a revoked token is accepted, *)
(* what the LRU list keeps, and which service tokens are handed out.        *)
(***************************************************************************)
EXTENDS ServiceTokens, FiniteSetTheorems, SequenceTheorems, TLAPS

\* The map items: one element per key.
OnePerKey(q) == \A i, j \in DOMAIN q : q[i].key = q[j].key => i = j

\* Every element of p is one of q.
PartOf(p, q) == \A i \in DOMAIN p : \E j \in DOMAIN q : p[i] = q[j]

\* The keys of q are the first ones of r.
Leads(q, r) == Len(q) <= Len(r) /\ \A i \in DOMAIN q : q[i].key = r[i]

CacheEntries == [key : Tokens, left : -1..TTL]

\* What every operation keeps of the list q and the history r beside it.
Listed(q, r) ==
    /\ q \in Seq(CacheEntries) /\ r \in Seq(Tokens)
    /\ OnePerKey(q) /\ Leads(q, r) /\ Len(q) <= MaxSize

\* How long ago a token can have been revoked that an entry says is active.
Recent(q) ==
    \A i \in DOMAIN q : q[i].left >= 0 => since[q[i].key] <= TTL - q[i].left + Timeout

\* The callers, and how long ago a token can have been revoked that a lookup found
\* or that the service said is active.
CallsOK ==
    /\ since \in [Tokens -> -1..(Staleness + 1)]
    /\ pc \in [Callers -> {"idle", "request", "answered"}]
    /\ token \in [Callers -> Tokens \cup {NoToken}]
    /\ \A c \in Callers : pc[c] # "idle" => token[c] \in Tokens
    /\ age \in [Callers -> 0..Timeout]
    /\ hasCached \in [Callers -> BOOLEAN]
    /\ reply \in [Callers -> Replies \cup {"none"}]
    /\ result \in [Callers -> Replies \cup {"none", "ok"}]
    /\ \A c \in Callers : pc[c] # "idle" /\ hasCached[c] =>
          since[token[c]] <= TTL + Timeout + age[c]
    /\ \A c \in Callers : pc[c] = "answered" /\ reply[c] = "active" =>
          since[token[c]] <= age[c]

IntrospectionInv == Listed(cache, recent) /\ Recent(cache) /\ CallsOK

\* An entry is for the scopes of its key.
TokenEntries ==
    {e \in [key : {cacheScopesKey(scopes) : scopes \in ScopeLists},
            sent : ScopeLists, life : Nat, left : Nat] : e.key = cacheScopesKey(e.sent)}

\* A call; an issued token has lost no more than the time of its call.
CallFields ==
    [pc : {"idle", "issue", "issued"}, scopes : ScopeLists \cup {<<>>},
     age : 0..Timeout, life : Nat, left : Nat]
Calls ==
    {k \in CallFields : /\ k.pc # "idle" => k.scopes \in ScopeLists
                        /\ k.pc = "issued" => k.left >= k.life - k.age}

\* What a call returned.
Answers ==
    {g \in [sent : ScopeLists \cup {<<>>}, asked : ScopeLists \cup {<<>>},
            life : Nat, left : Nat, ok : BOOLEAN] :
        g.ok => /\ Names(g.sent) = Names(g.asked)
                /\ g.left >= Margin \/ g.left >= g.life - Timeout}

TokenInv ==
    /\ tokens \in Seq(TokenEntries)
    /\ call \in [Callers -> Calls]
    /\ given \in [Callers -> Answers]

ClientInv == IntrospectionInv /\ TokenInv
--------------------------------------------------------------------------------
(* Positions that are kept, and their ranks.                               *)

\* The positions of a sequence of length n.
LEMMA Positions ==
  ASSUME NEW n \in Nat
  PROVE  IsFiniteSet(1..n) /\ Cardinality(1..n) = n
  BY FS_Interval

\* No more positions are kept than there are.
LEMMA KeptIsFinite ==
  ASSUME NEW n \in Nat, NEW K \in SUBSET (1..n)
  PROVE  IsFiniteSet(K) /\ Cardinality(K) \in Nat /\ Cardinality(K) <= n
  <1>1. IsFiniteSet(1..n) /\ Cardinality(1..n) = n
    BY Positions
  <1> QED
    BY <1>1, FS_Subset, FS_CardinalityType, Zenon

\* Ranks grow with the positions.
LEMMA RankGrows ==
  ASSUME NEW n \in Nat, NEW K \in SUBSET (1..n), NEW i \in K
  PROVE  /\ Rank(K, i) \in 1..Cardinality(K)
         /\ \A j \in K : i < j => Rank(K, i) < Rank(K, j)
  <1> DEFINE UpTo(j) == {k \in K : k <= j}
  <1>1. \A j \in K : UpTo(j) \in SUBSET K /\ j \in UpTo(j)
    OBVIOUS
  <1>2. \A j \in K : IsFiniteSet(UpTo(j)) /\ Cardinality(UpTo(j)) \in Nat
    BY <1>1, KeptIsFinite
  <1>3. Cardinality(UpTo(i)) <= Cardinality(K)
    BY <1>1, KeptIsFinite, FS_Subset
  <1>4. Cardinality(UpTo(i)) # 0
    BY <1>1, <1>2, FS_EmptySet
  <1>5. ASSUME NEW j \in K, i < j
        PROVE  Cardinality(UpTo(i)) < Cardinality(UpTo(j))
    <2>1. UpTo(i) \in SUBSET UpTo(j) /\ j \notin UpTo(i)
      <3>1. ~(j <= i) /\ \A k \in K : k <= i => k <= j
        BY <1>5
      <3> QED
        BY <3>1, Zenon
    <2>2. Cardinality(UpTo(i)) <= Cardinality(UpTo(j))
          /\ Cardinality(UpTo(j)) # Cardinality(UpTo(i))
      BY <1>1, <1>2, <2>1, FS_Subset
    <2> QED
      BY <1>2, <2>2
  <1> HIDE DEF UpTo
  <1>6. Cardinality(UpTo(i)) \in 1..Cardinality(K)
    BY <1>2, <1>3, <1>4, KeptIsFinite
  <1>7. \A j \in K : Rank(K, j) = Cardinality(UpTo(j))
    BY DEF Rank, UpTo
  <1> QED
    BY <1>5, <1>6, <1>7

\* Ranks number what is kept from 1 to as many as there are.
LEMMA NthFacts ==
  ASSUME NEW n \in Nat, NEW K \in SUBSET (1..n)
  PROVE  /\ \A k \in 1..Cardinality(K) : Nth(K, k) \in K /\ Rank(K, Nth(K, k)) = k
         /\ \A i \in K : Rank(K, i) \in 1..Cardinality(K) /\ Nth(K, Rank(K, i)) = i
  <1> DEFINE c == Cardinality(K)
             rank == [i \in K |-> Rank(K, i)]
  <1>1. c \in Nat /\ IsFiniteSet(K)
    BY KeptIsFinite
  <1>2. \A i \in K : Rank(K, i) \in 1..c
    BY RankGrows
  <1>3. \A i, j \in K : Rank(K, i) = Rank(K, j) => i = j
    <2>1. \A i, j \in K : i < j => Rank(K, i) < Rank(K, j)
      BY RankGrows, Zenon
    <2> QED
      BY <1>1, <1>2, <2>1
  <1>4. IsFiniteSet(1..c) /\ Cardinality(1..c) = c
    BY <1>1, Positions
  <1>5. rank \in Injection(K, 1..c)
    BY <1>2, <1>3 DEF Injection, IsInjective
  <1>6. rank \in Surjection(K, 1..c)
    BY <1>4, <1>5, FS_Injection
  <1>7. \A k \in 1..c : \E i \in K : Rank(K, i) = k
    BY <1>6, Zenon DEF Surjection
  <1>8. \A k \in 1..c : Nth(K, k) \in K /\ Rank(K, Nth(K, k)) = k
    BY <1>7 DEF Nth
  <1> QED
    BY <1>2, <1>3, <1>8, Zenon

\* What is kept of a beginning is the beginning of what is kept.
LEMMA NthOfPrefix ==
  ASSUME NEW n \in Nat, NEW L \in SUBSET (1..n), NEW K \in SUBSET L,
         \A i \in K, j \in L : j <= i => j \in K
  PROVE  /\ Cardinality(K) <= Cardinality(L)
         /\ \A k \in 1..Cardinality(K) : Nth(L, k) = Nth(K, k)
  <1>1. Cardinality(K) <= Cardinality(L)
    BY KeptIsFinite, FS_Subset, Zenon
  <1>2. ASSUME NEW k \in 1..Cardinality(K)
        PROVE  Nth(L, k) = Nth(K, k)
    <2>1. Nth(K, k) \in K /\ Rank(K, Nth(K, k)) = k
      BY NthFacts
    <2>2. {j \in L : j <= Nth(K, k)} = {j \in K : j <= Nth(K, k)}
      BY <2>1, Zenon
    <2>3. Rank(L, Nth(K, k)) = k
      BY <2>1, <2>2 DEF Rank
    <2>4. Nth(K, k) \in L
      BY <2>1, Zenon
    <2>5. Nth(L, Rank(L, Nth(K, k))) = Nth(K, k)
      BY <2>4, NthFacts, Zenon
    <2> QED
      BY <2>3, <2>5
  <1> QED
    BY <1>1, <1>2

\* What Subsequence returns: the kept elements, in their order.
LEMMA SubsequenceFacts ==
  ASSUME NEW E, NEW q \in Seq(E), NEW K \in SUBSET (DOMAIN q)
  PROVE  /\ Subsequence(q, K) \in Seq(E)
         /\ Len(Subsequence(q, K)) = Cardinality(K) /\ Cardinality(K) <= Len(q)
         /\ DOMAIN Subsequence(q, K) = 1..Cardinality(K)
         /\ \A n \in 1..Cardinality(K) :
               Nth(K, n) \in K /\ Subsequence(q, K)[n] = q[Nth(K, n)]
  <1>1. Len(q) \in Nat /\ DOMAIN q = 1..Len(q) /\ \A i \in DOMAIN q : q[i] \in E
    OBVIOUS
  <1>2. Cardinality(K) \in Nat /\ Cardinality(K) <= Len(q)
    BY <1>1, KeptIsFinite
  <1>3. \A n \in 1..Cardinality(K) : Nth(K, n) \in K
    BY <1>1, NthFacts, Zenon
  <1>4. Subsequence(q, K) \in [1..Cardinality(K) -> E]
    BY <1>1, <1>3 DEF Subsequence
  <1> QED
    BY <1>2, <1>3, <1>4 DEF Subsequence

\* Positions stay apart.
LEMMA SubsequenceIsInjective ==
  ASSUME NEW E, NEW q \in Seq(E), NEW K \in SUBSET (DOMAIN q),
         NEW m \in 1..Cardinality(K), NEW n \in 1..Cardinality(K),
         Nth(K, m) = Nth(K, n)
  PROVE  m = n
  <1>1. Len(q) \in Nat /\ DOMAIN q = 1..Len(q)
    OBVIOUS
  <1> QED
    BY <1>1, NthFacts, Zenon

\* An element put in front moves the others back by one.
LEMMA PushFacts ==
  ASSUME NEW E, NEW q \in Seq(E), NEW e \in E
  PROVE  /\ <<e>> \o q \in Seq(E) /\ Len(<<e>> \o q) = Len(q) + 1
         /\ DOMAIN (<<e>> \o q) = 1..(Len(q) + 1)
         /\ (<<e>> \o q)[1] = e
         /\ \A i \in 2..(Len(q) + 1) : i - 1 \in DOMAIN q /\ (<<e>> \o q)[i] = q[i - 1]
  OBVIOUS

\* What is left without the last element.
LEMMA PopFacts ==
  ASSUME NEW E, NEW q \in Seq(E), q # <<>>
  PROVE  /\ SubSeq(q, 1, Len(q) - 1) \in Seq(E)
         /\ Len(SubSeq(q, 1, Len(q) - 1)) = Len(q) - 1
         /\ DOMAIN SubSeq(q, 1, Len(q) - 1) = 1..(Len(q) - 1)
         /\ \A i \in 1..(Len(q) - 1) :
               i \in DOMAIN q /\ SubSeq(q, 1, Len(q) - 1)[i] = q[i]
  <1>1. Len(q) \in Nat \ {0} /\ DOMAIN q = 1..Len(q) /\ \A i \in DOMAIN q : q[i] \in E
    OBVIOUS
  <1>2. Len(q) - 1 \in Nat /\ \A i \in 1..(Len(q) - 1) : i \in DOMAIN q
    BY <1>1
  <1>3. /\ SubSeq(q, 1, Len(q) - 1) \in Seq(E)
        /\ Len(SubSeq(q, 1, Len(q) - 1)) = Len(q) - 1
        /\ \A i \in 1..(Len(q) - 1) : SubSeq(q, 1, Len(q) - 1)[i] = q[i]
    BY <1>1, <1>2, SubSeqProperties, SMTT(20)
  <1> QED
    BY <1>2, <1>3
--------------------------------------------------------------------------------
(* What the operations of the list keep.                                   *)

\* Nothing changes where everything is kept.
LEMMA KeepAll ==
  ASSUME NEW E, NEW q \in Seq(E)
  PROVE  Subsequence(q, DOMAIN q) = q
  <1>1. Len(q) \in Nat /\ DOMAIN q = 1..Len(q) /\ Cardinality(1..Len(q)) = Len(q)
    <2>1. Len(q) \in Nat /\ DOMAIN q = 1..Len(q)
      OBVIOUS
    <2> QED
      BY <2>1, Positions
  <1>2. ASSUME NEW i \in 1..Len(q)
        PROVE  Nth(1..Len(q), i) = i
    <2>1. {j \in 1..Len(q) : j <= i} = 1..i
      BY <1>1
    <2>2. Rank(1..Len(q), i) = i
      <3>1. i \in Nat
        OBVIOUS
      <3>2. Cardinality(1..i) = i
        BY <3>1, Positions
      <3> QED
        BY <2>1, <3>2, Zenon DEF Rank
    <2>3. Nth(1..Len(q), Rank(1..Len(q), i)) = i
      BY <1>1, NthFacts, Zenon
    <2> QED
      BY <2>2, <2>3
  <1>3. Subsequence(q, DOMAIN q) = [n \in 1..Len(q) |-> q[n]]
    BY <1>1, <1>2 DEF Subsequence
  <1> QED
    BY <1>1, <1>3

\* The entry of a key that is there is an element of the list.
LEMMA EntryFacts ==
  ASSUME NEW E, NEW q \in Seq(E), NEW k \in Keys(q)
  PROVE  \E i \in DOMAIN q : q[i].key = k /\ Entry(q, k) = q[i] /\ q[i] \in E
  <1>1. \E i \in DOMAIN q : q[i].key = k
    BY DEF Keys
  <1>2. PICK i \in DOMAIN q : q[i].key = k /\ Entry(q, k) = q[i]
    BY <1>1, Zenon DEF Entry
  <1> QED
    BY <1>2

\* Without drops the elements of one key and nothing else.
LEMMA WithoutFacts ==
  ASSUME NEW E, NEW q \in Seq(E), NEW k
  PROVE  /\ Without(q, k) \in Seq(E) /\ Len(Without(q, k)) <= Len(q)
         /\ k \in Keys(q) => Len(Without(q, k)) < Len(q)
         /\ k \notin Keys(q) => Without(q, k) = q
         /\ \A i \in DOMAIN Without(q, k) :
               \E j \in DOMAIN q : Without(q, k)[i] = q[j] /\ q[j].key # k
  <1> DEFINE K == {i \in DOMAIN q : q[i].key # k}
  <1>1. /\ Without(q, k) = Subsequence(q, K) /\ K \in SUBSET (DOMAIN q)
        /\ \A i \in K : i \in DOMAIN q /\ q[i].key # k
    BY DEF Without
  <1>2. k \in Keys(q) <=> K # DOMAIN q
    BY Zenon DEF Keys
  <1>3. Len(q) \in Nat /\ DOMAIN q = 1..Len(q)
        /\ IsFiniteSet(1..Len(q)) /\ Cardinality(1..Len(q)) = Len(q)
    <2>1. Len(q) \in Nat /\ DOMAIN q = 1..Len(q)
      OBVIOUS
    <2> QED
      BY <2>1, Positions
  <1> HIDE DEF K
  <1>4. Cardinality(K) \in Nat
    BY <1>1, <1>3, KeptIsFinite
  <1>5. K # DOMAIN q => Cardinality(K) # Len(q)
    BY <1>1, <1>3, FS_Subset
  <1>6. /\ Without(q, k) \in Seq(E)
        /\ Len(Without(q, k)) = Cardinality(K) /\ Cardinality(K) <= Len(q)
        /\ DOMAIN Without(q, k) = 1..Cardinality(K)
        /\ \A n \in 1..Cardinality(K) :
              Nth(K, n) \in K /\ Without(q, k)[n] = q[Nth(K, n)]
    BY <1>1, SubsequenceFacts
  <1>7. \A i \in DOMAIN Without(q, k) :
           \E j \in DOMAIN q : Without(q, k)[i] = q[j] /\ q[j].key # k
    BY <1>1, <1>6
  <1>8. k \notin Keys(q) => Without(q, k) = q
    BY <1>1, <1>2, KeepAll
  <1> QED
    BY <1>2, <1>3, <1>4, <1>5, <1>6, <1>7, <1>8

\* Get neither adds nor alters an element.
LEMMA GetFacts ==
  ASSUME NEW E, NEW q \in Seq(E), NEW k
  PROVE  /\ Get(q, k) \in Seq(E) /\ Len(Get(q, k)) <= Len(q)
         /\ \A i \in DOMAIN Get(q, k) : \E j \in DOMAIN q : Get(q, k)[i] = q[j]
  <1>1. CASE k \notin Keys(q)
    BY <1>1 DEF Get
  <1>2. CASE k \in Keys(q)
    <2>1. PICK i \in DOMAIN q : Entry(q, k) = q[i] /\ q[i] \in E
      BY <1>2, EntryFacts
    <2>2. Get(q, k) = <<q[i]>> \o Without(q, k)
      BY <1>2, <2>1 DEF Get
    <2>3. /\ Without(q, k) \in Seq(E) /\ Len(Without(q, k)) < Len(q)
          /\ \A n \in DOMAIN Without(q, k) : \E j \in DOMAIN q : Without(q, k)[n] = q[j]
      BY <1>2, WithoutFacts
    <2>4. /\ Get(q, k) \in Seq(E) /\ Len(Get(q, k)) = Len(Without(q, k)) + 1
          /\ DOMAIN Get(q, k) = 1..(Len(Without(q, k)) + 1)
          /\ Get(q, k)[1] = q[i]
          /\ \A n \in 2..(Len(Without(q, k)) + 1) :
                n - 1 \in DOMAIN Without(q, k) /\ Get(q, k)[n] = Without(q, k)[n - 1]
      BY <2>1, <2>2, <2>3, PushFacts
    <2>5. Len(Without(q, k)) \in Nat /\ Len(q) \in Nat
      BY <2>3
    <2>6. ASSUME NEW n \in DOMAIN Get(q, k)
          PROVE  \E j \in DOMAIN q : Get(q, k)[n] = q[j]
      <3>1. n = 1 \/ n \in 2..(Len(Without(q, k)) + 1)
        BY <2>4, <2>5
      <3> QED
        BY <2>3, <2>4, <3>1
    <2> QED
      BY <2>3, <2>4, <2>5, <2>6
  <1> QED
    BY <1>1, <1>2

\* Put keeps to the capacity and adds nothing but its element.
LEMMA PutFacts ==
  ASSUME NEW E, NEW q \in Seq(E), NEW e \in E
  PROVE  /\ Put(q, e) \in Seq(E)
         /\ Len(q) <= MaxSize => Len(Put(q, e)) <= MaxSize
         /\ \A i \in DOMAIN Put(q, e) :
               Put(q, e)[i] = e \/ \E j \in DOMAIN q : Put(q, e)[i] = q[j]
  <1> DEFINE w == Without(q, e.key)
             front == <<e>> \o w
  <1>1. /\ w \in Seq(E) /\ Len(w) <= Len(q)
        /\ \A i \in DOMAIN w : \E j \in DOMAIN q : w[i] = q[j]
    BY WithoutFacts
  <1> HIDE DEF w
  <1>2. /\ front \in Seq(E) /\ Len(front) = Len(w) + 1
        /\ DOMAIN front = 1..(Len(w) + 1) /\ front[1] = e
        /\ \A i \in 2..(Len(w) + 1) : i - 1 \in DOMAIN w /\ front[i] = w[i - 1]
    BY <1>1, PushFacts
  <1> HIDE DEF front
  <1>3. Len(w) \in Nat /\ Len(q) \in Nat
    BY <1>1
  <1>4. \A i \in DOMAIN front : front[i] = e \/ \E j \in DOMAIN q : front[i] = q[j]
    <2>1. \A i \in DOMAIN front : i = 1 \/ i \in 2..(Len(w) + 1)
      BY <1>2, <1>3
    <2> QED
      BY <1>1, <1>2, <2>1
  <1>5. Put(q, e) = IF Len(front) > MaxSize THEN SubSeq(front, 1, Len(front) - 1) ELSE front
    BY DEF Put, front, w
  <1>6. CASE Len(front) > MaxSize
    <2>1. front # <<>>
      BY <1>2, <1>3
    <2>2. /\ Put(q, e) \in Seq(E) /\ Len(Put(q, e)) = Len(front) - 1
          /\ DOMAIN Put(q, e) = 1..(Len(front) - 1)
          /\ \A i \in 1..(Len(front) - 1) : i \in DOMAIN front /\ Put(q, e)[i] = front[i]
      BY <1>2, <1>5, <1>6, <2>1, PopFacts
    <2>3. Len(q) <= MaxSize => Len(front) - 1 <= MaxSize
      BY <1>1, <1>2, <1>3, MaxSizeAssumption
    <2> QED
      BY <1>4, <2>2, <2>3
  <1>7. CASE ~(Len(front) > MaxSize)
    <2>1. Put(q, e) = front
      BY <1>5, <1>7
    <2>2. Len(front) <= MaxSize
      BY <1>2, <1>3, <1>7, MaxSizeAssumption
    <2> QED
      BY <1>2, <1>4, <2>1, <2>2
  <1> QED
    BY <1>6, <1>7
--------------------------------------------------------------------------------
(* One element per key.                                                    *)

\* Dropping elements keeps the keys apart.
LEMMA OnePerKeyKept ==
  ASSUME NEW E, NEW q \in Seq(E), OnePerKey(q), NEW K \in SUBSET (DOMAIN q)
  PROVE  OnePerKey(Subsequence(q, K))
  <1>1. /\ DOMAIN Subsequence(q, K) = 1..Cardinality(K)
        /\ \A n \in 1..Cardinality(K) :
              Nth(K, n) \in K /\ Subsequence(q, K)[n] = q[Nth(K, n)]
    BY SubsequenceFacts
  <1>2. ASSUME NEW m \in 1..Cardinality(K), NEW n \in 1..Cardinality(K),
               q[Nth(K, m)].key = q[Nth(K, n)].key
        PROVE  m = n
    <2>1. Nth(K, m) = Nth(K, n)
      BY <1>1, <1>2 DEF OnePerKey
    <2> QED
      BY <2>1, SubsequenceIsInjective
  <1> QED
    BY <1>1, <1>2 DEF OnePerKey

\* So does an element of a new key.
LEMMA OnePerKeyPushed ==
  ASSUME NEW E, NEW q \in Seq(E), OnePerKey(q), NEW e \in E,
         \A i \in DOMAIN q : q[i].key # e.key
  PROVE  OnePerKey(<<e>> \o q)
  <1> DEFINE front == <<e>> \o q
  <1>1. /\ DOMAIN front = 1..(Len(q) + 1) /\ front[1] = e
        /\ \A i \in 2..(Len(q) + 1) : i - 1 \in DOMAIN q /\ front[i] = q[i - 1]
    BY PushFacts
  <1>2. Len(q) \in Nat
    OBVIOUS
  <1> HIDE DEF front
  <1>3. ASSUME NEW i \in DOMAIN front, NEW j \in DOMAIN front, front[i].key = front[j].key
        PROVE  i = j
    <2>1. /\ i \in Int /\ j \in Int
          /\ i = 1 \/ i \in 2..(Len(q) + 1)
          /\ j = 1 \/ j \in 2..(Len(q) + 1)
      BY <1>1, <1>2
    <2>2. CASE i # 1 /\ j # 1
      <3>1. i - 1 = j - 1
        BY <1>1, <1>3, <2>1, <2>2 DEF OnePerKey
      <3> QED
        BY <2>1, <3>1
    <2>3. CASE i = 1 \/ j = 1
      BY <1>1, <1>3, <2>1, <2>3
    <2> QED
      BY <2>2, <2>3
  <1> QED
    BY <1>3 DEF OnePerKey, front

\* So do Get and the removal of a key.
LEMMA OnePerKeyGot ==
  ASSUME NEW E, NEW q \in Seq(E), OnePerKey(q), NEW k
  PROVE  OnePerKey(Without(q, k)) /\ OnePerKey(Get(q, k))
  <1>1. OnePerKey(Without(q, k))
    <2>1. {i \in DOMAIN q : q[i].key # k} \in SUBSET (DOMAIN q)
      OBVIOUS
    <2> QED
      BY <2>1, OnePerKeyKept DEF Without
  <1>2. CASE k \in Keys(q)
    <2>1. Entry(q, k) \in E /\ Entry(q, k).key = k
      BY <1>2, EntryFacts
    <2>2. Without(q, k) \in Seq(E) /\ \A i \in DOMAIN Without(q, k) : Without(q, k)[i].key # k
      BY WithoutFacts
    <2>3. OnePerKey(<<Entry(q, k)>> \o Without(q, k))
      BY <1>1, <2>1, <2>2, OnePerKeyPushed
    <2> QED
      BY <1>1, <1>2, <2>3 DEF Get
  <1>3. CASE k \notin Keys(q)
    BY <1>1, <1>3 DEF Get
  <1> QED
    BY <1>2, <1>3

\* So does Put, which removes the key first.
LEMMA OnePerKeyPut ==
  ASSUME NEW E, NEW q \in Seq(E), OnePerKey(q), NEW e \in E
  PROVE  OnePerKey(Put(q, e))
  <1> DEFINE front == <<e>> \o Without(q, e.key)
  <1>1. /\ Without(q, e.key) \in Seq(E)
        /\ \A i \in DOMAIN Without(q, e.key) : Without(q, e.key)[i].key # e.key
    BY WithoutFacts
  <1>2. OnePerKey(front)
    BY <1>1, OnePerKeyGot, OnePerKeyPushed
  <1>3. front \in Seq(E) /\ Len(front) = Len(Without(q, e.key)) + 1
    BY <1>1, PushFacts
  <1>4. front # <<>>
    BY <1>1, <1>3
  <1> HIDE DEF front
  <1>5. OnePerKey(SubSeq(front, 1, Len(front) - 1))
    BY <1>2, <1>3, <1>4, PopFacts DEF OnePerKey
  <1>6. Put(q, e) = IF Len(front) > MaxSize THEN SubSeq(front, 1, Len(front) - 1) ELSE front
    BY DEF Put, front
  <1> QED
    BY <1>2, <1>5, <1>6
--------------------------------------------------------------------------------
(* The keys of the list are the first ones of the history.                 *)

\* The list leads the history where both drop the same positions.
LEMMA LeadsKept ==
  ASSUME NEW E, NEW T, NEW q \in Seq(E), NEW r \in Seq(T), Leads(q, r),
         NEW K \in SUBSET (DOMAIN q), NEW L \in SUBSET (DOMAIN r), K = L \cap DOMAIN q
  PROVE  Leads(Subsequence(q, K), Subsequence(r, L))
  <1>1. /\ Len(q) \in Nat /\ DOMAIN q = 1..Len(q)
        /\ Len(r) \in Nat /\ DOMAIN r = 1..Len(r) /\ Len(q) <= Len(r)
    BY DEF Leads
  <1>2. /\ Cardinality(K) <= Cardinality(L)
        /\ \A k \in 1..Cardinality(K) : Nth(L, k) = Nth(K, k)
    <2>1. L \in SUBSET (1..Len(r)) /\ K \in SUBSET L
      BY <1>1
    <2>2. \A i \in K, j \in L : j <= i => j \in K
      <3>1. \A i \in K, j \in L : j <= i => j \in 1..Len(q)
        BY <1>1
      <3> QED
        BY <1>1, <3>1
    <2> QED
      BY <1>1, <2>1, <2>2, NthOfPrefix, Zenon
  <1>3. Cardinality(K) \in Nat /\ Cardinality(L) \in Nat
    BY <1>1, KeptIsFinite
  <1>4. /\ Len(Subsequence(q, K)) = Cardinality(K)
        /\ DOMAIN Subsequence(q, K) = 1..Cardinality(K)
        /\ \A n \in 1..Cardinality(K) :
              Nth(K, n) \in K /\ Subsequence(q, K)[n] = q[Nth(K, n)]
    BY SubsequenceFacts
  <1>5. /\ Len(Subsequence(r, L)) = Cardinality(L)
        /\ \A n \in 1..Cardinality(L) : Subsequence(r, L)[n] = r[Nth(L, n)]
    BY SubsequenceFacts
  <1>6. ASSUME NEW n \in 1..Cardinality(K)
        PROVE  Subsequence(q, K)[n].key = Subsequence(r, L)[n]
    <2>1. n \in 1..Cardinality(L)
      BY <1>2, <1>3
    <2>2. q[Nth(K, n)].key = r[Nth(K, n)]
      BY <1>4, Zenon DEF Leads
    <2> QED
      BY <1>2, <1>4, <1>5, <2>1, <2>2, Zenon
  <1> QED
    BY <1>2, <1>4, <1>5, <1>6, Zenon DEF Leads

\* A key that comes first in both.
LEMMA LeadsPushed ==
  ASSUME NEW E, NEW T, NEW q \in Seq(E), NEW r \in Seq(T), Leads(q, r),
         NEW e \in E, e.key \in T
  PROVE  Leads(<<e>> \o q, <<e.key>> \o r)
  <1> DEFINE front == <<e>> \o q
             used == <<e.key>> \o r
  <1>1. /\ Len(q) \in Nat /\ Len(r) \in Nat /\ Len(q) <= Len(r)
        /\ DOMAIN q = 1..Len(q) /\ \A i \in DOMAIN q : q[i].key = r[i]
    BY DEF Leads
  <1>2. /\ Len(front) = Len(q) + 1 /\ DOMAIN front = 1..(Len(q) + 1) /\ front[1] = e
        /\ \A i \in 2..(Len(q) + 1) : i - 1 \in DOMAIN q /\ front[i] = q[i - 1]
    BY PushFacts
  <1>3. /\ Len(used) = Len(r) + 1 /\ used[1] = e.key
        /\ \A i \in 2..(Len(r) + 1) : used[i] = r[i - 1]
    BY PushFacts
  <1> HIDE DEF front, used
  <1>4. ASSUME NEW i \in DOMAIN front
        PROVE  front[i].key = used[i]
    <2>1. CASE i = 1
      BY <1>2, <1>3, <2>1
    <2>2. CASE i # 1
      <3>1. i \in 2..(Len(q) + 1) /\ i \in 2..(Len(r) + 1)
        BY <1>1, <1>2, <2>2
      <3> QED
        BY <1>1, <1>2, <1>3, <3>1, Zenon
    <2> QED
      BY <2>1, <2>2
  <1>5. Len(front) <= Len(used)
    BY <1>1, <1>2, <1>3
  <1> QED
    BY <1>4, <1>5 DEF Leads, front, used

\* Eviction shortens the list only: it still leads.
LEMMA LeadsPopped ==
  ASSUME NEW E, NEW T, NEW q \in Seq(E), NEW r \in Seq(T), Leads(q, r), q # <<>>
  PROVE  Leads(SubSeq(q, 1, Len(q) - 1), r)
  <1>1. Len(q) \in Nat /\ Len(r) \in Nat
    OBVIOUS
  <1>2. /\ Len(SubSeq(q, 1, Len(q) - 1)) = Len(q) - 1
        /\ DOMAIN SubSeq(q, 1, Len(q) - 1) = 1..(Len(q) - 1)
        /\ \A i \in 1..(Len(q) - 1) :
              i \in DOMAIN q /\ SubSeq(q, 1, Len(q) - 1)[i] = q[i]
    BY PopFacts
  <1>3. Len(q) - 1 <= Len(r)
    BY <1>1 DEF Leads
  <1> QED
    BY <1>2, <1>3 DEF Leads

\* The history remains one of tokens.
LEMMA ForgetFacts ==
  ASSUME NEW T, NEW r \in Seq(T), NEW S, NEW t \in T
  PROVE  Forget(r, S) \in Seq(T) /\ Touch(r, t) \in Seq(T)
  <1>1. \A G : Forget(r, G) \in Seq(T)
    BY SubsequenceFacts DEF Forget
  <1>2. <<t>> \o Forget(r, {t}) \in Seq(T)
    BY <1>1, PushFacts
  <1> QED
    BY <1>1, <1>2 DEF Touch

\* A key that leaves both.
LEMMA LeadsWithout ==
  ASSUME NEW E, NEW T, NEW q \in Seq(E), NEW r \in Seq(T), Leads(q, r), NEW k
  PROVE  Leads(Without(q, k), Forget(r, {k}))
  <1> DEFINE K == {i \in DOMAIN q : q[i].key # k}
             L == {i \in DOMAIN r : r[i] \notin {k}}
  <1>1. Len(q) \in Nat /\ Len(r) \in Nat /\ DOMAIN q = 1..Len(q) /\ DOMAIN r = 1..Len(r)
    OBVIOUS
  <1>2. \A i \in DOMAIN q : i \in DOMAIN r /\ q[i].key = r[i]
    BY <1>1 DEF Leads
  <1>3. K \in SUBSET (DOMAIN q) /\ L \in SUBSET (DOMAIN r) /\ K = L \cap DOMAIN q
    BY <1>2
  <1>4. Leads(Subsequence(q, K), Subsequence(r, L))
    BY <1>3, LeadsKept, Zenon
  <1> QED
    BY <1>4 DEF Without, Forget

\* Get of a key that is there, and Put.
LEMMA LeadsGot ==
  ASSUME NEW E, NEW T, NEW q \in Seq(E), NEW r \in Seq(T), Leads(q, r),
         NEW k \in T, k \in Keys(q)
  PROVE  Leads(Get(q, k), Touch(r, k))
  <1>1. Without(q, k) \in Seq(E) /\ Forget(r, {k}) \in Seq(T)
    BY WithoutFacts, ForgetFacts
  <1>2. Leads(Without(q, k), Forget(r, {k}))
    BY LeadsWithout
  <1>3. PICK e \in E : e.key = k /\ Entry(q, k) = e
    BY EntryFacts
  <1>4. Leads(<<e>> \o Without(q, k), <<e.key>> \o Forget(r, {k}))
    BY <1>1, <1>2, <1>3, LeadsPushed
  <1> QED
    BY <1>3, <1>4 DEF Get, Touch

\* Put makes its key the most recent one, before it evicts.
LEMMA LeadsPut ==
  ASSUME NEW E, NEW T, NEW q \in Seq(E), NEW r \in Seq(T), Leads(q, r),
         NEW e \in E, e.key \in T
  PROVE  Leads(Put(q, e), Touch(r, e.key))
  <1> DEFINE front == <<e>> \o Without(q, e.key)
             used == Touch(r, e.key)
  <1>1. Without(q, e.key) \in Seq(E) /\ Forget(r, {e.key}) \in Seq(T)
    BY WithoutFacts, ForgetFacts
  <1>2. Leads(front, used)
    BY <1>1, LeadsWithout, LeadsPushed, Zenon DEF Touch
  <1>3. front \in Seq(E) /\ Len(front) = Len(Without(q, e.key)) + 1 /\ used \in Seq(T)
    BY <1>1, PushFacts, ForgetFacts
  <1>4. front # <<>>
    BY <1>1, <1>3
  <1>5. Put(q, e) = IF Len(front) > MaxSize THEN SubSeq(front, 1, Len(front) - 1) ELSE front
    BY DEF Put
  <1> HIDE DEF front, used
  <1>6. Leads(SubSeq(front, 1, Len(front) - 1), used)
    BY <1>2, <1>3, <1>4, LeadsPopped
  <1>7. Leads(Put(q, e), used)
    BY <1>2, <1>5, <1>6
  <1> QED
    BY <1>7 DEF used

\* The prune of storeIntrospection: what goes from the list goes from the history,
\* because no other element has its key.
LEMMA LeadsPruned ==
  ASSUME NEW E, NEW T, NEW q \in Seq(E), NEW r \in Seq(T), Leads(q, r), OnePerKey(q),
         NEW X
  PROVE  Leads(DeleteFunc(q, X), Forget(r, Keys(q) \ Keys(DeleteFunc(q, X))))
  <1> DEFINE K == {i \in DOMAIN q : q[i] \notin X}
             kept == Subsequence(q, K)
             gone == Keys(q) \ Keys(kept)
             L == {i \in DOMAIN r : r[i] \notin gone}
  <1>1. Len(q) \in Nat /\ Len(r) \in Nat /\ DOMAIN q = 1..Len(q) /\ DOMAIN r = 1..Len(r)
    OBVIOUS
  <1>2. \A i \in DOMAIN q : i \in DOMAIN r /\ q[i].key = r[i]
    BY <1>1 DEF Leads
  <1>3. K \in SUBSET (DOMAIN q)
    OBVIOUS
  <1> HIDE DEF K
  <1>4. /\ DOMAIN kept = 1..Cardinality(K)
        /\ \A n \in 1..Cardinality(K) : Nth(K, n) \in K /\ kept[n] = q[Nth(K, n)]
    BY <1>3, SubsequenceFacts, Zenon
  <1>5. \A i \in K : Rank(K, i) \in 1..Cardinality(K) /\ Nth(K, Rank(K, i)) = i
    BY <1>1, <1>3, NthFacts, Zenon
  <1> HIDE DEF kept
  <1>6. \A i \in K : q[i].key \in Keys(kept)
    BY <1>4, <1>5 DEF Keys
  <1>7. ASSUME NEW i \in DOMAIN q, q[i].key \in Keys(kept)
        PROVE  i \in K
    <2>1. PICK n \in DOMAIN kept : kept[n].key = q[i].key
      BY <1>7 DEF Keys
    <2>2. Nth(K, n) \in K /\ q[Nth(K, n)].key = q[i].key
      BY <1>4, <2>1
    <2>3. Nth(K, n) = i
      BY <1>3, <2>2 DEF OnePerKey
    <2> QED
      BY <2>2, <2>3
  <1>8. \A i \in DOMAIN q : i \in K <=> q[i].key \notin gone
    BY <1>6, <1>7 DEF Keys
  <1>9. L \in SUBSET (DOMAIN r)
    OBVIOUS
  <1>10. K = L \cap DOMAIN q
    BY <1>2, <1>3, <1>8
  <1> HIDE DEF L
  <1>11. Leads(kept, Subsequence(r, L))
    BY <1>3, <1>9, <1>10, LeadsKept DEF kept
  <1>12. DeleteFunc(q, X) = kept
    BY DEF DeleteFunc, kept, K
  <1>13. Forget(r, Keys(q) \ Keys(kept)) = Subsequence(r, L)
    BY DEF Forget, L
  <1> QED
    BY <1>11, <1>12, <1>13
--------------------------------------------------------------------------------
(* Introspection.                                                          *)

\* A lookup that finds an entry makes it the most recent one.
LEMMA PromoteFacts ==
  ASSUME NEW q, NEW r, NEW t \in Tokens, Listed(q, r), t \in Keys(q)
  PROVE  /\ Listed(Get(q, t), Touch(r, t))
         /\ PartOf(Get(q, t), q)
  <1>1. /\ q \in Seq(CacheEntries) /\ r \in Seq(Tokens)
        /\ OnePerKey(q) /\ Leads(q, r) /\ Len(q) <= MaxSize
    BY Zenon DEF Listed
  <1>2. /\ Get(q, t) \in Seq(CacheEntries) /\ Len(Get(q, t)) <= Len(q)
        /\ \A i \in DOMAIN Get(q, t) : \E j \in DOMAIN q : Get(q, t)[i] = q[j]
    BY <1>1, GetFacts
  <1>3. OnePerKey(Get(q, t)) /\ Leads(Get(q, t), Touch(r, t)) /\ Touch(r, t) \in Seq(Tokens)
    BY <1>1, OnePerKeyGot, LeadsGot, ForgetFacts, Zenon
  <1>4. Len(Get(q, t)) <= MaxSize
    <2>1. Len(q) \in Nat /\ Len(Get(q, t)) \in Nat
      BY <1>1, <1>2
    <2> QED
      BY <1>1, <1>2, <2>1, MaxSizeAssumption
  <1> QED
    BY <1>2, <1>3, <1>4 DEF Listed, PartOf

\* Deleting a token keeps the order of the others.
LEMMA DeleteFacts ==
  ASSUME NEW q, NEW r, NEW t \in Tokens, Listed(q, r)
  PROVE  /\ t \in Keys(q) => Listed(Delete(q, t), Forget(r, {t}))
         /\ t \notin Keys(q) => Listed(Delete(q, t), r)
         /\ PartOf(Delete(q, t), q)
  <1>1. /\ q \in Seq(CacheEntries) /\ r \in Seq(Tokens)
        /\ OnePerKey(q) /\ Leads(q, r) /\ Len(q) <= MaxSize
    BY DEF Listed
  <1>2. /\ Delete(q, t) \in Seq(CacheEntries) /\ Len(Delete(q, t)) <= Len(q)
        /\ \A i \in DOMAIN Delete(q, t) : \E j \in DOMAIN q : Delete(q, t)[i] = q[j]
    BY <1>1, WithoutFacts DEF Delete
  <1>3. OnePerKey(Delete(q, t)) /\ Forget(r, {t}) \in Seq(Tokens)
    BY <1>1, OnePerKeyGot, ForgetFacts DEF Delete
  <1>4. /\ t \in Keys(q) => Leads(Delete(q, t), Forget(r, {t}))
        /\ t \notin Keys(q) => Leads(Delete(q, t), r)
    BY <1>1, LeadsWithout, WithoutFacts DEF Delete
  <1>5. Len(Delete(q, t)) <= MaxSize
    <2>1. Len(q) \in Nat /\ Len(Delete(q, t)) \in Nat
      BY <1>1, <1>2
    <2> QED
      BY <1>1, <1>2, <2>1, MaxSizeAssumption
  <1> QED
    BY <1>1, <1>2, <1>3, <1>4, <1>5 DEF Listed, PartOf

\* Pruning the expired entries keeps the order of the others.
LEMMA PruneFacts ==
  ASSUME NEW q, NEW r, NEW X, Listed(q, r)
  PROVE  /\ Listed(DeleteFunc(q, X), Forget(r, Keys(q) \ Keys(DeleteFunc(q, X))))
         /\ PartOf(DeleteFunc(q, X), q)
  <1> DEFINE K == {i \in DOMAIN q : q[i] \notin X}
             gone == Keys(q) \ Keys(DeleteFunc(q, X))
  <1>1. /\ q \in Seq(CacheEntries) /\ r \in Seq(Tokens)
        /\ OnePerKey(q) /\ Leads(q, r) /\ Len(q) <= MaxSize
    BY DEF Listed
  <1>2. K \in SUBSET (DOMAIN q) /\ DeleteFunc(q, X) = Subsequence(q, K)
    BY DEF DeleteFunc
  <1>3. Leads(DeleteFunc(q, X), Forget(r, gone))
    BY <1>1, LeadsPruned
  <1> HIDE DEF K, gone
  <1>4. /\ DeleteFunc(q, X) \in Seq(CacheEntries) /\ Len(DeleteFunc(q, X)) <= Len(q)
        /\ \A i \in DOMAIN DeleteFunc(q, X) :
              \E j \in DOMAIN q : DeleteFunc(q, X)[i] = q[j]
    BY <1>1, <1>2, SubsequenceFacts
  <1>5. OnePerKey(DeleteFunc(q, X))
    BY <1>1, <1>2, OnePerKeyKept
  <1>6. Forget(r, gone) \in Seq(Tokens)
    BY <1>1, SubsequenceFacts DEF Forget
  <1>7. Len(DeleteFunc(q, X)) <= MaxSize
    <2>1. Len(q) \in Nat /\ Len(DeleteFunc(q, X)) \in Nat
      BY <1>1, <1>4
    <2> QED
      BY <1>1, <1>4, <2>1, MaxSizeAssumption
  <1> QED
    BY <1>3, <1>4, <1>5, <1>6, <1>7 DEF Listed, PartOf, gone

\* Storing an answer keeps to the capacity and the order.
LEMMA StoreFacts ==
  ASSUME NEW q, NEW r, NEW e \in CacheEntries, Listed(q, r)
  PROVE  /\ Listed(Put(q, e), Touch(r, e.key))
         /\ \A i \in DOMAIN Put(q, e) :
               Put(q, e)[i] = e \/ \E j \in DOMAIN q : Put(q, e)[i] = q[j]
  <1>1. /\ q \in Seq(CacheEntries) /\ r \in Seq(Tokens)
        /\ OnePerKey(q) /\ Leads(q, r) /\ Len(q) <= MaxSize
    BY DEF Listed
  <1>2. e.key \in Tokens
    BY DEF CacheEntries
  <1>3. /\ Put(q, e) \in Seq(CacheEntries) /\ Len(Put(q, e)) <= MaxSize
        /\ \A i \in DOMAIN Put(q, e) :
              Put(q, e)[i] = e \/ \E j \in DOMAIN q : Put(q, e)[i] = q[j]
    BY <1>1, PutFacts
  <1>4. OnePerKey(Put(q, e)) /\ Leads(Put(q, e), Touch(r, e.key))
    BY <1>1, <1>2, OnePerKeyPut, LeadsPut
  <1>5. Touch(r, e.key) \in Seq(Tokens)
    BY <1>1, <1>2, ForgetFacts, Zenon
  <1> QED
    BY <1>3, <1>4, <1>5 DEF Listed
--------------------------------------------------------------------------------
\* A call begins: a hit is served and promoted, a miss asks the service.
LEMMA StartKeeps ==
  ASSUME Listed(cache, recent), Recent(cache), CallsOK,
         NEW c \in Callers, NEW t \in Tokens, Start(c, t)
  PROVE  Listed(cache, recent)' /\ Recent(cache)' /\ CallsOK'
  <1>1. /\ Listed(cache', recent')
        /\ PartOf(cache', cache)
    <2>1. CASE cachedIntrospection(t)
      BY <2>1, PromoteFacts DEF Start, cachedIntrospection
    <2>2. CASE ~cachedIntrospection(t)
      <3>1. /\ t \in Keys(cache) => Listed(Delete(cache, t), Forget(recent, {t}))
            /\ t \notin Keys(cache) => Listed(Delete(cache, t), recent)
            /\ PartOf(Delete(cache, t), cache)
        BY DeleteFacts
      <3>2. /\ cache' = Delete(cache, t)
            /\ recent' = IF t \in Keys(cache) THEN Forget(recent, {t}) ELSE recent
        BY <2>2 DEF Start
      <3> QED
        BY <3>1, <3>2
    <2> QED
      BY <2>1, <2>2, Zenon
  <1>2. Listed(cache, recent)'
    BY <1>1 DEF Listed, CacheEntries
  <1>3. Recent(cache)'
    BY <1>1, Zenon DEF Recent, PartOf, Start
  <1>4. cachedIntrospection(t) => since[t] <= TTL + Timeout
    <2>1. SUFFICES ASSUME cachedIntrospection(t) PROVE since[t] <= TTL + Timeout
      OBVIOUS
    <2>2. cache \in Seq(CacheEntries) /\ t \in Keys(cache) /\ ~(Entry(cache, t).left < 0)
      BY <2>1 DEF cachedIntrospection, Expired, Listed
    <2>3. PICK i \in DOMAIN cache :
             cache[i].key = t /\ Entry(cache, t) = cache[i] /\ cache[i] \in CacheEntries
      BY <2>2, EntryFacts
    <2>4. cache[i].left \in -1..TTL /\ cache[i].left >= 0
      BY <2>2, <2>3, IntrospectionAssumption DEF CacheEntries
    <2>5. since[t] <= TTL - cache[i].left + Timeout
      BY <2>3, <2>4 DEF Recent
    <2>6. since[t] \in Int
      BY DEF CallsOK
    <2> QED
      BY <2>4, <2>5, <2>6, IntrospectionAssumption
  <1>5. CallsOK'
    <2>1. /\ pc' = [pc EXCEPT ![c] = "request"]
          /\ token' = [token EXCEPT ![c] = t]
          /\ hasCached' = [hasCached EXCEPT ![c] = cachedIntrospection(t)]
          /\ result' = [result EXCEPT ![c] = "none"]
          /\ since' = since /\ age' = age /\ reply' = reply
      BY DEF Start
    <2>2. cachedIntrospection(t) \in BOOLEAN
      BY DEF cachedIntrospection
    <2>3. /\ pc' \in [Callers -> {"idle", "request", "answered"}]
          /\ token' \in [Callers -> Tokens \cup {NoToken}]
          /\ hasCached' \in [Callers -> BOOLEAN]
          /\ result' \in [Callers -> Replies \cup {"none", "ok"}]
      BY <2>1, <2>2 DEF CallsOK
    <2>4. ASSUME NEW d \in Callers
          PROVE  /\ pc'[d] # "idle" => token'[d] \in Tokens
                 /\ pc'[d] # "idle" /\ hasCached'[d] =>
                       since'[token'[d]] <= TTL + Timeout + age'[d]
                 /\ pc'[d] = "answered" /\ reply'[d] = "active" =>
                       since'[token'[d]] <= age'[d]
      <3>1. CASE d = c
        <4>1. /\ pc'[d] = "request" /\ token'[d] = t
              /\ hasCached'[d] = cachedIntrospection(t)
          BY <2>1, <3>1 DEF CallsOK
        <4>2. cachedIntrospection(t) => since'[t] <= TTL + Timeout + age'[d]
          <5>1. age'[d] \in Nat /\ since'[t] \in Int
            BY <2>1 DEF CallsOK
          <5> QED
            BY <1>4, <2>1, <5>1, IntrospectionAssumption
        <4> QED
          BY <4>1, <4>2
      <3>2. CASE d # c
        <4>1. pc'[d] = pc[d] /\ token'[d] = token[d] /\ hasCached'[d] = hasCached[d]
          BY <2>1, <3>2 DEF CallsOK
        <4> QED
          BY <2>1, <4>1 DEF CallsOK
      <3> QED
        BY <3>1, <3>2, Zenon
    <2> QED
      BY <2>1, <2>3, <2>4, Zenon DEF CallsOK
  <1> QED
    BY <1>2, <1>3, <1>5

\* The service answers, or fails to.
LEMMA ServeKeeps ==
  ASSUME Listed(cache, recent), Recent(cache), CallsOK,
         NEW c \in Callers, NEW r \in Replies, Serve(c, r)
  PROVE  Listed(cache, recent)' /\ Recent(cache)' /\ CallsOK'
  <1>1. /\ pc[c] = "request" /\ (r = "active" => since[token[c]] = -1)
        /\ reply' = [reply EXCEPT ![c] = r]
        /\ pc' = [pc EXCEPT ![c] = "answered"]
        /\ cache' = cache /\ since' = since /\ token' = token /\ age' = age
        /\ hasCached' = hasCached /\ result' = result /\ recent' = recent
    BY Zenon DEF Serve
  <1>2. Listed(cache, recent)' /\ Recent(cache)'
    BY <1>1 DEF Listed, CacheEntries, Recent
  <1>3. /\ pc' \in [Callers -> {"idle", "request", "answered"}]
        /\ reply' \in [Callers -> Replies \cup {"none"}]
    BY <1>1 DEF CallsOK
  <1>4. ASSUME NEW d \in Callers
        PROVE  /\ pc'[d] # "idle" => token[d] \in Tokens
               /\ pc'[d] # "idle" /\ hasCached[d] =>
                     since[token[d]] <= TTL + Timeout + age[d]
               /\ pc'[d] = "answered" /\ reply'[d] = "active" =>
                     since[token[d]] <= age[d]
    <2>1. CASE d = c
      <3>1. pc[d] # "idle" /\ reply'[d] = r /\ age[d] \in Nat
        BY <1>1, <2>1 DEF CallsOK
      <3>2. r = "active" => since[token[d]] <= age[d]
        <4>1. r = "active" => since[token[d]] = -1
          BY <1>1, <2>1, Zenon
        <4> QED
          BY <3>1, <4>1
      <3> QED
        BY <3>1, <3>2 DEF CallsOK
    <2>2. CASE d # c
      <3>1. pc'[d] = pc[d] /\ reply'[d] = reply[d]
        BY <1>1, <2>2 DEF CallsOK
      <3> QED
        BY <3>1, Zenon DEF CallsOK
    <2> QED
      BY <2>1, <2>2
  <1> QED
    BY <1>1, <1>2, <1>3, <1>4 DEF CallsOK

\* A call ends.
LEMMA ReturnKeeps ==
  ASSUME CallsOK, NEW c \in Callers, NEW r \in Replies \cup {"ok"}, Return(c, r)
  PROVE  CallsOK'
  <1>1. /\ pc' = [pc EXCEPT ![c] = "idle"]
        /\ token' = [token EXCEPT ![c] = NoToken]
        /\ age' = [age EXCEPT ![c] = 0]
        /\ hasCached' = [hasCached EXCEPT ![c] = FALSE]
        /\ reply' = [reply EXCEPT ![c] = "none"]
        /\ result' = [result EXCEPT ![c] = r]
        /\ since' = since
    BY DEF Return
  <1>2. /\ pc' \in [Callers -> {"idle", "request", "answered"}]
        /\ token' \in [Callers -> Tokens \cup {NoToken}]
        /\ age' \in [Callers -> 0..Timeout]
        /\ hasCached' \in [Callers -> BOOLEAN]
        /\ reply' \in [Callers -> Replies \cup {"none"}]
        /\ result' \in [Callers -> Replies \cup {"none", "ok"}]
    BY <1>1, IntrospectionAssumption DEF CallsOK
  <1>3. pc'[c] = "idle"
    BY <1>1 DEF CallsOK
  <1>4. \A d \in Callers : d # c =>
           /\ pc'[d] = pc[d] /\ token'[d] = token[d] /\ age'[d] = age[d]
           /\ hasCached'[d] = hasCached[d] /\ reply'[d] = reply[d]
    BY <1>1 DEF CallsOK
  <1>5. ASSUME NEW d \in Callers
        PROVE  /\ pc'[d] # "idle" => token'[d] \in Tokens
               /\ pc'[d] # "idle" /\ hasCached'[d] =>
                     since'[token'[d]] <= TTL + Timeout + age'[d]
               /\ pc'[d] = "answered" /\ reply'[d] = "active" =>
                     since'[token'[d]] <= age'[d]
    <2>1. CASE d = c
      BY <1>3, <2>1
    <2>2. CASE d # c
      BY <1>1, <1>4, <2>2 DEF CallsOK
    <2> QED
      BY <2>1, <2>2
  <1> QED
    BY <1>1, <1>2, <1>5, Zenon DEF CallsOK

\* An active answer is stored.
LEMMA AcceptKeeps ==
  ASSUME Listed(cache, recent), Recent(cache), CallsOK, NEW c \in Callers, Accept(c)
  PROVE  Listed(cache, recent)' /\ Recent(cache)' /\ CallsOK'
  <1> DEFINE expired == {e \in Entries(cache) : Expired(e)}
             kept == DeleteFunc(cache, expired)
             used == Forget(recent, Keys(cache) \ Keys(kept))
             new == [key |-> token[c], left |-> TTL]
  <1>1. /\ pc[c] = "answered" /\ reply[c] = "active"
        /\ cache' = Put(kept, new) /\ recent' = Touch(used, token[c])
        /\ Return(c, "ok")
    BY Zenon DEF Accept
  <1>2. token[c] \in Tokens /\ since[token[c]] <= age[c] /\ since[token[c]] \in Int
        /\ age[c] \in 0..Timeout
    BY <1>1 DEF CallsOK
  <1>3. new \in CacheEntries /\ new.key = token[c] /\ new.left = TTL
    BY <1>2, IntrospectionAssumption DEF CacheEntries
  <1> HIDE DEF expired
  <1>4. /\ Listed(kept, used)
        /\ PartOf(kept, cache)
    <2>1. PICK X : X = expired
      OBVIOUS
    <2>2. /\ Listed(DeleteFunc(cache, X), Forget(recent, Keys(cache) \ Keys(DeleteFunc(cache, X))))
          /\ PartOf(DeleteFunc(cache, X), cache)
      BY PruneFacts
    <2> QED
      BY <2>1, <2>2
  <1> HIDE DEF kept, used, new
  <1>5. /\ Listed(cache', recent')
        /\ \A i \in DOMAIN cache' :
              cache'[i] = new \/ \E j \in DOMAIN kept : cache'[i] = kept[j]
    BY <1>1, <1>3, <1>4, StoreFacts
  <1>6. Listed(cache, recent)'
    BY <1>5 DEF Listed, CacheEntries
  <1>7. since[new.key] <= TTL - new.left + Timeout
    BY <1>2, <1>3, IntrospectionAssumption
  <1>8. ASSUME NEW i \in DOMAIN cache', cache'[i].left >= 0
        PROVE  since[cache'[i].key] <= TTL - cache'[i].left + Timeout
    <2>1. CASE cache'[i] = new
      BY <1>7, <2>1
    <2>2. CASE cache'[i] # new
      <3>1. PICK j \in DOMAIN cache : cache'[i] = cache[j]
        BY <1>4, <1>5, <2>2 DEF PartOf
      <3> QED
        BY <1>8, <3>1 DEF Recent
    <2> QED
      BY <2>1, <2>2
  <1>9. Recent(cache)'
    BY <1>1, <1>8 DEF Recent, Return
  <1> QED
    BY <1>1, <1>6, <1>9, ReturnKeeps, Zenon

\* An inactive answer removes the entry.
LEMMA RefuseKeeps ==
  ASSUME Listed(cache, recent), Recent(cache), CallsOK, NEW c \in Callers, Refuse(c)
  PROVE  Listed(cache, recent)' /\ Recent(cache)' /\ CallsOK'
  <1>1. /\ pc[c] = "answered" /\ reply[c] \in {"inactive", "invalid"}
        /\ cache' = Delete(cache, token[c])
        /\ recent' = IF token[c] \in Keys(cache) THEN Forget(recent, {token[c]}) ELSE recent
        /\ Return(c, reply[c])
    BY DEF Refuse
  <1>2. token[c] \in Tokens
    BY <1>1 DEF CallsOK
  <1>3. /\ Listed(cache', recent')
        /\ PartOf(cache', cache)
    <2>1. PICK t \in Tokens : t = token[c]
      BY <1>2
    <2>2. /\ t \in Keys(cache) => Listed(Delete(cache, t), Forget(recent, {t}))
          /\ t \notin Keys(cache) => Listed(Delete(cache, t), recent)
          /\ PartOf(Delete(cache, t), cache)
      BY DeleteFacts
    <2> QED
      BY <1>1, <2>1, <2>2, Zenon
  <1>4. Listed(cache, recent)'
    BY <1>3 DEF Listed, CacheEntries
  <1>5. Recent(cache)'
    BY <1>1, <1>3, Zenon DEF Recent, PartOf, Return
  <1>6. reply[c] \in Replies \cup {"ok"}
    BY <1>1 DEF Replies
  <1> QED
    BY <1>1, <1>4, <1>5, <1>6, ReturnKeeps, Zenon

\* A failed call may be served from a stale entry.
LEMMA FallBackKeeps ==
  ASSUME Listed(cache, recent), Recent(cache), CallsOK, NEW c \in Callers, FallBack(c)
  PROVE  Listed(cache, recent)' /\ Recent(cache)' /\ CallsOK'
  <1>1. /\ Return(c, IF hasCached[c] THEN "ok" ELSE "unavailable")
        /\ cache' = cache /\ recent' = recent /\ since' = since
    BY DEF FallBack, Return
  <1>2. (IF hasCached[c] THEN "ok" ELSE "unavailable") \in Replies \cup {"ok"}
    BY DEF Replies
  <1>3. Listed(cache, recent)' /\ Recent(cache)'
    BY <1>1, Zenon DEF Listed, CacheEntries, Recent
  <1> QED
    BY <1>1, <1>2, <1>3, ReturnKeeps

\* The service revokes a token; the client learns nothing of it.
LEMMA RevokeKeeps ==
  ASSUME Listed(cache, recent), Recent(cache), CallsOK, NEW t \in Tokens, Revoke(t)
  PROVE  Listed(cache, recent)' /\ Recent(cache)' /\ CallsOK'
  <1>1. /\ since' = [since EXCEPT ![t] = 0]
        /\ cache' = cache /\ recent' = recent /\ pc' = pc /\ token' = token /\ age' = age
        /\ hasCached' = hasCached /\ reply' = reply /\ result' = result
    BY DEF Revoke, locals
  <1>2. TTL \in Nat /\ Timeout \in Nat /\ Staleness \in Nat
    BY IntrospectionAssumption DEF Staleness
  <1>3. /\ since' \in [Tokens -> -1..(Staleness + 1)]
        /\ \A u \in Tokens : since'[u] = since[u] \/ since'[u] = 0
    BY <1>1, <1>2 DEF CallsOK
  <1>4. Listed(cache, recent)'
    BY <1>1 DEF Listed, CacheEntries
  <1>5. ASSUME NEW i \in DOMAIN cache, cache[i].left >= 0
        PROVE  since'[cache[i].key] <= TTL - cache[i].left + Timeout
    <2>1. cache[i].key \in Tokens /\ cache[i].left \in -1..TTL
      <3>1. cache[i] \in CacheEntries
        BY DEF Listed
      <3> QED
        BY <3>1 DEF CacheEntries
    <2>2. since[cache[i].key] <= TTL - cache[i].left + Timeout
      BY <1>5 DEF Recent
    <2>3. 0 <= TTL - cache[i].left + Timeout
      BY <1>2, <2>1
    <2> QED
      BY <1>3, <2>1, <2>2, <2>3
  <1>6. Recent(cache)'
    BY <1>1, <1>5 DEF Recent
  <1>7. ASSUME NEW d \in Callers
        PROVE  /\ pc[d] # "idle" /\ hasCached[d] =>
                     since'[token[d]] <= TTL + Timeout + age[d]
               /\ pc[d] = "answered" /\ reply[d] = "active" =>
                     since'[token[d]] <= age[d]
    <2>1. pc[d] # "idle" => token[d] \in Tokens
      BY DEF CallsOK
    <2>2. 0 <= age[d] /\ 0 <= TTL + Timeout + age[d]
      BY <1>2 DEF CallsOK
    <2> QED
      BY <1>3, <2>1, <2>2 DEF CallsOK
  <1> QED
    BY <1>1, <1>3, <1>4, <1>6, <1>7 DEF CallsOK

\* Time passes for entries, calls and revocations alike.
LEMMA TickKeeps ==
  ASSUME Listed(cache, recent), Recent(cache), CallsOK, Tick
  PROVE  Listed(cache, recent)' /\ Recent(cache)' /\ CallsOK'
  <1>1. /\ \A c \in Callers : pc[c] # "idle" => age[c] < Timeout
        /\ age' = [c \in Callers |-> IF pc[c] = "idle" THEN 0 ELSE age[c] + 1]
        /\ cache' = [i \in DOMAIN cache |->
                        [cache[i] EXCEPT !.left = IF @ >= 0 THEN @ - 1 ELSE @]]
        /\ since' = [t \in Tokens |-> IF since[t] \in 0..Staleness
                                      THEN since[t] + 1 ELSE since[t]]
        /\ pc' = pc /\ token' = token /\ hasCached' = hasCached /\ reply' = reply
        /\ result' = result /\ recent' = recent
    BY DEF Tick
  <1>2. TTL \in Nat /\ Timeout \in Nat /\ Staleness \in Nat
    BY IntrospectionAssumption DEF Staleness
  <1>3. /\ since' \in [Tokens -> -1..(Staleness + 1)]
        /\ \A t \in Tokens : since[t] \in Int /\ since'[t] \in Int /\ since'[t] <= since[t] + 1
    BY <1>1, <1>2 DEF CallsOK
  <1>4. age' \in [Callers -> 0..Timeout]
        /\ \A c \in Callers : pc[c] # "idle" => age'[c] = age[c] + 1
    BY <1>1, <1>2 DEF CallsOK
  <1>5. /\ cache \in Seq(CacheEntries) /\ DOMAIN cache' = DOMAIN cache
        /\ \A i \in DOMAIN cache :
              /\ cache[i].key \in Tokens /\ cache[i].left \in -1..TTL
              /\ cache'[i].key = cache[i].key
              /\ cache'[i].left = IF cache[i].left >= 0 THEN cache[i].left - 1 ELSE cache[i].left
              /\ cache'[i] \in CacheEntries
    <2>1. cache \in Seq(CacheEntries) /\ DOMAIN cache' = DOMAIN cache
      BY <1>1 DEF Listed
    <2>2. ASSUME NEW i \in DOMAIN cache
          PROVE  /\ cache[i].key \in Tokens /\ cache[i].left \in -1..TTL
                 /\ cache'[i].key = cache[i].key
                 /\ cache'[i].left = IF cache[i].left >= 0
                                     THEN cache[i].left - 1 ELSE cache[i].left
                 /\ cache'[i] \in CacheEntries
      <3>1. cache[i] \in CacheEntries
        BY <2>1
      <3>2. cache'[i] = [cache[i] EXCEPT !.left = IF @ >= 0 THEN @ - 1 ELSE @]
        BY <1>1
      <3> QED
        BY <1>2, <3>1, <3>2 DEF CacheEntries
    <2> QED
      BY <2>1, <2>2
  <1>6. cache' \in Seq(CacheEntries) /\ Len(cache') = Len(cache)
    <2>1. Len(cache) \in Nat /\ DOMAIN cache = 1..Len(cache)
      BY <1>5
    <2>2. cache' \in [1..Len(cache) -> CacheEntries]
      BY <1>1, <1>5, <2>1, Zenon
    <2> QED
      BY <2>1, <2>2
  <1>7. Listed(cache', recent')
    <2>1. OnePerKey(cache')
      BY <1>5 DEF Listed, OnePerKey
    <2>2. Leads(cache', recent')
      BY <1>1, <1>5, <1>6, Zenon DEF Listed, Leads
    <2> QED
      BY <1>1, <1>6, <2>1, <2>2 DEF Listed
  <1>8. Listed(cache, recent)'
    BY <1>7 DEF Listed, CacheEntries
  <1>9. ASSUME NEW i \in DOMAIN cache, cache'[i].left >= 0
        PROVE  since'[cache'[i].key] <= TTL - cache'[i].left + Timeout
    <2>1. cache[i].left \in Nat /\ cache'[i].left = cache[i].left - 1
      BY <1>2, <1>5, <1>9
    <2>2. since[cache[i].key] <= TTL - cache[i].left + Timeout
      BY <2>1 DEF Recent
    <2>3. /\ cache'[i].key = cache[i].key /\ since[cache[i].key] \in Int
          /\ since'[cache[i].key] \in Int
          /\ since'[cache[i].key] <= since[cache[i].key] + 1
      BY <1>3, <1>5
    <2>4. since'[cache[i].key] <= TTL - (cache[i].left - 1) + Timeout
      BY <1>2, <2>1, <2>2, <2>3
    <2> QED
      BY <2>1, <2>3, <2>4
  <1>10. Recent(cache)'
    BY <1>5, <1>9 DEF Recent
  <1>11. ASSUME NEW d \in Callers
         PROVE  /\ pc[d] # "idle" /\ hasCached[d] =>
                      since'[token[d]] <= TTL + Timeout + age'[d]
                /\ pc[d] = "answered" /\ reply[d] = "active" =>
                      since'[token[d]] <= age'[d]
    <2>1. age[d] \in Nat /\ age'[d] \in Nat
      BY <1>2, <1>4 DEF CallsOK
    <2>2. pc[d] # "idle" => token[d] \in Tokens
      BY DEF CallsOK
    <2>3. pc[d] # "idle" /\ hasCached[d] => since'[token[d]] <= TTL + Timeout + age'[d]
      <3>1. SUFFICES ASSUME pc[d] # "idle", hasCached[d]
                     PROVE  since'[token[d]] <= TTL + Timeout + age'[d]
        OBVIOUS
      <3>2. /\ since[token[d]] \in Int /\ since'[token[d]] \in Int
            /\ since'[token[d]] <= since[token[d]] + 1 /\ age'[d] = age[d] + 1
        BY <1>3, <1>4, <2>2, <3>1
      <3>3. since[token[d]] <= TTL + Timeout + age[d]
        BY <3>1 DEF CallsOK
      <3> QED
        BY <1>2, <2>1, <3>2, <3>3
    <2>4. pc[d] = "answered" /\ reply[d] = "active" => since'[token[d]] <= age'[d]
      <3>1. SUFFICES ASSUME pc[d] = "answered", reply[d] = "active"
                     PROVE  since'[token[d]] <= age'[d]
        OBVIOUS
      <3>2. /\ since[token[d]] \in Int /\ since'[token[d]] \in Int
            /\ since'[token[d]] <= since[token[d]] + 1 /\ age'[d] = age[d] + 1
        BY <1>3, <1>4, <2>2, <3>1
      <3>3. since[token[d]] <= age[d]
        BY <3>1 DEF CallsOK
      <3> QED
        BY <1>2, <2>1, <3>2, <3>3
    <2> QED
      BY <2>3, <2>4, Zenon
  <1> QED
    BY <1>1, <1>3, <1>4, <1>8, <1>10, <1>11, Zenon DEF CallsOK

\* A new client has no entries and no calls.
LEMMA IntrospectionInitially ==
  ASSUME Init
  PROVE  IntrospectionInv
  <1>1. Listed(cache, recent) /\ Recent(cache)
    BY MaxSizeAssumption DEF Init, Listed, OnePerKey, Leads, Recent
  <1>2. CallsOK
    BY IntrospectionAssumption DEF Init, CallsOK, Staleness
  <1> QED
    BY <1>1, <1>2 DEF IntrospectionInv

\* Every step of introspection keeps its invariant.
LEMMA IntrospectionStep ==
  ASSUME IntrospectionInv, [Next]_vars
  PROVE  IntrospectionInv'
  <1>1. Listed(cache, recent) /\ Recent(cache) /\ CallsOK
    BY DEF IntrospectionInv
  <1>2. SUFFICES Listed(cache, recent)' /\ Recent(cache)' /\ CallsOK'
    BY SMTT(20) DEF IntrospectionInv
  <1>3. CASE UNCHANGED vars
    BY <1>1, <1>3 DEF vars, locals, Listed, CacheEntries, Recent, CallsOK
  <1>4. ASSUME NEW c \in Callers, NEW t \in Tokens, Start(c, t)
        PROVE  Listed(cache, recent)' /\ Recent(cache)' /\ CallsOK'
    BY <1>1, <1>4, StartKeeps
  <1>5. ASSUME NEW c \in Callers, NEW r \in Replies, Serve(c, r)
        PROVE  Listed(cache, recent)' /\ Recent(cache)' /\ CallsOK'
    BY <1>1, <1>5, ServeKeeps
  <1>6. ASSUME NEW c \in Callers, Accept(c) \/ Refuse(c) \/ FallBack(c)
        PROVE  Listed(cache, recent)' /\ Recent(cache)' /\ CallsOK'
    BY <1>1, <1>6, AcceptKeeps, RefuseKeeps, FallBackKeeps
  <1>7. ASSUME NEW t \in Tokens, Revoke(t)
        PROVE  Listed(cache, recent)' /\ Recent(cache)' /\ CallsOK'
    BY <1>1, <1>7, RevokeKeeps
  <1>8. CASE Tick
    BY <1>1, <1>8, TickKeeps
  <1> QED
    BY <1>3, <1>4, <1>5, <1>6, <1>7, <1>8 DEF Next

\* A step that answers "ok" is Accept or FallBack on an entry.
LEMMA StalenessStep ==
  ASSUME IntrospectionInv, Next,
         NEW c \in Callers, pc[c] = "answered", pc'[c] = "idle", result'[c] = "ok"
  PROVE  since[token[c]] <= Staleness
  <1>1. CallsOK
    BY DEF IntrospectionInv
  <1>2. TTL \in Nat /\ Timeout \in Nat /\ Staleness = TTL + 2 * Timeout
    BY IntrospectionAssumption DEF Staleness
  <1>3. token[c] \in Tokens /\ since[token[c]] \in Int /\ age[c] \in 0..Timeout
    BY <1>1 DEF CallsOK
  <1>4. ASSUME NEW d \in Callers, d # c,
               \/ \E t \in Tokens : Start(d, t)
               \/ \E r \in Replies : Serve(d, r)
               \/ Accept(d) \/ Refuse(d) \/ FallBack(d)
        PROVE  FALSE
    <2>1. \E s : pc' = [pc EXCEPT ![d] = s]
      BY <1>4, Zenon DEF Start, Serve, Accept, Refuse, FallBack, Return
    <2>2. pc'[c] = pc[c]
      BY <1>1, <1>4, <2>1 DEF CallsOK
    <2> QED
      BY <2>2
  <1>5. CASE \E t \in Tokens : Start(c, t)
    BY <1>5 DEF Start
  <1>6. CASE \E r \in Replies : Serve(c, r)
    BY <1>6 DEF Serve
  <1>7. CASE Accept(c)
    <2>1. since[token[c]] <= age[c]
      BY <1>1, <1>7 DEF Accept, CallsOK
    <2> QED
      BY <1>2, <1>3, <2>1, SMTT(20)
  <1>8. CASE Refuse(c)
    <2>1. result'[c] \in {"inactive", "invalid"}
      BY <1>1, <1>8 DEF Refuse, Return, CallsOK
    <2> QED
      BY <2>1
  <1>9. CASE FallBack(c)
    <2>1. result'[c] = IF hasCached[c] THEN "ok" ELSE "unavailable"
      BY <1>1, <1>9 DEF FallBack, Return, CallsOK
    <2>2. hasCached[c]
      BY <2>1
    <2>3. since[token[c]] <= TTL + Timeout + age[c]
      BY <1>1, <2>2 DEF CallsOK
    <2> QED
      BY <1>2, <1>3, <2>3
  <1>10. CASE Tick \/ \E t \in Tokens : Revoke(t)
    BY <1>10 DEF Tick, Revoke, locals
  <1> QED
    BY <1>4, <1>5, <1>6, <1>7, <1>8, <1>9, <1>10 DEF Next
--------------------------------------------------------------------------------
(* Service tokens.                                                         *)


\* Lists with one key name the same scopes.
LEMMA KeyNames ==
  ASSUME NEW a \in ScopeLists, NEW b \in ScopeLists, cacheScopesKey(a) = cacheScopesKey(b)
  PROVE  Names(a) \subseteq Names(b)
  <1>1. a \in Seq(Scopes) /\ b \in Seq(Scopes)
    BY ServiceTokensAssumption DEF ServiceTokensAssumption
  <1>2. \A s \in Scopes : TrimSpace(s) = [name |-> s.name, padded |-> FALSE]
    BY DEF TrimSpace
  <1> SUFFICES ASSUME NEW n \in Names(a)
               PROVE  n \in Names(b)
    OBVIOUS
  <1>3. PICK i \in DOMAIN a : a[i].name = n /\ n # ""
    BY DEF Names
  <1>4. a[i] \in Scopes
    BY <1>1
  <1>5. TrimSpace(a[i]) = [name |-> n, padded |-> FALSE]
    BY <1>2, <1>3, <1>4
  <1>6. [name |-> n, padded |-> FALSE] # [name |-> "", padded |-> FALSE]
    BY <1>3
  <1>7. [name |-> n, padded |-> FALSE] \in cacheScopesKey(a)
    BY <1>5, <1>6, Zenon DEF cacheScopesKey
  <1>8. PICK j \in DOMAIN b : TrimSpace(b[j]) = [name |-> n, padded |-> FALSE]
    BY <1>7, Zenon DEF cacheScopesKey
  <1>9. b[j].name = n
    <2>1. b[j] \in Scopes
      BY <1>1
    <2> QED
      BY <1>2, <1>8, <2>1
  <1> QED
    BY <1>3, <1>9, Zenon DEF Names

\* The fields of an entry.
LEMMA EntryFields ==
  ASSUME NEW e \in TokenEntries
  PROVE  /\ e.key = cacheScopesKey(e.sent) /\ e.sent \in ScopeLists
         /\ e.life \in Nat /\ e.left \in Nat
  BY DEF TokenEntries

\* A call takes the cached token if it fits, or asks for one.
LEMMA ResolveKeeps ==
  ASSUME TokenInv, NEW c \in Callers, NEW scopes \in ScopeLists, ResolveServiceToken(c, scopes)
  PROVE  TokenInv'
  <1> DEFINE key == cacheScopesKey(scopes)
             hit == key \in Keys(tokens) /\ ~expiringSoon(Entry(tokens, key))
             asking == [NoCall EXCEPT !.pc = "issue", !.scopes = scopes]
  <1>1. /\ tokens' = Get(tokens, key)
        /\ IF hit
           THEN give(c, scopes, Entry(tokens, key)) /\ call' = call
           ELSE /\ call' = [call EXCEPT ![c] = asking]
                /\ given' = [given EXCEPT ![c] = NoneGiven]
    BY DEF ResolveServiceToken
  <1>2. /\ tokens \in Seq(TokenEntries) /\ call \in [Callers -> Calls]
        /\ given \in [Callers -> Answers]
    BY DEF TokenInv
  <1>3. Timeout \in Nat /\ Margin \in Nat
    BY IntrospectionAssumption, ServiceTokensAssumption
  <1>4. Get(tokens, key) \in Seq(TokenEntries)
    BY <1>2, GetFacts
  <1>5. asking \in Calls
    <2>1. NoCall \in CallFields
      BY <1>3 DEF NoCall, CallFields
    <2>2. asking \in CallFields /\ asking.pc = "issue" /\ asking.scopes = scopes
      BY <2>1, Zenon DEF CallFields
    <2> QED
      BY <2>2, Zenon DEF Calls
  <1>6. NoneGiven \in Answers
    BY DEF NoneGiven, Answers
  <1>7. CASE hit
    <2>1. PICK i \in DOMAIN tokens :
             tokens[i].key = key /\ Entry(tokens, key) = tokens[i] /\ tokens[i] \in TokenEntries
      BY <1>2, <1>7, EntryFacts, Zenon
    <2> DEFINE e == tokens[i]
               answer == [sent |-> e.sent, asked |-> scopes, life |-> e.life,
                          left |-> e.left, ok |-> TRUE]
    <2>2. /\ cacheScopesKey(e.sent) = cacheScopesKey(scopes)
          /\ e.sent \in ScopeLists /\ e.life \in Nat /\ e.left \in Nat
      BY <2>1, EntryFields, Zenon
    <2>3. e.left >= Margin
      BY <1>3, <1>7, <2>1, <2>2 DEF expiringSoon
    <2>4. Names(e.sent) = Names(scopes)
      <3>1. Names(e.sent) \subseteq Names(scopes)
        BY <2>2, KeyNames, Zenon
      <3>2. Names(scopes) \subseteq Names(e.sent)
        BY <2>2, KeyNames, Zenon
      <3> QED
        BY <3>1, <3>2
    <2>5. given' = [given EXCEPT ![c] = answer] /\ call' = call
      BY <1>1, <1>7, <2>1 DEF give
    <2> HIDE DEF e
    <2>6. answer \in Answers
      BY <2>2, <2>3, <2>4 DEF Answers
    <2> HIDE DEF answer
    <2>7. given' \in [Callers -> Answers]
      BY <1>2, <2>5, <2>6
    <2> QED
      BY <1>1, <1>2, <1>4, <2>5, <2>7, Zenon DEF TokenInv
  <1>8. CASE ~hit
    <2> HIDE DEF asking
    <2>1. call' = [call EXCEPT ![c] = asking] /\ given' = [given EXCEPT ![c] = NoneGiven]
      BY <1>1, <1>8
    <2>2. call' \in [Callers -> Calls] /\ given' \in [Callers -> Answers]
      BY <1>2, <1>5, <1>6, <2>1
    <2> QED
      BY <1>1, <1>4, <2>2, Zenon DEF TokenInv
  <1> QED
    BY <1>7, <1>8

\* The service issues a token for as long as it likes.
LEMMA IssueKeeps ==
  ASSUME TokenInv, NEW c \in Callers, NEW life \in Lifetimes, IssueServiceToken(c, life)
  PROVE  TokenInv'
  <1>1. /\ call[c].pc = "issue" /\ tokens' = tokens /\ given' = given
        /\ call' = [call EXCEPT ![c].pc = "issued", ![c].life = life, ![c].left = life]
    BY DEF IssueServiceToken
  <1>2. /\ call \in [Callers -> Calls] /\ tokens \in Seq(TokenEntries)
        /\ given \in [Callers -> Answers]
    BY DEF TokenInv
  <1>3. call[c] \in Calls
    BY <1>2
  <1> DEFINE now == [call[c] EXCEPT !.pc = "issued", !.life = life, !.left = life]
  <1>4. call' = [call EXCEPT ![c] = now]
    BY <1>1, <1>2, Zenon
  <1>5. now \in Calls
    <2>1. /\ call[c].age \in 0..Timeout /\ call[c].scopes \in ScopeLists
          /\ call[c] \in CallFields
      BY <1>1, <1>3 DEF Calls, CallFields
    <2>2. life \in Nat /\ life >= life - call[c].age
      BY <2>1, ServiceTokensAssumption, IntrospectionAssumption
    <2>3. /\ now \in CallFields /\ now.pc = "issued" /\ now.scopes = call[c].scopes
          /\ now.age = call[c].age /\ now.life = life /\ now.left = life
      BY <2>1, <2>2, Zenon DEF CallFields
    <2> HIDE DEF now
    <2> QED
      BY <2>1, <2>2, <2>3, Zenon DEF Calls
  <1> HIDE DEF now
  <1>6. call' \in [Callers -> Calls]
    BY <1>2, <1>4, <1>5
  <1> QED
    BY <1>1, <1>2, <1>6, Zenon DEF TokenInv

\* The call of a caller that makes none has the type of a call.
LEMMA NoCallIsACall ==
  NoCall \in Calls
  BY IntrospectionAssumption DEF NoCall, Calls, CallFields

\* A failed call leaves the cache alone.
LEMMA FailKeeps ==
  ASSUME TokenInv, NEW c \in Callers, IssueFails(c)
  PROVE  TokenInv'
  BY NoCallIsACall DEF TokenInv, IssueFails

\* The token is stored under its key, and the call returns it.
LEMMA StoreKeeps ==
  ASSUME TokenInv, NEW c \in Callers, StoreToken(c)
  PROVE  TokenInv'
  <1> DEFINE issued == [key |-> cacheScopesKey(call[c].scopes), sent |-> call[c].scopes,
                        life |-> call[c].life, left |-> call[c].left]
             answer == [sent |-> call[c].scopes, asked |-> call[c].scopes,
                        life |-> call[c].life, left |-> call[c].left, ok |-> TRUE]
  <1>1. /\ call[c].pc = "issued" /\ tokens' = Put(tokens, issued)
        /\ given' = [given EXCEPT ![c] = answer]
        /\ call' = [call EXCEPT ![c] = NoCall]
    BY DEF StoreToken, give
  <1>2. /\ tokens \in Seq(TokenEntries) /\ call \in [Callers -> Calls]
        /\ given \in [Callers -> Answers]
    BY DEF TokenInv
  <1>3. call[c] \in Calls
    BY <1>2
  <1>4. /\ call[c].scopes \in ScopeLists /\ call[c].life \in Nat /\ call[c].left \in Nat
        /\ call[c].age \in 0..Timeout /\ call[c].left >= call[c].life - call[c].age
    BY <1>1, <1>3 DEF Calls, CallFields
  <1>5. call[c].left >= call[c].life - Timeout
    BY <1>4, IntrospectionAssumption
  <1>6. issued \in TokenEntries
    BY <1>4 DEF TokenEntries
  <1>7. answer \in Answers
    BY <1>4, <1>5 DEF Answers
  <1> HIDE DEF issued, answer
  <1>8. Put(tokens, issued) \in Seq(TokenEntries)
    BY <1>2, <1>6, PutFacts
  <1>9. given' \in [Callers -> Answers] /\ call' \in [Callers -> Calls]
    BY <1>1, <1>2, <1>7, NoCallIsACall
  <1> QED
    BY <1>1, <1>8, <1>9, Zenon DEF TokenInv

\* Time passes for tokens and calls alike.
LEMMA TokenTickKeeps ==
  ASSUME TokenInv, TokenTick
  PROVE  TokenInv'
  <1>1. /\ \A c \in Callers : call[c].pc # "idle" => call[c].age < Timeout
        /\ call' = [c \in Callers |->
                       IF call[c].pc = "idle" THEN call[c]
                       ELSE [call[c] EXCEPT !.age = @ + 1, !.left = older(@)]]
        /\ tokens' = [i \in DOMAIN tokens |-> [tokens[i] EXCEPT !.left = older(@)]]
        /\ given' = given
    BY Zenon DEF TokenTick
  <1>2. /\ tokens \in Seq(TokenEntries) /\ call \in [Callers -> Calls]
        /\ given \in [Callers -> Answers]
    BY DEF TokenInv
  <1>3. \A n \in Nat : older(n) \in Nat /\ older(n) >= n - 1
    BY DEF older
  <1>4. ASSUME NEW i \in DOMAIN tokens
        PROVE  [tokens[i] EXCEPT !.left = older(@)] \in TokenEntries
    <2>1. PICK e \in TokenEntries : e = tokens[i]
      BY <1>2
    <2>2. older(e.left) \in Nat
      BY <1>3, EntryFields, Zenon
    <2>3. [e EXCEPT !.left = older(@)] \in TokenEntries
      BY <2>2 DEF TokenEntries
    <2> QED
      BY <2>1, <2>3, Zenon
  <1>5. tokens' \in Seq(TokenEntries)
    <2>1. Len(tokens) \in Nat /\ DOMAIN tokens = 1..Len(tokens)
      BY <1>2, LenProperties
    <2>2. tokens' \in [1..Len(tokens) -> TokenEntries]
      BY <1>1, <1>4, <2>1, Zenon
    <2> QED
      BY <2>1, <2>2
  <1>6. ASSUME NEW k \in Calls, k.pc # "idle", k.age < Timeout
        PROVE  [k EXCEPT !.age = @ + 1, !.left = older(@)] \in Calls
    <2>1. /\ k \in CallFields /\ k.scopes \in ScopeLists
          /\ k.age \in 0..Timeout /\ k.left \in Nat /\ k.life \in Nat
          /\ k.pc = "issued" => k.left >= k.life - k.age
      BY <1>6 DEF Calls, CallFields
    <2>2. k.age + 1 \in 0..Timeout
      BY <1>6, <2>1, IntrospectionAssumption
    <2>3. older(k.left) \in Nat /\ older(k.left) >= k.left - 1
      BY <1>3, <2>1, Zenon
    <2>4. k.pc = "issued" => older(k.left) >= k.life - (k.age + 1)
      BY <2>1, <2>3, IntrospectionAssumption
    <2> DEFINE next == [k EXCEPT !.age = @ + 1, !.left = older(@)]
    <2>5. /\ next.pc = k.pc /\ next.scopes = k.scopes /\ next.life = k.life
          /\ next.age = k.age + 1 /\ next.left = older(k.left)
      BY <2>1 DEF CallFields
    <2>6. next \in CallFields
      BY <2>1, <2>2, <2>3, Zenon DEF CallFields
    <2> HIDE DEF next
    <2>7. next \in Calls
      BY <2>1, <2>4, <2>5, <2>6, Zenon DEF Calls
    <2> QED
      BY <2>7 DEF next
  <1>7. ASSUME NEW c \in Callers
        PROVE  call'[c] \in Calls
    <2>1. call[c] \in Calls
      BY <1>2
    <2>2. CASE call[c].pc = "idle"
      BY <1>1, <2>1, <2>2, Zenon
    <2>3. CASE call[c].pc # "idle"
      <3>1. call[c].age < Timeout
        BY <1>1, <2>3, Zenon
      <3>2. call'[c] = [call[c] EXCEPT !.age = @ + 1, !.left = older(@)]
        BY <1>1, <2>3, Zenon
      <3> QED
        BY <1>6, <2>1, <2>3, <3>1, <3>2, Zenon
    <2> QED
      BY <2>2, <2>3
  <1>8. call' \in [Callers -> Calls]
    BY <1>1, <1>7, Zenon
  <1> QED
    BY <1>1, <1>2, <1>5, <1>8, Zenon DEF TokenInv

\* Every step of the token cache keeps its invariant.
LEMMA TokenStep ==
  ASSUME TokenInv, TokenNext \/ UNCHANGED tokenVars
  PROVE  TokenInv'
  <1>1. CASE UNCHANGED tokenVars
    BY <1>1 DEF tokenVars, TokenInv
  <1>2. CASE TokenNext
    BY <1>2, ResolveKeeps, IssueKeeps, FailKeeps, StoreKeeps, TokenTickKeeps DEF TokenNext
  <1> QED
    BY <1>1, <1>2
--------------------------------------------------------------------------------
\* A new client has neither entries nor tokens.
LEMMA ClientInitially ==
  ASSUME ClientInit
  PROVE  ClientInv
  <1>1. IntrospectionInv
    BY IntrospectionInitially DEF ClientInit
  <1>2. NoneGiven \in Answers
    BY DEF NoneGiven, Answers
  <1>3. TokenInv
    BY <1>2, NoCallIsACall DEF ClientInit, TokenInv
  <1> QED
    BY <1>1, <1>3 DEF ClientInv

\* Every step of the client keeps the invariants of both caches.
LEMMA ClientStep ==
  ASSUME ClientInv, [ClientNext]_clientVars
  PROVE  ClientInv'
  <1>1. [Next]_vars
    BY DEF ClientNext, clientVars
  <1>2. TokenNext \/ UNCHANGED tokenVars
    BY DEF ClientNext, clientVars
  <1> QED
    BY <1>1, <1>2, IntrospectionStep, TokenStep DEF ClientInv

\* The invariant of the two caches of the client.
LEMMA ClientInvariant ==
  ClientSpec => []ClientInv
  <1>1. ClientInit => ClientInv
    BY ClientInitially
  <1>2. ClientInv /\ [ClientNext]_clientVars => ClientInv'
    BY ClientStep
  <1> QED
    BY <1>1, <1>2, PTL DEF ClientSpec

\* Whatever is pushed out of the list of introspections to make room was used less
\* recently than everything that stays, for every size of the list and every
\* interleaving of lookups, stores, prunes and evictions.
THEOREM ClientMostRecentKept ==
  ClientSpec => []MostRecentKept
  <1>1. ClientInv => MostRecentKept
    BY DEF ClientInv, IntrospectionInv, Listed, Leads, MostRecentKept
  <1> QED
    BY <1>1, ClientInvariant, PTL

\* A token that ResolveServiceToken returns was issued for a list that names the
\* scopes asked for, and has the margin of expiringSoon left or what the service
\* granted less the time of one call, for all lists of scopes and all lifetimes
\* that the service may grant.
THEOREM ClientTokenServes ==
  ClientSpec => []TokenServes
  <1>1. ClientInv => TokenServes
    <2>1. SUFFICES ASSUME ClientInv, NEW c \in Callers
                   PROVE  given[c].ok =>
                             /\ Names(given[c].sent) = Names(given[c].asked)
                             /\ \/ given[c].left >= Margin
                                \/ given[c].left >= given[c].life - Timeout
      BY DEF TokenServes
    <2>2. given[c] \in Answers
      BY <2>1 DEF ClientInv, TokenInv
    <2> QED
      BY <2>2, Zenon DEF Answers
  <1> QED
    BY <1>1, ClientInvariant, PTL

\* IntrospectProto accepts a revoked token for at most cacheTTL and the time of two
\* calls, for every number of callers and tokens and every ttl and timeout.
THEOREM ClientBoundedStaleness ==
  ClientSpec => BoundedStaleness
  <1>1. ClientInv /\ [ClientNext]_clientVars =>
           [\A c \in Callers :
               pc[c] = "answered" /\ pc'[c] = "idle" /\ result'[c] = "ok"
               => since[token[c]] <= Staleness]_vars
    <2>1. SUFFICES ASSUME ClientInv, [ClientNext]_clientVars, ~UNCHANGED vars,
                          NEW c \in Callers,
                          pc[c] = "answered", pc'[c] = "idle", result'[c] = "ok"
                   PROVE  since[token[c]] <= Staleness
      OBVIOUS
    <2>2. Next
      BY <2>1 DEF ClientNext, clientVars
    <2> QED
      BY <2>1, <2>2, StalenessStep DEF ClientInv
  <1> QED
    BY <1>1, ClientInvariant, PTL DEF ClientSpec, BoundedStaleness
================================================================================
