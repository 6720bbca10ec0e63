------------------------ MODULE SCSIPassThroughProofs ------------------------
(***************************************************************************)
(* Proofs about SCSIPassThrough, for any alignment masks, any sector size, *)
(* any addresses malloc returns and any sets of security protocols: what a *)
(* call holds, with which size it allocates, where its data buffer lies,   *)
(* and what the list of the security protocols says.                       *)
(***************************************************************************)
EXTENDS SCSIPassThrough, FiniteSetTheorems, TLAPS

-----------------------------------------------------------------------------
(* The alignment of an address.                                            *)

\* (ptr + m) & ~m is a multiple of m + 1, and the first one from ptr on.
LEMMA AlignUpFacts ==
  ASSUME NEW ptr \in Nat, NEW m \in Nat
  PROVE  /\ AlignUp(ptr, m) \in Nat
         /\ AlignUp(ptr, m) % (m + 1) = 0
         /\ ptr <= AlignUp(ptr, m) /\ AlignUp(ptr, m) <= ptr + m
<1>. DEFINE b == m + 1
            q == (ptr + m) \div b
<1>1. b \in Nat \ {0} /\ ptr + m \in Nat
  OBVIOUS
<1>2. q \in Nat /\ q * b <= ptr + m /\ ptr + m < q * b + b
  <2>. HIDE DEF b
  <2>. QED  BY <1>1
<1>3. (q * b) % b = 0 /\ q * b \in Nat
  <2>. HIDE DEF b, q
  <2>. QED  BY <1>1, <1>2
<1>4. AlignUp(ptr, m) = q * b
  BY DEF AlignUp
<1>5. ptr <= q * b
  <2>. DEFINE a == q * b
  <2>1. a \in Nat /\ ptr + m < a + (m + 1)
    BY <1>2, <1>3
  <2>. HIDE DEF a
  <2>. QED  BY <2>1
<1>. QED  BY <1>2, <1>3, <1>4, <1>5

-----------------------------------------------------------------------------
(* The list of the security protocols.                                     *)

\* How many protocols of p come before c.
Rank(p, c) == Cardinality({d \in p : d < c})

LEMMA IntervalFacts ==
  ASSUME NEW n \in Nat
  PROVE  /\ IsFiniteSet(0 .. n - 1) /\ Cardinality(0 .. n - 1) = n
         /\ IsFiniteSet(1 .. n) /\ Cardinality(1 .. n) = n
<1>. DEFINE m == n - 1
<1>1. m \in Int /\ m - 0 + 1 = n /\ 0 <= m + 1
  OBVIOUS
<1>2. IsFiniteSet(0 .. m) /\ Cardinality(0 .. m) = m - 0 + 1
  <2>. HIDE DEF m
  <2>. QED  BY <1>1, FS_Interval
<1>3. IsFiniteSet(1 .. n) /\ Cardinality(1 .. n) = n
  BY FS_Interval
<1>. QED  BY <1>1, <1>2, <1>3

LEMMA SubsetFacts ==
  ASSUME NEW S, NEW T, IsFiniteSet(S), T \subseteq S
  PROVE  /\ IsFiniteSet(T) /\ Cardinality(T) \in Nat /\ Cardinality(S) \in Nat
         /\ Cardinality(T) <= Cardinality(S)
         /\ Cardinality(S) = Cardinality(T) => S = T
<1>1. T \in SUBSET S
  OBVIOUS
<1>2. /\ IsFiniteSet(T) /\ Cardinality(T) <= Cardinality(S)
      /\ Cardinality(S) = Cardinality(T) => S = T
  BY <1>1, FS_Subset
<1>. QED  BY <1>2, FS_CardinalityType

LEMMA AllProtocols == IsFiniteSet(0 .. 255) /\ Cardinality(0 .. 255) = 256
<1>1. 256 \in Nat /\ 0 .. 255 = 0 .. 256 - 1
  OBVIOUS
<1>. DEFINE n == 256
<1>2. IsFiniteSet(0 .. n - 1) /\ Cardinality(0 .. n - 1) = n
  <2>1. n \in Nat
    OBVIOUS
  <2>. HIDE DEF n
  <2>. QED  BY <2>1, IntervalFacts
<1>. QED  BY <1>1, <1>2

LEMMA ProtocolsAreFinite ==
  ASSUME NEW p \in SUBSET (0 .. 255)
  PROVE  /\ IsFiniteSet(p) /\ Cardinality(p) \in 0 .. 256
         /\ Cardinality(p) = 256 => p = 0 .. 255
<1>. DEFINE all == 0 .. 255
<1>1. IsFiniteSet(all) /\ Cardinality(all) = 256 /\ p \subseteq all
  BY AllProtocols
<1>2. /\ IsFiniteSet(p) /\ Cardinality(p) \in Nat /\ Cardinality(p) <= 256
      /\ Cardinality(p) = 256 => p = all
  <2>. HIDE DEF all
  <2>. QED  BY <1>1, SubsetFacts
<1>. QED  BY <1>2

\* A protocol is preceded by fewer protocols than there are, and by fewer than
\* a later one is.
LEMMA RankFacts ==
  ASSUME NEW p \in SUBSET (0 .. 255), NEW c \in p
  PROVE  /\ Rank(p, c) \in Nat /\ Rank(p, c) < Cardinality(p)
         /\ \A d \in p : c < d => Rank(p, c) < Rank(p, d)
<1>. DEFINE Below(x) == {y \in p : y < x}
<1>1. \A x \in p : IsFiniteSet(Below(x)) /\ Cardinality(Below(x)) \in Nat
  BY ProtocolsAreFinite, SubsetFacts
<1>2. ASSUME NEW T \in SUBSET p, c \in T, Below(c) \subseteq T
      PROVE  Cardinality(Below(c)) < Cardinality(T)
  <2>1. IsFiniteSet(T) /\ Cardinality(T) \in Nat
    BY ProtocolsAreFinite, SubsetFacts
  <2>2. /\ Cardinality(Below(c)) <= Cardinality(T)
        /\ Cardinality(T) = Cardinality(Below(c)) => T = Below(c)
    BY <1>2, <2>1, SubsetFacts
  <2>3. T # Below(c)
    BY <1>2
  <2>4. Cardinality(Below(c)) \in Nat
    BY <1>1
  <2>. HIDE DEF Below
  <2>. QED  BY <2>1, <2>2, <2>3, <2>4
<1>3. Cardinality(Below(c)) < Cardinality(p)
  BY <1>2
<1>4. ASSUME NEW d \in p, c < d
      PROVE  Cardinality(Below(c)) < Cardinality(Below(d))
  <2>1. c \in Below(d)
    BY <1>4
  <2>2. ASSUME NEW y \in Below(c) PROVE y \in Below(d)
    <3>1. y \in p /\ y < c
      OBVIOUS
    <3>2. y \in Int /\ c \in Int /\ d \in Int
      BY <1>4, <3>1
    <3>3. y < d
      BY <1>4, <3>1, <3>2
    <3>. QED  BY <3>1, <3>3
  <2>. QED  BY <1>2, <2>1, <2>2
<1>. QED  BY <1>1, <1>3, <1>4 DEF Rank

\* Every place of the reply is the rank of exactly one protocol.
LEMMA RankIsOneToOne ==
  ASSUME NEW p \in SUBSET (0 .. 255)
  PROVE  /\ \A c, d \in p : Rank(p, c) = Rank(p, d) => c = d
         /\ \A k \in 1 .. Cardinality(p) : \E c \in p : Rank(p, c) = k - 1
<1>. DEFINE n == Cardinality(p)
            place == [c \in p |-> Rank(p, c) + 1]
<1>1. n \in Nat /\ IsFiniteSet(1 .. n) /\ Cardinality(1 .. n) = n
  <2>1. n \in Nat
    BY ProtocolsAreFinite
  <2>. HIDE DEF n
  <2>. QED  BY <2>1, IntervalFacts
<1>2. \A c \in p : Rank(p, c) \in Nat /\ Rank(p, c) < n
  BY RankFacts
<1>3. \A c, d \in p : Rank(p, c) = Rank(p, d) => c = d
  <2>. SUFFICES ASSUME NEW c \in p, NEW d \in p, c # d
                PROVE  Rank(p, c) # Rank(p, d)
    OBVIOUS
  <2>1. c < d \/ d < c
    OBVIOUS
  <2>. QED  BY <1>2, <2>1, RankFacts
<1>4. place \in Injection(p, 1 .. n)
  <2>. HIDE DEF n
  <2>. QED  BY <1>1, <1>2, <1>3 DEF Injection, IsInjective
<1>5. place \in Surjection(p, 1 .. n)
  BY <1>1, <1>4, FS_Injection
<1>6. \A k \in 1 .. n : \E c \in p : Rank(p, c) + 1 = k
  BY <1>5 DEF Surjection
<1>. QED  BY <1>2, <1>3, <1>6

\* The codes of a reply are the protocols, each one at its place.
LEMMA CodeFacts ==
  ASSUME NEW p \in SUBSET (0 .. 255), NEW k \in 1 .. Cardinality(p)
  PROVE  Reply(p).code[k] \in p /\ Rank(p, Reply(p).code[k]) = k - 1
<1>1. \E c \in p : Rank(p, c) = k - 1
  BY RankIsOneToOne
<1>2. Reply(p).code[k] = CHOOSE c \in p : Rank(p, c) = k - 1
  BY DEF Reply, Rank
<1>. QED  BY <1>1, <1>2

LEMMA CodesAreAll ==
  ASSUME NEW p \in SUBSET (0 .. 255)
  PROVE  {Reply(p).code[k] : k \in 1 .. Cardinality(p)} = p
<1>1. \A k \in 1 .. Cardinality(p) : Reply(p).code[k] \in p
  BY CodeFacts
<1>2. ASSUME NEW c \in p
      PROVE  \E k \in 1 .. Cardinality(p) : Reply(p).code[k] = c
  <2>. DEFINE k == Rank(p, c) + 1
  <2>1. k \in 1 .. Cardinality(p)
    BY RankFacts, ProtocolsAreFinite
  <2>2. Reply(p).code[k] \in p /\ Rank(p, Reply(p).code[k]) = Rank(p, c)
    BY <2>1, CodeFacts, RankFacts
  <2>. QED  BY <2>1, <2>2, RankIsOneToOne
<1>. QED  BY <1>1, <1>2

\* With an upper byte of 0 the length is the lower byte; the 256 protocols of
\* a full list, whose bytes are 1 and 0, become 16.
LEMMA LengthFacts ==
  ASSUME NEW p \in SUBSET (0 .. 255)
  PROVE  ListLength(Reply(p)) = IF Cardinality(p) = 256 THEN 16 ELSE Cardinality(p)
<1>1. \A n \in 0 .. 255 : ByteOr(n, 0) = n
  BY DEF ByteOr
<1>2. ByteOr(0, 16) = 16
  BY DEF ByteOr
<1>3. ListLength(Reply(p)) =
        ByteOr(Cardinality(p) % 256, ((Cardinality(p) \div 256) * 16) % 256)
  BY DEF ListLength, Reply
<1>4. CASE Cardinality(p) = 256
  BY <1>2, <1>3, <1>4
<1>5. CASE Cardinality(p) # 256
  <2>1. Cardinality(p) \in 0 .. 255
    BY <1>5, ProtocolsAreFinite
  <2>. QED  BY <1>1, <1>3, <2>1
<1>. QED  BY <1>4, <1>5

\* The first 16 codes of the full list are the protocols below 16.
LEMMA FullListIsCut == {Reply(0 .. 255).code[k] : k \in 1 .. 16} = 0 .. 15
<1>. DEFINE p == 0 .. 255
<1>1. Cardinality(p) = 256
  BY AllProtocols
<1>2. \A c \in p : Rank(p, c) = c
  <2>. SUFFICES ASSUME NEW c \in p PROVE Rank(p, c) = c
    OBVIOUS
  <2>1. {d \in p : d < c} = 0 .. c - 1
    OBVIOUS
  <2>2. Cardinality(0 .. c - 1) = c
    BY IntervalFacts
  <2>. QED  BY <2>1, <2>2 DEF Rank
<1>. DEFINE code == Reply(p).code
<1>3. \A k \in 1 .. 256 : code[k] = k - 1
  <2>. SUFFICES ASSUME NEW k \in 1 .. 256 PROVE code[k] = k - 1
    OBVIOUS
  <2>1. k \in 1 .. Cardinality(p)
    BY <1>1
  <2>2. code[k] \in p /\ Rank(p, code[k]) = k - 1
    BY <2>1, CodeFacts
  <2>. HIDE DEF p, code
  <2>. QED  BY <1>2, <2>2
<1>4. {code[k] : k \in 1 .. 16} = 0 .. 15
  <2>. HIDE DEF code
  <2>1. \A x \in 0 .. 15 : x + 1 \in 1 .. 16 /\ code[x + 1] = x
    BY <1>3
  <2>2. \A k \in 1 .. 16 : code[k] \in 0 .. 15
    BY <1>3
  <2>. QED  BY <2>1, <2>2
<1>. QED  BY <1>4

\* What the tool keeps of a reply.
LEMMA ParsedList ==
  ASSUME NEW p \in SUBSET (0 .. 255)
  PROVE  ParseList(Reply(p)) = IF Cardinality(p) = 256 THEN 0 .. 15 ELSE p
<1>1. CASE Cardinality(p) = 256
  <2>1. p = 0 .. 255
    BY <1>1, ProtocolsAreFinite
  <2>. QED  BY <1>1, <2>1, LengthFacts, FullListIsCut DEF ParseList
<1>2. CASE Cardinality(p) # 256
  BY <1>2, LengthFacts, CodesAreAll DEF ParseList
<1>. QED  BY <1>1, <1>2

-----------------------------------------------------------------------------
(* The calls.                                                              *)

\* The descriptors are asked for one after the other.
InOrder ==
  pc = "query" =>
    /\ i \in 0 .. 3
    /\ i \in {0, 1} => desc["adapter"] = "null"
    /\ desc["device"] = "null"

\* What is allocated, at each place of a call.
Blocks ==
  /\ pc \in {"query", "collect", "cleanup"} => held = Allocated
  /\ pc \in {"idle", "build"} => held = 0
  /\ pc = "send" => held = IF cmd = "Write" /\ ex THEN 1 ELSE 0

IInv == TypeOK /\ InOrder /\ Blocks /\ SizedByItself /\ AlignedInside /\ ListedAsSent

LEMMA AllocatedType == Allocated \in 0 .. 2
BY DEF Allocated

LEMMA InitIInv == Init => IInv
<1>. SUFFICES ASSUME Init PROVE IInv
  OBVIOUS
<1>1. Cardinality({}) = 0
  BY FS_EmptySet
<1>2. ListedAsSent
  BY <1>1 DEF Init, ListedAsSent
<1>3. TypeOK
  <2>1. sent \in Supported \cup {{}} /\ listed \subseteq 0 .. 255
    BY DEF Init
  <2>2. data \in [base: Nat, size: Nat, ptr: Nat]
    BY DEF Init, NoData
  <2>3. desc \in [Kinds -> {"null", "zeroes", "data"}]
    BY DEF Init, NoDescriptors
  <2>4. status \in BOOLEAN /\ ex \in BOOLEAN /\ mask \in Masks
    BY MasksAssumption DEF Init
  <2>. QED  BY <2>1, <2>2, <2>3, <2>4 DEF Init, TypeOK
<1>. QED  BY <1>2, <1>3 DEF Init, IInv, InOrder, Blocks, SizedByItself, AlignedInside

\* The reply to a request for the protocols is of a set of protocols.
LEMMA ReceiveListFacts ==
  ASSUME TypeOK, ListedAsSent, NEW outcome, ReceiveList(outcome)
  PROVE  /\ ListedAsSent'
         /\ listed' \subseteq 0 .. 255 /\ sent' \in Supported \cup {{}}
<1>1. CASE UNCHANGED protocols
  BY <1>1 DEF TypeOK, ListedAsSent, protocols
<1>2. ASSUME NEW p \in Supported \cup {{}}, sent' = p, listed' = ParseList(Reply(p))
      PROVE  /\ ListedAsSent'
             /\ listed' \subseteq 0 .. 255 /\ sent' \in Supported \cup {{}}
  <2>1. p \in SUBSET (0 .. 255)
    BY SupportedAssumption
  <2>2. listed' = IF Cardinality(p) = 256 THEN 0 .. 15 ELSE p
    BY <1>2, <2>1, ParsedList
  <2>. QED  BY <1>2, <2>1, <2>2 DEF ListedAsSent
<1>. QED  BY <1>1, <1>2 DEF ReceiveList

\* The data buffer of a Write in the EX form.
LEMMA BufferFacts ==
  ASSUME NEW base \in 1 .. MaxAddress, NEW m \in Nat
  PROVE  LET d == AllocateAlignedBuffer(base, m)
         IN  /\ d \in [base: Nat, size: Nat, ptr: Nat]
             /\ d.ptr % (m + 1) = 0 /\ d.base <= d.ptr
             /\ d.ptr + SectorSize <= d.base + d.size
<1>1. base \in Nat /\ SectorSize \in Nat
  BY SizesAssumption
<1>2. /\ AlignUp(base, m) \in Nat /\ AlignUp(base, m) % (m + 1) = 0
      /\ base <= AlignUp(base, m) /\ AlignUp(base, m) <= base + m
  BY <1>1, AlignUpFacts
<1>. QED  BY <1>1, <1>2 DEF AllocateAlignedBuffer

LEMMA NextIInv == IInv /\ [Next]_vars => IInv'
<1>. SUFFICES ASSUME IInv, [Next]_vars PROVE IInv'
  OBVIOUS
<1>. USE MasksAssumption, SizesAssumption DEF IInv
<1>1. CASE Call
  <2>1. TypeOK'
    <3>1. data' \in [base: Nat, size: Nat, ptr: Nat]
      BY <1>1 DEF Call, NoData
    <3>2. desc' \in [Kinds -> {"null", "zeroes", "data"}]
      BY <1>1 DEF Call, NoDescriptors
    <3>3. /\ status' \in BOOLEAN /\ ex' \in BOOLEAN /\ mask' \in Masks
          /\ listed' = listed /\ sent' = sent
      BY <1>1 DEF Call, protocols
    <3>. QED  BY <1>1, <3>1, <3>2, <3>3 DEF Call, TypeOK
  <2>2. InOrder' /\ Blocks'
    BY <1>1 DEF Call, InOrder, Blocks, Allocated, NoDescriptors, Kinds
  <2>3. SizedByItself' /\ AlignedInside' /\ ListedAsSent'
    BY <1>1 DEF Call, SizedByItself, AlignedInside, ListedAsSent, protocols
  <2>. QED  BY <2>1, <2>2, <2>3
<1>2. CASE QuerySize
  BY <1>2 DEF QuerySize, Advance, Cleanup, TypeOK, InOrder, Blocks, SizedByItself,
     AlignedInside, ListedAsSent, outputs, protocols, Allocated, Kinds, Kind
<1>3. CASE QueryDescriptor
  <2>1. /\ UNCHANGED <<cmd, header, status, mask, ex, data, request, iResult, listed, sent>>
        /\ pc = "query" /\ i \in {1, 3}
    BY <1>3 DEF QueryDescriptor, outputs, protocols
  <2>2. /\ \/ i' = i + 1 /\ pc' = IF i = 3 THEN "collect" ELSE "query"
           \/ i' = i /\ pc' = "cleanup"
        /\ \/ UNCHANGED <<desc, held>>
           \/ /\ held' = held + 1
              /\ \E content \in {"zeroes", "data"} : desc' = [desc EXCEPT ![Kind] = content]
    BY <1>3 DEF QueryDescriptor, Advance, Cleanup
  <2>3. desc' \in [Kinds -> {"null", "zeroes", "data"}] /\ Kind \in Kinds
    BY <2>2 DEF TypeOK, Kind, Kinds
  <2>4. held = Allocated /\ desc[Kind] = "null"
    BY <2>1 DEF Blocks, InOrder, Kind
  <2>5. held' = Allocated'
    BY <2>1, <2>2, <2>3, <2>4 DEF Allocated, Kind, Kinds, TypeOK
  <2>6. held' \in 0 .. 2
    BY <2>5, AllocatedType DEF Allocated
  <2>7. InOrder'
    BY <2>1, <2>2, <2>3 DEF InOrder, Kind, Kinds, TypeOK
  <2>. QED  BY <2>1, <2>2, <2>3, <2>5, <2>6, <2>7
            DEF TypeOK, Blocks, SizedByItself, AlignedInside, ListedAsSent
<1>4. CASE Collect
  <2>. USE <1>4 DEF Collect, query, protocols
  <2>1. TypeOK'
    BY DEF TypeOK
  <2>2. InOrder' /\ Blocks'
    BY DEF InOrder, Blocks, Allocated
  <2>3. SizedByItself' /\ AlignedInside' /\ ListedAsSent'
    BY DEF SizedByItself, AlignedInside, ListedAsSent
  <2>. QED  BY <2>1, <2>2, <2>3
<1>5. CASE Release
  BY <1>5 DEF Release, TypeOK, InOrder, Blocks, SizedByItself, AlignedInside,
     ListedAsSent, query, outputs, protocols, Allocated
<1>6. CASE Build
  <2>1. /\ UNCHANGED <<cmd, i, header, desc, status, mask, ex, request, listed, sent>>
        /\ pc = "build" /\ held = 0 /\ mask \in Nat
    BY <1>6 DEF Build, query, outputs, protocols, Blocks, TypeOK
  <2>2. CASE cmd # "Write" \/ ~ex
    BY <1>6, <2>1, <2>2 DEF Build, TypeOK, InOrder, Blocks, SizedByItself, AlignedInside,
       ListedAsSent
  <2>3. CASE cmd = "Write" /\ ex /\ pc' = "send"
    <3>1. PICK base \in 1 .. MaxAddress : data' = AllocateAlignedBuffer(base, mask)
      BY <1>6, <2>3 DEF Build
    <3>2. /\ data' \in [base: Nat, size: Nat, ptr: Nat]
          /\ data'.ptr % (mask + 1) = 0 /\ data'.base <= data'.ptr
          /\ data'.ptr + SectorSize <= data'.base + data'.size
      BY <2>1, <3>1, BufferFacts
    <3>3. held' = 1 /\ UNCHANGED iResult
      BY <1>6, <2>1, <2>3 DEF Build
    <3>. QED  BY <2>1, <2>3, <3>2, <3>3
              DEF TypeOK, InOrder, Blocks, SizedByItself, AlignedInside, ListedAsSent
  <2>4. CASE cmd = "Write" /\ ex /\ pc' = "idle"
    BY <1>6, <2>1, <2>4 DEF Build, TypeOK, InOrder, Blocks, SizedByItself, AlignedInside,
       ListedAsSent
  <2>. QED  BY <1>6, <2>2, <2>3, <2>4 DEF Build
<1>7. CASE Send
  <2>1. /\ UNCHANGED <<cmd, i, header, desc, status, mask, ex, data>>
        /\ pc' = "idle" /\ iResult' \in {-1, 0}
    BY <1>7 DEF Send, query, outputs
  <2>2. held' = 0
    <3>1. held = IF cmd = "Write" /\ ex THEN 1 ELSE 0
      BY <1>7 DEF Send, Blocks
    <3>2. held' = IF cmd = "Write" /\ ex THEN held - 1 ELSE held
      BY <1>7 DEF Send
    <3>. QED  BY <3>1, <3>2
  <2>3. held' \in 0 .. 2
    BY <2>2
  <2>4. PICK outcome \in {"failed", "good", "check condition"} : ReceiveList(outcome)
    BY <1>7 DEF Send
  <2>5. /\ ListedAsSent'
        /\ listed' \subseteq 0 .. 255 /\ sent' \in Supported \cup {{}}
    BY <2>4, ReceiveListFacts
  <2>6. TypeOK'
    BY <2>1, <2>3, <2>5 DEF TypeOK
  <2>. QED  BY <2>1, <2>2, <2>5, <2>6 DEF InOrder, Blocks, SizedByItself, AlignedInside
<1>8. CASE UNCHANGED vars
  <2>. USE <1>8 DEF vars, query, outputs, protocols
  <2>1. TypeOK' /\ ListedAsSent'
    BY DEF TypeOK, ListedAsSent
  <2>2. InOrder' /\ Blocks'
    BY DEF InOrder, Blocks, Allocated
  <2>3. SizedByItself' /\ AlignedInside'
    BY DEF SizedByItself, Kind, AlignedInside
  <2>. QED  BY <2>1, <2>2, <2>3
<1>. QED  BY <1>1, <1>2, <1>3, <1>4, <1>5, <1>6, <1>7, <1>8 DEF Next

LEMMA Invariant == Spec => []IInv
BY InitIInv, NextIInv, PTL DEF Spec

-----------------------------------------------------------------------------
\* Every variable has its type; a call never holds more than two blocks.
THEOREM TypeCorrect == Spec => []TypeOK
<1>1. IInv => TypeOK
  BY DEF IInv
<1>. QED  BY <1>1, Invariant, PTL

\* A call returns with nothing allocated, whichever of its allocations and
\* requests failed.
THEOREM CallsReleaseAll == Spec => []NothingHeld
<1>1. IInv => NothingHeld
  BY DEF IInv, Blocks, NothingHeld
<1>. QED  BY <1>1, Invariant, PTL

\* The size in the header is the one of the descriptor that is allocated next.
THEOREM SizesMatch == Spec => []SizedByItself
<1>1. IInv => SizedByItself
  BY DEF IInv
<1>. QED  BY <1>1, Invariant, PTL

\* The buffer of a Write is aligned and lies in its block, for every mask.
THEOREM BufferIsAligned == Spec => []AlignedInside
<1>1. IInv => AlignedInside
  BY DEF IInv
<1>. QED  BY <1>1, Invariant, PTL

\* The list of protocols is the one sent, for every set of protocols but the
\* full one.
THEOREM ListIsSent == Spec => []ListedAsSent
<1>1. IInv => ListedAsSent
  BY DEF IInv
<1>. QED  BY <1>1, Invariant, PTL
=============================================================================
