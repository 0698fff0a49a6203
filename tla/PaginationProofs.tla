--------------------------- MODULE PaginationProofs ---------------------------
(***************************************************************************)
(* Facts about lists and their pages (module Pagination), for every view   *)
(* that orders a set of rows and shows a page of it.                       *)
(***************************************************************************)
EXTENDS Pagination, FiniteSetTheorems, TLAPS

(* Ordering a finite set by a rank that tells its elements apart lists     *)
(* each of them once, the lower rank first.                                *)
LEMMA InOrderFacts ==
    ASSUME NEW S, IsFiniteSet(S), NEW rank, \A x \in S : rank[x] \in Int,
           \A x, y \in S : rank[x] = rank[y] => x = y
    PROVE  /\ Cardinality(S) \in Nat
           /\ DOMAIN InOrder(S, rank) = 1..Cardinality(S)
           /\ InOrder(S, rank) \in [1..Cardinality(S) -> S]
           /\ \A x \in S : \E i \in 1..Cardinality(S) : InOrder(S, rank)[i] = x
           /\ \A i, j \in 1..Cardinality(S) : InOrder(S, rank)[i] = InOrder(S, rank)[j] => i = j
           /\ \A i, j \in 1..Cardinality(S) :
                 i < j => rank[InOrder(S, rank)[i]] < rank[InOrder(S, rank)[j]]
<1> DEFINE n == Cardinality(S)
           below(x) == {y \in S : rank[y] <= rank[x]}
           f == [x \in S |-> Cardinality(below(x))]
<1>1. n \in Nat
  BY FS_CardinalityType
<1>2. ASSUME NEW x \in S
      PROVE  IsFiniteSet(below(x)) /\ Cardinality(below(x)) \in 1..n
  <2>1. below(x) \in SUBSET S
    OBVIOUS
  <2>2. IsFiniteSet(below(x)) /\ Cardinality(below(x)) <= n
    BY <2>1, FS_Subset
  <2>3. x \in below(x)
    OBVIOUS
  <2>4. Cardinality(below(x)) # 0
    BY <2>2, <2>3, FS_EmptySet
  <2>5. Cardinality(below(x)) \in Nat
    BY <2>2, FS_CardinalityType
  <2> HIDE DEF below, n
  <2> QED BY <1>1, <2>2, <2>4, <2>5
<1>3. ASSUME NEW x \in S, NEW y \in S, rank[x] < rank[y]
      PROVE  Cardinality(below(x)) < Cardinality(below(y))
  <2>1. below(x) \in SUBSET below(y)
    <3>1. \A z \in below(x) : z \in S /\ rank[z] \in Int /\ rank[z] <= rank[x]
      OBVIOUS
    <3>2. rank[x] \in Int /\ rank[y] \in Int
      OBVIOUS
    <3> QED BY <1>3, <3>1, <3>2
  <2>2. y \in below(y) /\ y \notin below(x)
    BY <1>3
  <2>3. IsFiniteSet(below(y)) /\ Cardinality(below(x)) \in 1..n /\ Cardinality(below(y)) \in 1..n
    BY <1>2
  <2> HIDE DEF below
  <2>4. Cardinality(below(x)) <= Cardinality(below(y))
        /\ Cardinality(below(x)) # Cardinality(below(y))
    BY <2>1, <2>2, <2>3, FS_Subset
  <2> HIDE DEF n
  <2> QED BY <1>1, <2>3, <2>4
<1>4. f \in [S -> 1..n]
  BY <1>2
<1>5. \A x, y \in S : f[x] = f[y] => x = y
  <2> SUFFICES ASSUME NEW x \in S, NEW y \in S, f[x] = f[y], x # y PROVE FALSE
    OBVIOUS
  <2>1. rank[x] < rank[y] \/ rank[y] < rank[x]
    OBVIOUS
  <2>2. Cardinality(below(x)) = Cardinality(below(y))
    OBVIOUS
  <2>3. Cardinality(below(x)) \in 1..n /\ Cardinality(below(y)) \in 1..n
    BY <1>2
  <2>4. /\ rank[x] < rank[y] => Cardinality(below(x)) < Cardinality(below(y))
        /\ rank[y] < rank[x] => Cardinality(below(y)) < Cardinality(below(x))
    BY <1>3
  <2> HIDE DEF f, below, n
  <2> QED BY <1>1, <2>1, <2>2, <2>3, <2>4
<1> HIDE DEF f
<1>6. f \in Injection(S, 1..n)
  BY <1>4, <1>5 DEF Injection, IsInjective
<1>7. IsFiniteSet(1..n) /\ Cardinality(1..n) = n
  BY <1>1, FS_Interval
<1>8. f \in Surjection(S, 1..n)
  BY <1>6, <1>7, FS_Injection
<1>9. ASSUME NEW k \in 1..n
      PROVE  /\ InOrder(S, rank)[k] \in S
             /\ f[InOrder(S, rank)[k]] = k
  <2>1. \E x \in S : f[x] = k
    BY <1>8 DEF Surjection
  <2>2. \E x \in S : Cardinality(below(x)) = k
    BY <2>1 DEF f
  <2>3. InOrder(S, rank)[k] = CHOOSE x \in S : Cardinality(below(x)) = k
    BY DEF InOrder
  <2>4. InOrder(S, rank)[k] \in S /\ Cardinality(below(InOrder(S, rank)[k])) = k
    BY <2>2, <2>3
  <2> QED BY <2>4 DEF f
<1>10. DOMAIN InOrder(S, rank) = 1..n /\ InOrder(S, rank) \in [1..n -> S]
  BY <1>9 DEF InOrder
<1>11. \A x \in S : \E i \in 1..n : InOrder(S, rank)[i] = x
  BY <1>4, <1>5, <1>9
<1>12. \A i, j \in 1..n : InOrder(S, rank)[i] = InOrder(S, rank)[j] => i = j
  BY <1>9
<1>13. ASSUME NEW i \in 1..n, NEW j \in 1..n, i < j
       PROVE  rank[InOrder(S, rank)[i]] < rank[InOrder(S, rank)[j]]
  <2>1. PICK x \in S : x = InOrder(S, rank)[i] /\ f[x] = i
    BY <1>9
  <2>2. PICK y \in S : y = InOrder(S, rank)[j] /\ f[y] = j
    BY <1>9
  <2>3. f[x] = Cardinality(below(x)) /\ f[y] = Cardinality(below(y))
    BY DEF f
  <2>4. ~ (rank[y] < rank[x]) /\ x # y
    <3> HIDE DEF below
    <3> QED BY <1>1, <1>3, <1>13, <2>1, <2>2, <2>3
  <2> QED BY <2>1, <2>2, <2>4
<1> HIDE DEF n
<1> QED BY <1>1, <1>10, <1>11, <1>12, <1>13 DEF n

(* The elements of a list that are in a set. *)
LEMMA ThoseFacts ==
    ASSUME NEW T, NEW list \in Seq(T), NEW S
    PROVE  /\ Those(list, S) \in Seq(T)
           /\ \A x : (\E j \in 1..Len(Those(list, S)) : Those(list, S)[j] = x)
                       <=> x \in S /\ \E i \in 1..Len(list) : list[i] = x
           /\ (\A i \in 1..Len(list) : list[i] \in S) => Len(Those(list, S)) = Len(list)
<1> DEFINE I == {i \in DOMAIN list : list[i] \in S}
           rank == [i \in DOMAIN list |-> i]
<1>1. Len(list) \in Nat /\ DOMAIN list = 1..Len(list)
  OBVIOUS
<1>2. IsFiniteSet(1..Len(list)) /\ Cardinality(1..Len(list)) = Len(list)
  BY <1>1, FS_Interval
<1>3. IsFiniteSet(I)
  BY <1>1, <1>2, FS_Subset
<1>p. PICK at : at = InOrder(I, rank)
  OBVIOUS
<1>n. PICK n \in Nat : n = Cardinality(I)
  BY <1>3, FS_CardinalityType
<1>4. /\ DOMAIN at = 1..n /\ at \in [1..n -> I]
      /\ \A i \in I : \E k \in 1..n : at[k] = i
  <2>1. (\A i \in I : rank[i] \in Int) /\ \A i, j \in I : rank[i] = rank[j] => i = j
    OBVIOUS
  <2> HIDE DEF I, rank
  <2>2. /\ DOMAIN InOrder(I, rank) = 1..Cardinality(I)
        /\ InOrder(I, rank) \in [1..Cardinality(I) -> I]
        /\ \A x \in I : \E i \in 1..Cardinality(I) : InOrder(I, rank)[i] = x
    BY <1>3, <2>1, InOrderFacts
  <2> QED BY <1>p, <1>n, <2>2
<1>5. Those(list, S) = [k \in 1..n |-> list[at[k]]]
  BY <1>p, <1>4 DEF Those
<1>6. \A k \in 1..n : list[at[k]] \in T
  BY <1>1, <1>4
<1>t. PICK those : those = Those(list, S)
  OBVIOUS
<1>7. those \in Seq(T) /\ Len(those) = n /\ \A k \in 1..n : those[k] = list[at[k]]
  BY <1>5, <1>6, <1>t
<1>8. \A x : (\E j \in 1..Len(those) : those[j] = x) <=> x \in S /\ \E i \in 1..Len(list) : list[i] = x
  BY <1>1, <1>4, <1>7
<1>9. ASSUME \A i \in 1..Len(list) : list[i] \in S
      PROVE  Len(those) = Len(list)
  <2>1. I = 1..Len(list)
    BY <1>1, <1>9
  <2> QED BY <1>2, <1>7, <1>n, <2>1
<1> QED BY <1>7, <1>8, <1>9, <1>t

(* Within 32 bits arithmetic is what it seems.                             *)
LEMMA WrapFacts ==
    ASSUME NEW n \in Nat, n < Half
    PROVE  Wrap(n) = n
<1>1. Half \in Nat /\ n + Half \in Nat /\ n + Half < 2 * Half /\ 2 * Half > 0
  BY PaginationAssumption
<1>2. \A a, b \in Nat : a < b => a % b = a
  OBVIOUS
<1>3. (n + Half) % (2 * Half) = n + Half
  BY <1>1, <1>2
<1> QED BY <1>1, <1>3 DEF Wrap

(* An id survives its way through a path. *)
LEMMA PathFacts ==
    ASSUME NEW p \in 1..Half - 1
    PROVE  PathInt32(p) = [err |-> Ok, id |-> p]
<1>h. PICK h \in Nat : h = Half
  BY PaginationAssumption
<1>1. p \in Nat /\ p < h /\ 1 <= h
  BY <1>h
<1>2. p \in -2 * Half * Half .. 2 * Half * Half - 1
  <2>1. \E k \in Nat : k = h * h /\ h <= k
    <3>1. h * h \in Nat
      BY <1>h
    <3>2. h * h = h + h * (h - 1) /\ h * (h - 1) \in Nat
      BY <1>1
    <3>3. QED
      BY <3>1, <3>2
  <2>2. PICK k \in Nat : k = h * h /\ h <= k
    BY <2>1
  <2>3. -2 * h * h = -2 * k /\ 2 * h * h - 1 = 2 * k - 1
    BY <2>2
  <2>4. p \in -2 * k .. 2 * k - 1
    BY <1>1, <2>2
  <2>5. QED
    BY <2>3, <2>4, <1>h
<1>3. Wrap(p) = p
  BY <1>1, <1>h, WrapFacts
<1>4. QED
  BY <1>2, <1>3 DEF PathInt32

(* The limit of a page. *)
LEMMA LimitFacts ==
    ASSUME NEW page \in Int, NEW limit \in Int
    PROVE  /\ ValidatePaginationParams(page, limit).limit \in 1..MaxLimit
           /\ limit \in 1..MaxLimit => ValidatePaginationParams(page, limit).limit = limit
  BY PaginationAssumption DEF ValidatePaginationParams

(* What is cut out of a sequence. *)
LEMMA WindowedFacts ==
    ASSUME NEW T, NEW list \in Seq(T), NEW off \in Nat, NEW m \in 0..Len(list)
    PROVE  LET k == IF off < m THEN m - off ELSE 0
               s == SubSeq(list, off + 1, m)
           IN  s \in Seq(T) /\ Len(s) = k /\ \A j \in 1..k : s[j] = list[off + j]
<1>1. \A i \in off + 1 .. m : list[i] \in T
  OBVIOUS
<1>2. /\ SubSeq(list, off + 1, m) \in Seq(T)
      /\ Len(SubSeq(list, off + 1, m)) = IF off + 1 <= m THEN m - (off + 1) + 1 ELSE 0
      /\ \A i \in 1 .. m - (off + 1) + 1 : SubSeq(list, off + 1, m)[i] = list[off + 1 + i - 1]
  BY <1>1
<1> QED BY <1>2

(* Counting by limit puts the items from offset on on a page. *)
LEMMA PageArithmetic ==
    ASSUME NEW l \in Nat, l > 0, NEW page \in Nat, page > 0, NEW i \in Nat, i > 0
    PROVE  (i - 1) \div l + 1 = page <=> (page - 1) * l < i /\ i <= (page - 1) * l + l
<1> DEFINE q == (i - 1) \div l
           p == page - 1
<1>1. q \in Nat /\ p \in Nat /\ q * l <= i - 1 /\ i - 1 < q * l + l
  OBVIOUS
<1>2. q < p => q * l + l <= p * l
  OBVIOUS
<1>3. p < q => p * l + l <= q * l
  OBVIOUS
<1>4. q * l \in Nat /\ p * l \in Nat
  BY <1>1
<1> HIDE DEF q, p
<1>5. q = p <=> p * l < i /\ i <= p * l + l
  BY <1>1, <1>2, <1>3, <1>4
<1> QED BY <1>5, <1>1 DEF q, p

(* What a query returns from an offset on. *)
LEMMA LimitedFacts ==
    ASSUME NEW T, NEW list \in Seq(T), NEW off \in Nat, NEW l \in Nat, l > 0,
           NEW items, items = Limited(list, [offset |-> off, limit |-> l])
    PROVE  /\ items \in Seq(T)
           /\ \A j \in 1..Len(items) : off + j \in 1..Len(list) /\ items[j] = list[off + j]
           /\ \A i \in 1..Len(list) : off < i /\ i <= off + l <=> i - off \in 1..Len(items)
<1>m. PICK m \in 0..Len(list) : m = IF off + l < Len(list) THEN off + l ELSE Len(list)
  OBVIOUS
<1>1. Len(list) \in Nat
  OBVIOUS
<1>2. items = SubSeq(list, off + 1, m)
  BY <1>m DEF Limited
<1>3. /\ items \in Seq(T) /\ Len(items) = IF off < m THEN m - off ELSE 0
      /\ \A j \in 1..Len(items) : items[j] = list[off + j]
  <2> DEFINE k == IF off < m THEN m - off ELSE 0
             cut == SubSeq(list, off + 1, m)
  <2>1. cut \in Seq(T) /\ Len(cut) = k /\ \A j \in 1..k : cut[j] = list[off + j]
    BY <1>m, WindowedFacts
  <2>2. items = cut
    BY <1>2
  <2> QED BY <2>1, <2>2
<1>4. \A j \in 1..Len(items) : off + j \in 1..Len(list)
  BY <1>1, <1>3
<1>5. ASSUME NEW i \in 1..Len(list)
      PROVE  off < i /\ i <= off + l <=> i - off \in 1..Len(items)
  <2>1. i <= off + l <=> i <= m
    BY <1>1, <1>m
  <2>2. i - off \in 1..(IF off < m THEN m - off ELSE 0) <=> off < i /\ i <= m
    BY <1>1
  <2> QED BY <1>3, <2>1, <2>2
<1> QED BY <1>3, <1>4, <1>5

(* The number of a page, and whether its offset fits into 32 bits. *)
Number(page) == IF page < 1 THEN 1 ELSE page

Fits(page, limit) == (Number(page) - 1) * ValidatePaginationParams(page, limit).limit < Half

(* A page that fits into 32 bits has a good offset. *)
LEMMA WindowFacts ==
    ASSUME NEW page \in Int32, NEW limit \in Int32, Fits(page, limit)
    PROVE  \E off \in Nat, l \in 1..MaxLimit :
              /\ DecodeQueryParams(page, limit)
              /\ ValidatePaginationParams(page, limit) = [offset |-> off, limit |-> l]
              /\ \A i \in Nat \ {0} :
                    (i - 1) \div l + 1 = Number(page) <=> off < i /\ i <= off + l
<1>l. PICK l : l = ValidatePaginationParams(page, limit).limit
  OBVIOUS
<1>1. Half \in Nat /\ limit \in Int /\ page \in Int
  BY PaginationAssumption DEF Int32
<1>p. PICK p \in Nat : p = Number(page) /\ p > 0
  BY <1>1 DEF Number
<1>2. l \in 1..MaxLimit /\ MaxLimit \in Nat /\ l \in Nat /\ l > 0
  BY <1>l, <1>1, LimitFacts, PaginationAssumption
<1>3. (p - 1) * l \in Nat
  BY <1>p, <1>2
<1>4. ValidatePaginationParams(page, limit) = [offset |-> Wrap((p - 1) * l), limit |-> l]
  BY <1>l, <1>p, <1>1 DEF ValidatePaginationParams, Number
<1>5. Wrap((p - 1) * l) = (p - 1) * l
  BY <1>l, <1>p, <1>3, WrapFacts DEF Fits
<1>6. DecodeQueryParams(page, limit)
  BY DEF DecodeQueryParams
<1>7. ASSUME NEW i \in Nat \ {0}
      PROVE  (i - 1) \div l + 1 = p <=> (p - 1) * l < i /\ i <= (p - 1) * l + l
  <2>1. p \in Nat /\ p > 0 /\ l \in Nat /\ l > 0 /\ i \in Nat /\ i > 0
    BY <1>p, <1>2
  <2> QED BY <2>1, PageArithmetic
<1>o. PICK off \in Nat : off = (p - 1) * l
  BY <1>3
<1>8. /\ ValidatePaginationParams(page, limit) = [offset |-> off, limit |-> l]
      /\ \A i \in Nat \ {0} : (i - 1) \div l + 1 = Number(page) <=> off < i /\ i <= off + l
  BY <1>o, <1>p, <1>4, <1>5, <1>7
<1> QED BY <1>2, <1>6, <1>8, Zenon

(* Items are what a list has from an offset on, and where counting puts a  *)
(* page.                                                                   *)
CutAt(list, items, off) ==
    \A j \in 1..Len(items) : off + j \in 1..Len(list) /\ items[j] = list[off + j]

Counted(list, items, off, page, l) ==
    \A i \in 1..Len(list) : (i - 1) \div l + 1 = page <=> i - off \in 1..Len(items)

(* So are those of a page that fits into 32 bits. *)
LEMMA PagedFacts ==
    ASSUME NEW T, NEW list \in Seq(T), NEW page \in Int32, NEW limit \in Int32,
           Fits(page, limit), NEW result, result = Paged(list, page, limit)
    PROVE  /\ DecodeQueryParams(page, limit)
           /\ result = [err |-> Ok, items |-> result.items] /\ result.items \in Seq(T)
           /\ \E off \in Nat :
                 /\ CutAt(list, result.items, off)
                 /\ Counted(list, result.items, off, Number(page),
                            ValidatePaginationParams(page, limit).limit)
<1>1. PICK off \in Nat, l \in 1..MaxLimit :
         /\ DecodeQueryParams(page, limit)
         /\ ValidatePaginationParams(page, limit) = [offset |-> off, limit |-> l]
         /\ \A i \in Nat \ {0} : (i - 1) \div l + 1 = Number(page) <=> off < i /\ i <= off + l
  BY WindowFacts
<1>2. l \in Nat /\ l > 0
  BY PaginationAssumption
<1>3. result = [err |-> Ok, items |-> Limited(list, [offset |-> off, limit |-> l])]
  BY <1>1 DEF Paged
<1>4. result.items = Limited(list, [offset |-> off, limit |-> l])
  BY <1>3
<1>5. /\ result.items \in Seq(T)
      /\ \A j \in 1..Len(result.items) :
            off + j \in 1..Len(list) /\ result.items[j] = list[off + j]
      /\ \A i \in 1..Len(list) : off < i /\ i <= off + l <=> i - off \in 1..Len(result.items)
  BY <1>2, <1>4, LimitedFacts
<1>6. \A i \in 1..Len(list) :
         (i - 1) \div l + 1 = Number(page) <=> i - off \in 1..Len(result.items)
  <2>1. \A i \in 1..Len(list) : i \in Nat \ {0}
    OBVIOUS
  <2> QED BY <1>1, <1>5, <2>1
<1>7. ValidatePaginationParams(page, limit).limit = l
  BY <1>1
<1>8. CutAt(list, result.items, off)
  BY <1>5 DEF CutAt
<1>9. Counted(list, result.items, off, Number(page), ValidatePaginationParams(page, limit).limit)
  BY <1>6, <1>7 DEF Counted
<1> QED BY <1>1, <1>3, <1>4, <1>5, <1>8, <1>9

(* The offset of a page is an integer, although it may be negative. *)
LEMMA OffsetFacts ==
    ASSUME NEW page \in Int, NEW limit \in Int
    PROVE  ValidatePaginationParams(page, limit).offset \in Int
<1>p. PICK p \in Int : p = IF page < 1 THEN 1 ELSE page
  OBVIOUS
<1>l. PICK l : l = IF limit < 1 \/ limit > MaxLimit THEN DefaultLimit ELSE limit
  OBVIOUS
<1>k. PICK k : k = (p - 1) * l
  OBVIOUS
<1>1. l \in Int
  BY <1>l, PaginationAssumption
<1>2. k \in Int
  BY <1>k, <1>1
<1>3. ValidatePaginationParams(page, limit).offset = Wrap(k)
  <2>1. ValidatePaginationParams(page, limit) = [offset |-> Wrap(k), limit |-> l]
    BY <1>p, <1>l, <1>k, Zenon DEF ValidatePaginationParams
  <2> QED BY <2>1
<1>4. Wrap(k) \in Int
  <2>1. k + Half \in Int /\ 2 * Half \in Nat /\ 2 * Half > 0
    BY <1>2, PaginationAssumption
  <2>2. (k + Half) % (2 * Half) \in Int
    BY <2>1
  <2> QED BY <2>2, PaginationAssumption DEF Wrap
<1> QED BY <1>3, <1>4

(* Items come from a list. *)
OnlyOf(items, list) ==
    \A j \in 1..Len(items) : \E i \in 1..Len(list) : items[j] = list[i]

(* A page holds items of its list, and none if there is an error. *)
LEMMA PagedItems ==
    ASSUME NEW T, NEW list \in Seq(T), NEW page \in Int, NEW limit \in Int,
           NEW result, result = Paged(list, page, limit)
    PROVE  /\ result.items \in Seq(T) /\ result = [err |-> result.err, items |-> result.items]
           /\ result.err \in {Ok, "ErrDB"} /\ (result.err # Ok => result.items = <<>>)
           /\ OnlyOf(result.items, list)
<1>w. PICK w : w = ValidatePaginationParams(page, limit)
  OBVIOUS
<1>1. CASE w.offset < 0
  <2>1. result = [err |-> "ErrDB", items |-> <<>>]
    BY <1>w, <1>1 DEF Paged
  <2>2. <<>> \in Seq(T) /\ OnlyOf(<<>>, list)
    BY DEF OnlyOf
  <2>3. result.items = <<>> /\ result.err = "ErrDB"
    BY <2>1
  <2>4. result.err \in {Ok, "ErrDB"}
    BY <2>3
  <2> QED BY <2>1, <2>2, <2>3, <2>4
<1>2. CASE ~(w.offset < 0)
  <2>1. result = [err |-> Ok, items |-> Limited(list, w)]
    BY <1>w, <1>2 DEF Paged
  <2>i. PICK items : items = Limited(list, w)
    OBVIOUS
  <2>l. PICK l \in 1..MaxLimit : l = w.limit
    BY <1>w, LimitFacts
  <2>o. PICK off \in Nat : off = w.offset
    BY <1>w, <1>2, OffsetFacts
  <2>2. items = Limited(list, [offset |-> off, limit |-> l])
    BY <2>i, <2>l, <2>o DEF Limited
  <2>3. l \in Nat /\ l > 0
    BY PaginationAssumption
  <2>4. /\ items \in Seq(T)
        /\ \A j \in 1..Len(items) : off + j \in 1..Len(list) /\ items[j] = list[off + j]
    BY <2>2, <2>3, LimitedFacts
  <2>5. OnlyOf(items, list)
    BY <2>4 DEF OnlyOf
  <2>6. result.items = items /\ result.err = Ok
    BY <2>1, <2>i
  <2>7. result.err \in {Ok, "ErrDB"}
    BY <2>6
  <2> QED BY <2>1, <2>4, <2>5, <2>6, <2>7
<1> QED BY <1>1, <1>2

(* An answer shows what is on its page of a list. *)
ShowAlike(s, t) ==
    \A x : (\E j \in 1..Len(s) : s[j] = x) <=> \E j \in 1..Len(t) : t[j] = x

Shows(list, page, limit, answer) ==
    page \in Int32 =>
       /\ answer.code = IF Paged(list, page, limit).err = Ok THEN 200 ELSE 500
       /\ ShowAlike(answer.items, Paged(list, page, limit).items)

(* A list without repetitions is shown page by page. *)
LEMMA ShownIsRight ==
    ASSUME NEW T, NEW list \in Seq(T), \A i, j \in 1..Len(list) : list[i] = list[j] => i = j,
           NEW page \in Int, NEW limit \in Int32, NEW answer, Shows(list, page, limit, answer)
    PROVE  PageIsRight(list, page, limit, answer)
<1> SUFFICES ASSUME page \in Int32
             PROVE  IF Fits(page, limit)
                    THEN /\ answer.code = 200
                         /\ \A i \in 1..Len(list) :
                               (i - 1) \div ValidatePaginationParams(page, limit).limit + 1
                                     = Number(page)
                                 <=> \E j \in 1..Len(answer.items) : answer.items[j] = list[i]
                    ELSE /\ answer.code \in {200, 500}
                         /\ \A j \in 1..Len(answer.items) :
                               \E i \in 1..Len(list) : answer.items[j] = list[i]
  BY DEF PageIsRight, Fits, Number
<1>r. PICK result : result = Paged(list, page, limit)
  OBVIOUS
<1>i. limit \in Int
  BY PaginationAssumption DEF Int32
<1>0. result.items \in Seq(T) /\ OnlyOf(result.items, list)
  BY <1>i, <1>r, PagedItems
<1>s. /\ answer.code = IF result.err = Ok THEN 200 ELSE 500
      /\ ShowAlike(answer.items, result.items)
  BY <1>r DEF Shows
<1>f. ASSUME Fits(page, limit)
      PROVE  /\ answer.code = 200
             /\ \A i \in 1..Len(list) :
                   (i - 1) \div ValidatePaginationParams(page, limit).limit + 1 = Number(page)
                     <=> \E j \in 1..Len(answer.items) : answer.items[j] = list[i]
  <2>p. PICK off \in Nat :
           /\ CutAt(list, result.items, off)
           /\ Counted(list, result.items, off, Number(page),
                      ValidatePaginationParams(page, limit).limit)
    BY <1>f, <1>r, PagedFacts
  <2>1. /\ \A j \in 1..Len(result.items) :
              off + j \in 1..Len(list) /\ result.items[j] = list[off + j]
        /\ \A i \in 1..Len(list) :
              (i - 1) \div ValidatePaginationParams(page, limit).limit + 1 = Number(page)
                <=> i - off \in 1..Len(result.items)
    BY <2>p DEF CutAt, Counted
  <2>2. off \in Int /\ Len(list) \in Nat /\ Len(result.items) \in Nat
    BY <1>0
  <2>3. ASSUME NEW i \in 1..Len(list)
        PROVE  i - off \in 1..Len(result.items)
                 <=> \E j \in 1..Len(result.items) : result.items[j] = list[i]
    <3>1. ASSUME i - off \in 1..Len(result.items)
          PROVE  result.items[i - off] = list[i]
      <4>1. off + (i - off) = i
        BY <2>2
      <4> QED BY <2>1, <3>1, <4>1
    <3>2. ASSUME NEW j \in 1..Len(result.items), result.items[j] = list[i]
          PROVE  i - off = j
      <4>1. list[off + j] = list[i] /\ off + j \in 1..Len(list)
        BY <2>1, <3>2
      <4>2. off + j = i
        BY <4>1
      <4> QED BY <2>2, <4>2
    <3> QED BY <3>1, <3>2
  <2>4. answer.code = 200
    <3>1. result = [err |-> Ok, items |-> result.items]
      BY <1>f, <1>r, PagedFacts
    <3>2. result.err = Ok
      BY <3>1
    <3> QED BY <1>s, <3>2
  <2>5. ASSUME NEW i \in 1..Len(list)
        PROVE  (\E j \in 1..Len(answer.items) : answer.items[j] = list[i])
                 <=> \E j \in 1..Len(result.items) : result.items[j] = list[i]
    <3>1. PICK x : x = list[i]
      OBVIOUS
    <3>2. (\E j \in 1..Len(answer.items) : answer.items[j] = x)
            <=> \E j \in 1..Len(result.items) : result.items[j] = x
      BY <1>s, Zenon DEF ShowAlike
    <3> QED BY <3>1, <3>2, Zenon
  <2> QED BY <2>1, <2>3, <2>4, <2>5, Zenon
<1>o. /\ answer.code \in {200, 500}
      /\ \A j \in 1..Len(answer.items) : \E i \in 1..Len(list) : answer.items[j] = list[i]
  <2>1. answer.code \in {200, 500}
    BY <1>s
  <2>2. ASSUME NEW j \in 1..Len(answer.items)
        PROVE  \E i \in 1..Len(list) : answer.items[j] = list[i]
    <3>1. PICK x : x = answer.items[j]
      OBVIOUS
    <3>2. \E k \in 1..Len(answer.items) : answer.items[k] = x
      BY <3>1
    <3>3. \E k \in 1..Len(result.items) : result.items[k] = x
      BY <1>s, <3>2, Zenon DEF ShowAlike
    <3>4. PICK k \in 1..Len(result.items) : result.items[k] = x
      BY <3>3
    <3>5. \E i \in 1..Len(list) : result.items[k] = list[i]
      BY <1>0 DEF OnlyOf
    <3> QED BY <3>1, <3>4, <3>5
  <2> QED BY <2>1, <2>2
<1> QED BY <1>f, <1>o

(* So does what a handler replies. *)
LEMMA ReplyShows ==
    ASSUME NEW T, NEW list \in Seq(T), NEW page \in Int, NEW limit \in Int,
           NEW result, result = Paged(list, page, limit),
           NEW answer, answer = Reply(page, limit, result), limit \in Int32
    PROVE  Shows(list, page, limit, answer)
<1>0. result.err \in {Ok, "ErrDB"}
  BY PagedItems
<1>1. result.err # Ok => result.items = <<>>
  BY PagedItems
<1>2. ASSUME page \in Int32
      PROVE  /\ answer.code = IF result.err = Ok THEN 200 ELSE 500
             /\ answer.items = result.items
  <2>1. DecodeQueryParams(page, limit)
    BY <1>2 DEF DecodeQueryParams
  <2>2. CASE result.err = Ok
    BY <2>1, <2>2 DEF Reply
  <2>3. CASE result.err # Ok
    <3>1. result.err = "ErrDB" /\ result.items = <<>>
      BY <1>0, <1>1, <2>3
    <3>2. MapErrorToHTTP("ErrDB") = 500
      BY DEF MapErrorToHTTP
    <3> QED BY <2>1, <2>3, <3>1, <3>2 DEF Reply
  <2> QED BY <2>2, <2>3
<1>3. \A s : ShowAlike(s, s)
  BY Zenon DEF ShowAlike
<1> QED BY <1>2, <1>3 DEF Shows

LEMMA ReplyIsRight ==
    ASSUME NEW T, NEW list \in Seq(T), \A i, j \in 1..Len(list) : list[i] = list[j] => i = j,
           NEW page \in Int, NEW limit \in Int32
    PROVE  PageIsRight(list, page, limit, Reply(page, limit, Paged(list, page, limit)))
<1>r. PICK result : result = Paged(list, page, limit)
  OBVIOUS
<1>a. PICK answer : answer = Reply(page, limit, result)
  OBVIOUS
<1>1. limit \in Int
  BY PaginationAssumption DEF Int32
<1>2. Shows(list, page, limit, answer)
  BY <1>1, <1>a, <1>r, ReplyShows
<1> QED BY <1>2, <1>a, <1>r, ShownIsRight

(* A list that is not too long fits on the first page. *)
LEMMA FirstPage ==
    ASSUME NEW T, NEW list \in Seq(T), Len(list) <= MaxLimit
    PROVE  /\ Paged(list, 1, MaxLimit) = [err |-> Ok, items |-> list]
           /\ DecodeQueryParams(1, MaxLimit)
<1>1. /\ MaxLimit \in Nat /\ Half \in Nat /\ 0 < Half /\ MaxLimit < Half /\ 1 < Half /\ 1 <= MaxLimit
      /\ Len(list) \in Nat
  BY PaginationAssumption
<1>2. Wrap(0) = 0
  BY <1>1, WrapFacts
<1>3. ValidatePaginationParams(1, MaxLimit) = [offset |-> 0, limit |-> MaxLimit]
  BY <1>1, <1>2 DEF ValidatePaginationParams
<1>4. Limited(list, [offset |-> 0, limit |-> MaxLimit]) = SubSeq(list, 1, Len(list))
  BY <1>1 DEF Limited
<1>5. SubSeq(list, 1, Len(list)) = list
  OBVIOUS
<1>6. DecodeQueryParams(1, MaxLimit)
  BY <1>1 DEF DecodeQueryParams, Int32
<1> QED BY <1>3, <1>4, <1>5, <1>6 DEF Paged

-------------------------------------------------------------------------------
(* What a page of a list is made into, item by item. *)
MadeOf(list, f) == [i \in DOMAIN list |-> f[list[i]]]

Maps(f, S, V) == \A x \in S : f[x] \in V

LEMMA MadeOfFacts ==
    ASSUME NEW T, NEW V, NEW list \in Seq(T), NEW f, Maps(f, T, V),
           NEW made, made = MadeOf(list, f)
    PROVE  /\ made \in Seq(V) /\ Len(made) = Len(list)
           /\ \A i \in 1..Len(list) : made[i] = f[list[i]]
<1>1. \A i \in 1..Len(list) : f[list[i]] \in V
  BY DEF Maps
<1>2. made = [i \in 1..Len(list) |-> f[list[i]]] /\ Len(list) \in Nat
  BY DEF MadeOf
<1> QED BY <1>1, <1>2

LEMMA SameItems ==
    ASSUME NEW V, NEW s \in Seq(V), NEW t \in Seq(V), NEW k, Len(s) = k, Len(t) = k,
           \A j \in 1..k : s[j] = t[j]
    PROVE  s = t
  OBVIOUS

(* Cutting a page out of a list and making something of its items commute. *)
LEMMA PageOfMade ==
    ASSUME NEW T, NEW V, NEW list \in Seq(T), NEW f, Maps(f, T, V),
           NEW made, made = MadeOf(list, f),
           NEW page \in Int, NEW limit \in Int, NEW result, result = Paged(list, page, limit)
    PROVE  Paged(made, page, limit) = [err |-> result.err, items |-> MadeOf(result.items, f)]
<1>n. /\ made \in Seq(V) /\ Len(made) = Len(list)
      /\ \A i \in 1..Len(list) : made[i] = f[list[i]]
  <2>1. \A i \in 1..Len(list) : f[list[i]] \in V
    BY DEF Maps
  <2>2. made = [i \in 1..Len(list) |-> f[list[i]]] /\ Len(list) \in Nat
    BY DEF MadeOf
  <2> QED BY <2>1, <2>2
<1>w. PICK w : w = ValidatePaginationParams(page, limit)
  OBVIOUS
<1>1. CASE w.offset < 0
  <2>1. /\ result = [err |-> "ErrDB", items |-> <<>>]
        /\ Paged(made, page, limit) = [err |-> "ErrDB", items |-> <<>>]
    BY <1>w, <1>1 DEF Paged
  <2>3. MadeOf(<<>>, f) = <<>>
    <3>1. DOMAIN <<>> = {}
      OBVIOUS
    <3> QED BY <3>1 DEF MadeOf
  <2> QED BY <2>1, <2>3
<1>2. CASE ~(w.offset < 0)
  <2>1. /\ result = [err |-> Ok, items |-> Limited(list, w)]
        /\ Paged(made, page, limit) = [err |-> Ok, items |-> Limited(made, w)]
    BY <1>w, <1>2 DEF Paged
  <2>l. PICK l \in 1..MaxLimit : l = w.limit
    BY <1>w, LimitFacts
  <2>o. PICK off \in Nat : off = w.offset
    BY <1>w, <1>2, OffsetFacts
  <2>m. PICK m \in 0..Len(list) : m = IF off + l < Len(list) THEN off + l ELSE Len(list)
    BY PaginationAssumption
  <2>2. Limited(list, w) = SubSeq(list, off + 1, m)
    BY <2>l, <2>o, <2>m DEF Limited
  <2>3. Limited(made, w) = SubSeq(made, off + 1, m)
    BY <2>l, <2>o, <2>m, <1>n DEF Limited
  <2>k. PICK k : k = IF off < m THEN m - off ELSE 0
    OBVIOUS
  <2>s. PICK s \in Seq(T) : /\ s = SubSeq(list, off + 1, m) /\ Len(s) = k
                            /\ \A j \in 1..k : s[j] = list[off + j]
    <3>1. LET s == SubSeq(list, off + 1, m)
          IN  s \in Seq(T) /\ Len(s) = k /\ \A j \in 1..k : s[j] = list[off + j]
      BY <2>k, WindowedFacts
    <3> QED BY <3>1, Zenon
  <2>t. PICK t \in Seq(V) : /\ t = SubSeq(made, off + 1, m) /\ Len(t) = k
                            /\ \A j \in 1..k : t[j] = made[off + j]
    <3>1. m \in 0..Len(made)
      BY <1>n
    <3>2. LET t == SubSeq(made, off + 1, m)
          IN  t \in Seq(V) /\ Len(t) = k /\ \A j \in 1..k : t[j] = made[off + j]
      BY <1>n, <2>k, <3>1, WindowedFacts
    <3> QED BY <3>2, Zenon
  <2>4. t = MadeOf(s, f)
    <3>u. PICK u \in Seq(V) : u = MadeOf(s, f) /\ Len(u) = k /\ \A i \in 1..k : u[i] = f[s[i]]
      <4>0. s \in Seq(T) /\ Len(s) = k
        BY <2>s
      <4>1. PICK u : u = MadeOf(s, f)
        OBVIOUS
      <4>2. /\ u \in Seq(V) /\ Len(u) = Len(s)
            /\ \A i \in 1..Len(s) : u[i] = f[s[i]]
        BY <4>0, <4>1, MadeOfFacts
      <4> QED BY <4>0, <4>1, <4>2, Zenon
    <3>1. ASSUME NEW j \in 1..k PROVE t[j] = u[j]
      <4>0. Len(list) \in Nat /\ m \in Nat /\ m <= Len(list) /\ k \in Nat /\ j \in Nat /\ j >= 1 /\ j <= k
        BY <2>k
      <4>1. off + j \in 1..Len(list)
        <5>1. off < m /\ k = m - off
          BY <4>0, <2>k
        <5> QED BY <4>0, <5>1
      <4>2. t[j] = made[off + j] /\ made[off + j] = f[list[off + j]]
        BY <4>1, <1>n, <2>t
      <4>3. s[j] = list[off + j] /\ u[j] = f[s[j]]
        BY <2>s, <3>u
      <4> QED BY <4>2, <4>3
    <3>2. t = u
      BY <3>1, <3>u, <2>t, SameItems
    <3> QED BY <3>2, <3>u
  <2>5. Limited(made, w) = MadeOf(Limited(list, w), f)
    BY <2>2, <2>3, <2>4, <1>n, <2>s, <2>t, Zenon
  <2> QED BY <2>1, <2>5
<1> QED BY <1>1, <1>2

(* A query that shows what it finds of each row of a set, in an order. *)
TellsApart(f, S) == \A x, y \in S : f[x] = f[y] => x = y

Enumerates(list, f, S) ==
    /\ Len(list) = Cardinality(S)
    /\ \A i, j \in 1..Len(list) : list[i] = list[j] => i = j
    /\ \A i \in 1..Len(list) : \E x \in S : list[i] = f[x]
    /\ \A x \in S : \E i \in 1..Len(list) : list[i] = f[x]

LEMMA RowsInOrder ==
    ASSUME NEW S, IsFiniteSet(S), NEW rank, Maps(rank, S, Int), TellsApart(rank, S),
           NEW V, NEW f, Maps(f, S, V), TellsApart(f, S),
           NEW s, s = InOrder(S, rank), NEW list, list = MadeOf(s, f)
    PROVE  /\ DOMAIN s = 1..Cardinality(S) /\ s \in [1..Cardinality(S) -> S]
           /\ list \in Seq(V) /\ Enumerates(list, f, S)
<1>n. PICK n \in Nat : n = Cardinality(S)
  BY FS_CardinalityType
<1>1. /\ DOMAIN s = 1..n /\ s \in [1..n -> S]
      /\ \A x \in S : \E i \in 1..n : s[i] = x
      /\ \A i, j \in 1..n : s[i] = s[j] => i = j
  <2>1. (\A x \in S : rank[x] \in Int) /\ \A x, y \in S : rank[x] = rank[y] => x = y
    BY DEF Maps, TellsApart
  <2> QED BY <1>n, <2>1, InOrderFacts
<1>2. s \in Seq(S) /\ Len(s) = n
  BY <1>1
<1>l. /\ list \in Seq(V) /\ Len(list) = n
      /\ \A i \in 1..n : list[i] = f[s[i]]
  <2>1. /\ list \in Seq(V) /\ Len(list) = Len(s)
        /\ \A i \in 1..Len(s) : list[i] = f[s[i]]
    BY <1>2, MadeOfFacts
  <2> QED BY <1>2, <2>1, Zenon
<1>3. \A i, j \in 1..n : list[i] = list[j] => i = j
  BY <1>1, <1>l DEF TellsApart
<1>4. /\ \A i \in 1..n : \E x \in S : list[i] = f[x]
      /\ \A x \in S : \E i \in 1..n : list[i] = f[x]
  BY <1>1, <1>l
<1>5. Enumerates(list, f, S)
  BY <1>3, <1>4, <1>l, <1>n DEF Enumerates
<1> QED BY <1>1, <1>5, <1>l, <1>n
-------------------------------------------------------------------------------
(* The same if what a query finds, f, is made into something else, g. *)
LEMMA RowsMadeInOrder ==
    ASSUME NEW S, IsFiniteSet(S), NEW rank, Maps(rank, S, Int), TellsApart(rank, S),
           NEW T, NEW V, NEW f, Maps(f, S, T), NEW g, Maps(g, T, V),
           NEW h, \A x \in S : h[x] = g[f[x]], TellsApart(h, S),
           NEW s, s = InOrder(S, rank), NEW list, list = MadeOf(s, f),
           NEW view, view = MadeOf(list, g)
    PROVE  list \in Seq(T) /\ view \in Seq(V) /\ Enumerates(view, h, S)
<1>1. Maps(h, S, V)
  BY DEF Maps
<1>2. TellsApart(f, S)
  BY DEF TellsApart
<1>3. /\ DOMAIN s = 1..Cardinality(S) /\ s \in [1..Cardinality(S) -> S]
      /\ list \in Seq(T) /\ Enumerates(list, f, S)
  BY <1>2, RowsInOrder
<1>4. view = MadeOf(s, h)
  <2>1. DOMAIN list = DOMAIN s /\ \A i \in DOMAIN s : list[i] = f[s[i]] /\ s[i] \in S
    BY <1>3 DEF MadeOf
  <2>2. view = [i \in DOMAIN s |-> h[s[i]]]
    BY <2>1 DEF MadeOf
  <2> QED BY <2>2 DEF MadeOf
<1>5. view \in Seq(V) /\ Enumerates(view, h, S)
  BY <1>1, <1>4, RowsInOrder
<1> QED BY <1>3, <1>5
-------------------------------------------------------------------------------
(* What a query shows first, and how many of what it finds. *)

(* The item of the lowest rank is the first. *)
LEMMA LowestFirst ==
    ASSUME NEW S, IsFiniteSet(S), NEW rank, Maps(rank, S, Int), TellsApart(rank, S),
           NEW x \in S, \A y \in S : rank[x] <= rank[y], NEW s, s = InOrder(S, rank)
    PROVE  1 \in DOMAIN s /\ s[1] = x
<1>n. PICK n \in Nat : n = Cardinality(S)
  BY FS_CardinalityType
<1>1. /\ DOMAIN s = 1..n /\ s \in [1..n -> S]
      /\ \A y \in S : \E i \in 1..n : s[i] = y
      /\ \A i, j \in 1..n : i < j => rank[s[i]] < rank[s[j]]
  <2>1. (\A y \in S : rank[y] \in Int) /\ \A y, z \in S : rank[y] = rank[z] => y = z
    BY DEF Maps, TellsApart
  <2> QED BY <1>n, <2>1, InOrderFacts
<1>2. PICK i \in 1..n : s[i] = x
  BY <1>1
<1>3. i = 1
  <2>1. CASE 1 < i
    <3>1. s[1] \in S /\ rank[s[1]] < rank[x]
      BY <1>1, <1>2, <2>1
    <3>2. rank[x] <= rank[s[1]] /\ rank[x] \in Int /\ rank[s[1]] \in Int
      BY <3>1 DEF Maps
    <3> QED BY <3>1, <3>2
  <2> QED BY <1>2, <2>1
<1> QED BY <1>1, <1>2, <1>3

(* Items of a list that show the members of a set are as many as these. *)
LEMMA CountAlike ==
    ASSUME NEW S, IsFiniteSet(S), NEW f, TellsApart(f, S), NEW list, Enumerates(list, f, S),
           NEW A \in SUBSET S, NEW B \in SUBSET (1..Len(list)),
           \A i \in 1..Len(list), x \in S : list[i] = f[x] => (i \in B <=> x \in A)
    PROVE  Cardinality(B) = Cardinality(A)
<1>0. IsFiniteSet(A)
  BY FS_Subset
<1>at. PICK at : at = [x \in A |-> CHOOSE i \in 1..Len(list) : list[i] = f[x]]
  OBVIOUS
<1>e. /\ \A i, j \in 1..Len(list) : list[i] = list[j] => i = j
      /\ \A i \in 1..Len(list) : \E x \in S : list[i] = f[x]
      /\ \A x \in S : \E i \in 1..Len(list) : list[i] = f[x]
  BY DEF Enumerates
<1>1. \A x \in A : at[x] \in 1..Len(list) /\ list[at[x]] = f[x]
  BY <1>at, <1>e
<1>2. at \in [A -> B]
  <2>1. \A x \in A : at[x] \in B
    BY <1>1
  <2> QED BY <1>at, <2>1
<1>3. \A x, y \in A : at[x] = at[y] => x = y
  BY <1>1 DEF TellsApart
<1>4. \A i \in B : \E x \in A : at[x] = i
  <2> SUFFICES ASSUME NEW i \in B PROVE \E x \in A : at[x] = i
    OBVIOUS
  <2>1. PICK x \in S : list[i] = f[x]
    BY <1>e
  <2>2. x \in A
    BY <2>1
  <2> QED BY <1>1, <1>e, <2>1, <2>2
<1>5. at \in Bijection(A, B)
  <2>1. at \in Injection(A, B)
    BY <1>2, <1>3 DEF Injection, IsInjective
  <2>2. at \in Surjection(A, B)
    BY <1>2, <1>4 DEF Surjection
  <2> QED BY <2>1, <2>2 DEF Bijection
<1>6. ExistsBijection(A, B)
  BY <1>5 DEF ExistsBijection
<1> QED BY <1>0, <1>6, FS_Bijection
===============================================================================
