--------------------------- MODULE RateLimitProofs ---------------------------
(***************************************************************************)
(* Theorems about RateLimit and Pagination, for every rate, window, width  *)
(* of a parameter, page size and list: no window admits more than Rate     *)
(* requests, and a page holds the rows that have its number.               *)
(***************************************************************************)
EXTENDS RateLimit, Sums, SequenceTheorems

(* Division by a variable, for rows and for offsets.                       *)
LEMMA DivMod ==
  ASSUME NEW a \in Nat, NEW z \in Nat \ {0}
  PROVE  a \div z \in Nat /\ a % z \in 0..z-1 /\ a = z * (a \div z) + (a % z)
  OBVIOUS

LEMMA MulMono ==
  ASSUME NEW z \in Nat, NEW d \in Nat, NEW q \in Nat, d < q
  PROVE  z * d + z <= z * q
  <1>1. z * (d + 1) = z * d + z
    OBVIOUS
  <1>2. PICK k \in Nat : q = d + 1 + k
    <2>1. q - (d + 1) \in Nat /\ q = d + 1 + (q - (d + 1))
      OBVIOUS
    <2> QED
      BY <2>1
  <1>3. z * q = z * (d + 1) + z * k
    BY <1>2
  <1>4. z * k \in Nat
    BY <1>2
  <1> QED
    BY <1>1, <1>3, <1>4

LEMMA DivIs ==
  ASSUME NEW a \in Nat, NEW z \in Nat \ {0}, NEW q \in Nat
  PROVE  a \div z = q <=> z * q <= a /\ a < z * q + z
  <1> DEFINE d == a \div z
             r == a % z
  <1>1. d \in Nat /\ r \in 0..z-1 /\ a = z * d + r
    BY DivMod
  <1>2. z * d \in Nat /\ z * q \in Nat
    BY <1>1
  <1> HIDE DEF d, r
  <1>3. CASE d = q
    BY <1>1, <1>2, <1>3
  <1>4. CASE d < q
    BY <1>1, <1>2, <1>4, MulMono
  <1>5. CASE q < d
    BY <1>1, <1>2, <1>5, MulMono
  <1>6. d = q <=> z * q <= a /\ a < z * q + z
    BY <1>1, <1>3, <1>4, <1>5
  <1> QED
    BY <1>6 DEF d

LEMMA ModSmall ==
  ASSUME NEW a \in Nat, NEW z \in Nat, a < z
  PROVE  a % z = a
  <1>1. z * 0 = 0
    OBVIOUS
  <1>2. a \div z = 0
    BY <1>1, DivIs
  <1> QED
    BY <1>1, <1>2, DivMod
-----------------------------------------------------------------------------
(* Pages.                                                                  *)
Pages == [page: Nat \ {0}, size: 1..MaxSize]

(* Whatever the query says, the page exists and its size is bounded.       *)
LEMMA ValidPage ==
  ASSUME NEW page \in Numbers \cup {NoNumber}, NEW size \in Numbers \cup {NoNumber}
  PROVE  ParsePaginationFromQuery(page, size) \in Pages
  <1>1. Numbers \subseteq Int
    BY RateLimitAssumption
  <1>2. {DefaultSize, FallbackSize, MaxSize} \subseteq 1..MaxSize
    BY PaginationAssumption
  <1>3. ASSUME NEW n \in Int, NEW s \in Int PROVE Validate([page |-> n, size |-> s]) \in Pages
    <2>1. (IF n <= 0 THEN 1 ELSE n) \in Nat \ {0}
      OBVIOUS
    <2>2. (IF s <= 0 THEN DefaultSize ELSE IF s > MaxSize THEN FallbackSize ELSE s) \in 1..MaxSize
      BY <1>2, PaginationAssumption
    <2> QED
      BY <2>1, <2>2 DEF Validate, Pages
  <1>4. (IF page = NoNumber THEN NewPaginationRequest.page ELSE page) \in Int
    BY <1>1 DEF NewPaginationRequest
  <1>5. (IF size = NoNumber THEN NewPaginationRequest.size ELSE size) \in Int
    BY <1>1, PaginationAssumption DEF NewPaginationRequest
  <1> QED
    BY <1>3, <1>4, <1>5 DEF ParsePaginationFromQuery

(* The conversion, and the numbers it leaves alone.                        *)
LEMMA Int32Range ==
  ASSUME NEW n \in Int
  PROVE  Int32(n) \in Int
  BY PaginationAssumption DEF Int32

LEMMA Int32Exact ==
  ASSUME NEW n \in Nat, n < Half
  PROVE  Int32(n) = n
  <1>1. Half \in Nat \ {0}
    BY PaginationAssumption
  <1>2. n + Half \in Nat /\ 2 * Half \in Nat /\ n + Half < 2 * Half
    BY <1>1
  <1>3. (n + Half) % (2 * Half) = n + Half
    BY <1>2, ModSmall
  <1> QED
    BY <1>1, <1>3 DEF Int32

LEMMA Bounds ==
  ASSUME NEW p \in Pages
  PROVE  /\ p.page \in Nat \ {0} /\ p.size \in Nat \ {0} /\ p.size <= MaxSize
         /\ GetOffset(p) \in Nat
         /\ Int32(GetLimit(p)) = p.size
  <1>1. p.page \in Nat \ {0} /\ p.size \in 1..MaxSize /\ MaxSize \in Nat /\ MaxSize < Half /\ Half \in Nat
    BY PaginationAssumption DEF Pages
  <1>2. p.page - 1 \in Nat /\ p.size \in Nat \ {0}
    BY <1>1
  <1>3. GetOffset(p) \in Nat
    BY <1>2 DEF GetOffset
  <1>4. Int32(p.size) = p.size
    BY <1>1, <1>2, Int32Exact
  <1> QED
    BY <1>1, <1>2, <1>3, <1>4 DEF GetLimit

(* A page is a piece of the list, ...                                      *)
LEMMA SelectIs ==
  ASSUME NEW S, NEW s \in Seq(S), NEW l \in Nat, NEW o \in Nat
  PROVE  /\ Select(s, l, o) \in Seq(S)
         /\ Len(Select(s, l, o)) = IF Len(s) <= o THEN 0 ELSE IF o + l < Len(s) THEN l ELSE Len(s) - o
         /\ \A k \in 1..Len(Select(s, l, o)) : o + k \in 1..Len(s) /\ Select(s, l, o)[k] = s[o + k]
  <1> DEFINE e == IF o + l < Len(s) THEN o + l ELSE Len(s)
             t == SubSeq(s, o + 1, e)
  <1>1. Len(s) \in Nat /\ e \in Int /\ o + 1 \in Int /\ e <= Len(s)
    OBVIOUS
  <1>2. Select(s, l, o) = t
    BY DEF Select
  <1> HIDE DEF e
  <1>3. \A i \in (o + 1)..e : s[i] \in S
    BY <1>1
  <1>4. /\ t \in Seq(S)
        /\ Len(t) = IF o + 1 <= e THEN e - (o + 1) + 1 ELSE 0
        /\ \A i \in 1..e - (o + 1) + 1 : t[i] = s[(o + 1) + i - 1]
    BY <1>1, <1>3, SubSeqProperties
  <1> HIDE DEF t
  <1>5. \A k \in 1..Len(t) : o + k \in 1..Len(s) /\ t[k] = s[o + k]
    <2> SUFFICES ASSUME NEW k \in 1..Len(t) PROVE o + k \in 1..Len(s) /\ t[k] = s[o + k]
      OBVIOUS
    <2>1. o + 1 <= e /\ Len(t) = e - (o + 1) + 1
      BY <1>1, <1>4
    <2>2. k \in 1..e - (o + 1) + 1 /\ (o + 1) + k - 1 = o + k
      BY <2>1
    <2>3. t[k] = s[(o + 1) + k - 1]
      BY <1>4, <2>2
    <2> QED
      BY <1>1, <2>2, <2>3
  <1>6. Len(t) = IF Len(s) <= o THEN 0 ELSE IF o + l < Len(s) THEN l ELSE Len(s) - o
    BY <1>1, <1>4 DEF e
  <1> QED
    BY <1>2, <1>4, <1>5, <1>6

(* ... where the query asks for it, if the offset survives the conversion. *)
LEMMA PageIs ==
  ASSUME NEW s, NEW p \in Pages, GetOffset(p) < Half
  PROVE  PageOf(s, p) = Select(s, p.size, GetOffset(p))
  BY Bounds, Int32Exact DEF PageOf

LEMMA PageType ==
  ASSUME NEW S, NEW s \in Seq(S), NEW p \in Pages
  PROVE  PageOf(s, p) \in Seq(S) \cup {Error}
  <1> DEFINE o == Int32(GetOffset(p))
  <1>1. o \in Int /\ p.size \in Nat /\ PageOf(s, p) = Select(s, p.size, o)
    BY Bounds, Int32Range DEF PageOf
  <1> HIDE DEF o
  <1>2. CASE o < 0
    BY <1>1, <1>2 DEF Select
  <1>3. CASE o \in Nat
    BY <1>1, <1>3, SelectIs
  <1> QED
    BY <1>1, <1>2, <1>3

(* The rows of a page of a list that counts from 1.                        *)
LEMMA RowsOfPage ==
  ASSUME NEW s \in Seq(Int), \A i \in 1..Len(s) : s[i] = i, NEW p \in Pages, GetOffset(p) < Half
  PROVE  LET page == PageOf(s, p) IN
         /\ page # Error
         /\ {page[k] : k \in 1..Len(page)} = {i \in 1..Len(s) : (i - 1) \div p.size + 1 = p.page}
         /\ \A j, k \in 1..Len(page) : j < k => page[j] < page[k]
  <1> DEFINE page == PageOf(s, p)
             o == GetOffset(p)
             z == p.size
  <1>1. /\ z \in Nat \ {0} /\ o \in Nat /\ p.page \in Nat \ {0}
        /\ o = z * (p.page - 1)
    BY Bounds DEF GetOffset
  <1>2. page = Select(s, z, o)
    BY PageIs
  <1> HIDE DEF page, o, z
  <1>3. /\ page \in Seq(Int)
        /\ Len(page) = IF Len(s) <= o THEN 0 ELSE IF o + z < Len(s) THEN z ELSE Len(s) - o
        /\ \A k \in 1..Len(page) : o + k \in 1..Len(s) /\ page[k] = s[o + k]
    <2>1. z \in Nat /\ o \in Nat
      BY <1>1
    <2> QED
      BY <1>2, <2>1, SelectIs, ZenonT(60)
  <1>4. page # Error
    BY <1>3, PaginationAssumption
  <1>l. Len(s) \in Nat /\ Len(page) \in Nat /\ o \in Nat /\ z \in Nat \ {0} /\ p.page \in Nat \ {0}
    BY <1>1, <1>3
  <1>5. ASSUME NEW k \in 1..Len(page) PROVE page[k] = o + k
    <2>1. o + k \in 1..Len(s) /\ page[k] = s[o + k]
      BY <1>3
    <2> QED
      BY <2>1
  <1>6. ASSUME NEW i \in 1..Len(s)
        PROVE  (i - 1) \div z + 1 = p.page <=> o <= i - 1 /\ i - 1 < o + z
    <2> DEFINE a == i - 1
               q == p.page - 1
    <2>1. a \in Nat /\ q \in Nat /\ i - 1 = a /\ p.page = q + 1
      BY <1>l
    <2> HIDE DEF a, q
    <2>2. a \div z = q <=> z * q <= a /\ a < z * q + z
      BY <1>1, <2>1, DivIs
    <2>3. a \div z \in Nat
      BY <1>1, <2>1, DivMod
    <2>4. a \div z + 1 = p.page <=> a \div z = q
      BY <1>1, <2>1, <2>3
    <2>5. o = z * q
      BY <1>1 DEF q
    <2> QED
      BY <2>1, <2>2, <2>4, <2>5
  <1>7. ASSUME NEW i \in 1..Len(s)
        PROVE  (\E k \in 1..Len(page) : page[k] = i) <=> o <= i - 1 /\ i - 1 < o + z
    <2>1. ASSUME NEW k \in 1..Len(page), page[k] = i PROVE o <= i - 1 /\ i - 1 < o + z
      <3>1. i = o + k
        BY <1>5, <2>1
      <3>2. Len(page) <= z
        BY <1>l, <1>3
      <3> QED
        BY <1>l, <3>1, <3>2
    <2>2. ASSUME o <= i - 1, i - 1 < o + z PROVE \E k \in 1..Len(page) : page[k] = i
      <3>1. i - o \in 1..Len(page)
        BY <1>l, <1>3, <2>2
      <3>2. page[i - o] = i
        <4>1. page[i - o] = o + (i - o)
          BY <1>5, <3>1
        <4> QED
          BY <1>l, <4>1
      <3> QED
        BY <3>1, <3>2
    <2> QED
      BY <2>1, <2>2
  <1>8. \A k \in 1..Len(page) : page[k] \in 1..Len(s)
    BY <1>3, <1>5
  <1>9. {page[k] : k \in 1..Len(page)} = {i \in 1..Len(s) : (i - 1) \div z + 1 = p.page}
    <2>1. \A i \in 1..Len(s) : (\E k \in 1..Len(page) : page[k] = i) <=> (i - 1) \div z + 1 = p.page
      BY <1>6, <1>7
    <2> QED
      BY <1>8, <2>1
  <1>10. \A j, k \in 1..Len(page) : j < k => page[j] < page[k]
    BY <1>1, <1>3, <1>5
  <1> QED
    BY <1>4, <1>9, <1>10 DEF page, o, z
-----------------------------------------------------------------------------
(* All pages, one after the other.                                         *)

(* What is joined piece by piece, from what every prefix amounts to.       *)
LEMMA FlattenIs ==
  ASSUME NEW q, NEW n \in Nat \ {0}, Len(q) = n,
         NEW g, \A i \in 1..n : g[i] = IF i = 1 THEN q[i] ELSE g[i - 1] \o q[i]
  PROVE  FlattenSeq(q) = g[n]
  <1> DEFINE Joins(f) == f = [i \in 1..n |-> IF i = 1 THEN q[i] ELSE f[i - 1] \o q[i]]
             h == CHOOSE f : Joins(f)
             e == [i \in 1..n |-> g[i]]
  <1>1. Joins(e)
    <2>1. \A i \in 1..n : i = 1 \/ i - 1 \in 1..n
      OBVIOUS
    <2>2. \A i \in 1..n : e[i] = g[i]
      OBVIOUS
    <2>3. \A i \in 1..n : g[i] = IF i = 1 THEN q[i] ELSE e[i - 1] \o q[i]
      BY <2>1, <2>2
    <2> QED
      BY <2>3
  <1>2. Joins(h)
    BY <1>1
  <1>3. FlattenSeq(q) = h[n]
    <2>1. n # 0
      OBVIOUS
    <2> QED
      BY <2>1 DEF FlattenSeq
  <1> HIDE DEF h, e
  <1>4. \A i \in 1..n : h[i] = IF i = 1 THEN q[i] ELSE h[i - 1] \o q[i]
    BY <1>2
  <1> HIDE DEF Joins
  <1> DEFINE N == {m \in Nat : m + 1 \in 1..n => h[m + 1] = g[m + 1]}
  <1>5. 0 \in N
    <2>1. 0 + 1 \in 1..n /\ 0 + 1 = 1
      OBVIOUS
    <2>2. h[1] = q[1] /\ g[1] = q[1]
      BY <1>4, <2>1
    <2> QED
      BY <2>1, <2>2
  <1>6. ASSUME NEW m \in N PROVE m + 1 \in N
    <2>1. ASSUME (m + 1) + 1 \in 1..n PROVE h[(m + 1) + 1] = g[(m + 1) + 1]
      <3> DEFINE i == (m + 1) + 1
      <3>1. i \in 1..n /\ i # 1 /\ i - 1 = m + 1 /\ m + 1 \in 1..n
        BY <2>1
      <3>2. h[m + 1] = g[m + 1]
        BY <3>1
      <3> HIDE DEF i
      <3>3. h[i] = h[i - 1] \o q[i] /\ g[i] = g[i - 1] \o q[i]
        BY <1>4, <3>1
      <3>4. h[i] = g[i]
        BY <3>1, <3>2, <3>3
      <3> QED
        BY <3>4 DEF i
    <2> QED
      BY <2>1
  <1> HIDE DEF N
  <1>7. N = Nat
    BY <1>5, <1>6, Induct DEF N
  <1>8. n - 1 \in N /\ (n - 1) + 1 = n /\ n \in 1..n
    BY <1>7
  <1>9. h[n] = g[n]
    BY <1>8 DEF N
  <1> QED
    BY <1>3, <1>9

(* The last page is the one the last row is on.                            *)
LEMMA LastPage ==
  ASSUME NEW l \in Nat, NEW z \in Nat \ {0}
  PROVE  LET last == TotalPages(l, z) IN
         /\ last \in Nat
         /\ last = 0 <=> l = 0
         /\ l <= z * last
         /\ \A n \in 1..last : z * (n - 1) < l /\ (n < last => z * (n - 1) + z < l)
  <1> DEFINE d == l \div z
             r == l % z
             last == IF r > 0 THEN d + 1 ELSE d
  <1>1. d \in Nat /\ r \in 0..z - 1 /\ l = z * d + r
    BY DivMod
  <1>2. TotalPages(l, z) = last
    BY DEF TotalPages
  <1> HIDE DEF d, r
  <1>3. z * d \in Nat /\ z * (d + 1) = z * d + z /\ z * 0 = 0 /\ r \in Nat
    BY <1>1
  <1>4. last \in Nat
    BY <1>1
  <1>5. l <= z * last
    <2>1. CASE r > 0
      BY <1>1, <1>3, <2>1
    <2>2. CASE ~(r > 0)
      BY <1>1, <1>3, <2>2
    <2> QED
      BY <2>1, <2>2
  <1>6. d # 0 => z * d >= z
    BY <1>1
  <1>7. last = 0 <=> l = 0
    <2>1. CASE d = 0
      BY <1>1, <1>3, <2>1
    <2>2. CASE d # 0
      BY <1>1, <1>3, <1>6, <2>2
    <2> QED
      BY <2>1, <2>2
  <1>8. ASSUME NEW n \in 1..last
        PROVE  z * (n - 1) < l /\ (n < last => z * (n - 1) + z < l)
    <2> DEFINE m == n - 1
    <2>1. m \in Nat /\ z * m \in Nat /\ n = m + 1
      BY <1>4
    <2> HIDE DEF m
    <2>2. CASE m < d
      <3>1. z * m + z <= z * d
        BY <1>1, <2>1, <2>2, MulMono
      <3>2. z * m < l
        BY <1>1, <1>3, <2>1, <3>1
      <3>3. ASSUME n < last PROVE z * m + z < l
        <4>1. CASE r > 0
          BY <1>1, <1>3, <2>1, <3>1, <4>1
        <4>2. CASE ~(r > 0)
          <5>1. m + 1 < d
            BY <1>1, <1>4, <2>1, <3>3, <4>2
          <5>2. z * (m + 1) + z <= z * d /\ z * (m + 1) = z * m + z
            BY <1>1, <2>1, <5>1, MulMono
          <5> QED
            BY <1>1, <1>3, <2>1, <5>2
        <4> QED
          BY <4>1, <4>2
      <3> QED
        BY <3>2, <3>3 DEF m
    <2>3. CASE m >= d
      <3>1. m = d /\ r > 0 /\ n = last
        BY <1>1, <1>4, <2>1, <2>3
      <3>2. z * m < l
        BY <1>1, <1>3, <3>1
      <3> QED
        BY <3>1, <3>2 DEF m
    <2> QED
      BY <1>1, <2>1, <2>2, <2>3
  <1> HIDE DEF last
  <1> QED
    BY <1>2, <1>4, <1>5, <1>7, <1>8

(* An offset may lose its high bits, but it never grows.                   *)
LEMMA Int32Less ==
  ASSUME NEW n \in Nat
  PROVE  Int32(n) <= n
  <1>1. Half \in Nat \ {0} /\ n + Half \in Nat /\ 2 * Half \in Nat \ {0}
    BY PaginationAssumption
  <1> DEFINE a == n + Half
             z == 2 * Half
             d == a \div z
             r == a % z
  <1>2. d \in Nat /\ r \in 0..z - 1 /\ a = z * d + r
    BY <1>1, DivMod
  <1>3. a \in Nat /\ z \in Nat /\ Half \in Nat /\ Int32(n) = r - Half
    BY <1>1 DEF Int32
  <1>4. n = a - Half
    BY <1>1
  <1> HIDE DEF a, z, d, r
  <1>5. z * d \in Nat
    BY <1>2, <1>3
  <1>6. r <= a
    BY <1>2, <1>3, <1>5
  <1> QED
    BY <1>2, <1>3, <1>4, <1>6

(* Every page that is counted has a row, also one whose offset does not    *)
(* survive the conversion: it shows rows that are not its own, or an error.*)
LEMMA PageHasRows ==
  ASSUME NEW s \in Seq(Int), NEW p \in Pages, GetOffset(p) < Len(s)
  PROVE  PageOf(s, p) # <<>>
  <1> DEFINE o == Int32(GetOffset(p))
             z == p.size
  <1>1. /\ o \in Int /\ z \in Nat \ {0} /\ PageOf(s, p) = Select(s, z, o)
        /\ GetOffset(p) \in Nat /\ o <= GetOffset(p)
    <2>1. GetOffset(p) \in Nat /\ p.size \in Nat \ {0} /\ Int32(GetLimit(p)) = p.size
      BY Bounds
    <2>2. Int32(GetOffset(p)) \in Int /\ Int32(GetOffset(p)) <= GetOffset(p)
      BY <2>1, Int32Range, Int32Less
    <2> QED
      BY <2>1, <2>2 DEF PageOf
  <1> HIDE DEF o, z
  <1>2. CASE o < 0
    <2>1. Select(s, z, o) = Error
      BY <1>2 DEF Select
    <2>2. Error # <<>>
      <3>1. <<>> \in Seq(Int)
        OBVIOUS
      <3> QED
        BY <3>1, PaginationAssumption
    <2> QED
      BY <1>1, <2>1, <2>2
  <1>3. CASE o \in Nat
    <2>1. Len(Select(s, z, o)) = IF o + z < Len(s) THEN z ELSE Len(s) - o
      <3>1. ~(Len(s) <= o) /\ z \in Nat
        BY <1>1, <1>3
      <3> QED
        BY <1>3, <3>1, SelectIs
    <2>2. Len(Select(s, z, o)) > 0
      BY <1>1, <1>3, <2>1
    <2> QED
      BY <1>1, <2>2
  <1> QED
    BY <1>1, <1>2, <1>3

(* A piece of the list, and the next one.                                  *)
LEMMA NextPiece ==
  ASSUME NEW s \in Seq(Int), NEW z \in Nat \ {0}, NEW o \in Nat, o < Len(s)
  PROVE  SubSeq(s, 1, o) \o Select(s, z, o) = SubSeq(s, 1, IF o + z < Len(s) THEN o + z ELSE Len(s))
  <1> DEFINE e == IF o + z < Len(s) THEN o + z ELSE Len(s)
             t == Select(s, z, o)
             a == SubSeq(s, 1, o)
             b == SubSeq(s, 1, e)
  <1>1. Len(s) \in Nat /\ e \in Nat /\ o < e /\ e <= Len(s)
    OBVIOUS
  <1>2. /\ t \in Seq(Int) /\ Len(t) = e - o
        /\ \A k \in 1..Len(t) : t[k] = s[o + k]
    <2>1. ~(Len(s) <= o) /\ z \in Nat
      OBVIOUS
    <2>2. t \in Seq(Int) /\ Len(t) = IF o + z < Len(s) THEN z ELSE Len(s) - o
      BY <2>1, SelectIs
    <2>3. \A k \in 1..Len(t) : t[k] = s[o + k]
      BY <2>1, SelectIs
    <2>4. Len(t) = e - o
      <3>1. CASE o + z < Len(s)
        <4>1. e = o + z /\ Len(t) = z
          BY <2>2, <3>1
        <4> HIDE DEF e, t
        <4> QED
          BY <4>1
      <3>2. CASE ~(o + z < Len(s))
        <4>1. e = Len(s) /\ Len(t) = Len(s) - o
          BY <2>2, <3>2
        <4> HIDE DEF e, t
        <4> QED
          BY <4>1
      <3> QED
        BY <3>1, <3>2
    <2> HIDE DEF e, t
    <2> QED
      BY <2>2, <2>3, <2>4
  <1> HIDE DEF e, t
  <1>3. (\A i \in 1..o : s[i] \in Int) /\ (\A i \in 1..e : s[i] \in Int)
    BY <1>1
  <1>4. a \in Seq(Int) /\ Len(a) = o /\ \A i \in 1..o : a[i] = s[i]
    <2>1. /\ a \in Seq(Int) /\ Len(a) = IF 1 <= o THEN o - 1 + 1 ELSE 0
          /\ \A i \in 1..o - 1 + 1 : a[i] = s[1 + i - 1]
      BY <1>1, <1>3, SubSeqProperties
    <2> HIDE DEF a
    <2>2. o - 1 + 1 = o /\ \A i \in 1..o : 1 + i - 1 = i
      OBVIOUS
    <2> QED
      BY <2>1, <2>2
  <1>5. b \in Seq(Int) /\ Len(b) = e /\ \A i \in 1..e : b[i] = s[i]
    <2>1. /\ b \in Seq(Int) /\ Len(b) = IF 1 <= e THEN e - 1 + 1 ELSE 0
          /\ \A i \in 1..e - 1 + 1 : b[i] = s[1 + i - 1]
      BY <1>1, <1>3, SubSeqProperties
    <2> HIDE DEF b
    <2>2. e - 1 + 1 = e /\ \A i \in 1..e : 1 + i - 1 = i
      BY <1>1
    <2> QED
      BY <1>1, <2>1, <2>2
  <1> HIDE DEF a, b
  <1>6. /\ a \o t \in Seq(Int) /\ Len(a \o t) = o + (e - o)
        /\ \A i \in 1..o + (e - o) : (a \o t)[i] = IF i <= o THEN a[i] ELSE t[i - o]
    <2>1. Len(a) = o /\ Len(t) = e - o /\ a \in Seq(Int) /\ t \in Seq(Int)
      BY <1>2, <1>4
    <2>2. /\ a \o t \in Seq(Int)
          /\ Len(a \o t) = Len(a) + Len(t)
          /\ \A i \in 1..Len(a) + Len(t) : (a \o t)[i] = IF i <= Len(a) THEN a[i] ELSE t[i - Len(a)]
      BY <2>1, ConcatProperties
    <2> QED
      BY <2>1, <2>2
  <1>7. ASSUME NEW i \in 1..e PROVE (a \o t)[i] = b[i]
    <2>1. CASE i <= o
      <3>1. i \in 1..o /\ i \in 1..o + (e - o)
        BY <1>1, <2>1
      <3>2. (a \o t)[i] = a[i]
        BY <1>6, <2>1, <3>1
      <3> QED
        BY <1>4, <1>5, <3>1, <3>2
    <2>2. CASE i > o
      <3>1. i - o \in 1..Len(t) /\ o + (i - o) = i /\ i \in 1..o + (e - o)
        BY <1>1, <1>2, <2>2
      <3>2. (a \o t)[i] = t[i - o]
        BY <1>6, <2>2, <3>1
      <3>3. t[i - o] = s[o + (i - o)]
        BY <1>2, <3>1
      <3> QED
        BY <1>5, <3>1, <3>2, <3>3
    <2>3. i <= o \/ i > o
      BY <1>1
    <2> QED
      BY <2>1, <2>2, <2>3, Zenon
  <1>8. Len(a \o t) = Len(b) /\ \A i \in 1..Len(b) : (a \o t)[i] = b[i]
    <2>1. Len(a \o t) = e /\ Len(b) = e
      BY <1>1, <1>5, <1>6
    <2> QED
      BY <1>7, <2>1
  <1>9. a \o t = b
    BY <1>5, <1>6, <1>8, SeqEqual
  <1> QED
    BY <1>9 DEF a, b, e, t

(* The list whose pages are put together.                                  *)
LEMMA PagesJoined ==
  ASSUME NEW s \in Seq(Int), NEW z \in 1..MaxSize
  PROVE  LET last == TotalPages(Len(s), z)
             page == [n \in 1..last |-> PageOf(s, [page |-> n, size |-> z])]
         IN  /\ \A n \in 1..last : page[n] # <<>>
             /\ GetOffset([page |-> last, size |-> z]) < Half => FlattenSeq(page) = s
  <1> DEFINE l == Len(s)
             last == TotalPages(l, z)
             at(n) == [page |-> n, size |-> z]
             page == [n \in 1..last |-> PageOf(s, at(n))]
             piece(n) == SubSeq(s, 1, IF z * (n - 1) + z < l THEN z * (n - 1) + z ELSE l)
  <1>1. l \in Nat /\ z \in Nat \ {0}
    BY PaginationAssumption
  <1>2. /\ last \in Nat
        /\ last = 0 <=> l = 0
        /\ l <= z * last
        /\ \A n \in 1..last : z * (n - 1) < l /\ (n < last => z * (n - 1) + z < l)
    BY <1>1, LastPage
  <1> HIDE DEF last
  <1>3. \A n \in 1..last : at(n) \in Pages /\ GetOffset(at(n)) = z * (n - 1) /\ at(n).size = z
    <2> SUFFICES ASSUME NEW n \in 1..last
                 PROVE  at(n) \in Pages /\ GetOffset(at(n)) = z * (n - 1) /\ at(n).size = z
      OBVIOUS
    <2>1. n \in Nat \ {0} /\ n - 1 \in Int
      BY <1>2
    <2>2. (n - 1) * z = z * (n - 1)
      BY <1>1, <2>1
    <2> QED
      BY <2>1, <2>2 DEF Pages, GetOffset
  <1> HIDE DEF at
  <1>4. \A n \in 1..last : page[n] = PageOf(s, at(n))
    OBVIOUS
  <1>5. ASSUME NEW n \in 1..last PROVE page[n] # <<>>
    <2>1. GetOffset(at(n)) < Len(s)
      BY <1>2, <1>3
    <2>2. at(n) \in Pages
      BY <1>3
    <2> QED
      BY <1>4, <2>1, <2>2, PageHasRows
  <1>6. ASSUME GetOffset(at(last)) < Half PROVE FlattenSeq(page) = s
    <2>1. CASE last = 0
      <3>1. page = <<>> /\ Len(page) = 0
        BY <2>1
      <3>2. s = <<>>
        BY <1>2, <2>1, EmptySeq
      <3> QED
        BY <3>1, <3>2 DEF FlattenSeq
    <2>2. CASE last # 0
      <3>1. last \in Nat \ {0} /\ last \in 1..last
        BY <1>2, <2>2
      <3>2. Half \in Nat /\ z * (last - 1) < Half
        BY <1>3, <1>6, <3>1, PaginationAssumption
      <3>3. ASSUME NEW n \in 1..last PROVE page[n] = Select(s, z, z * (n - 1))
        <4>1. z * (n - 1) <= z * (last - 1)
          <5> DEFINE d == n - 1
                     q == last - 1
          <5>1. d \in Nat /\ q \in Nat /\ (d = q \/ d < q)
            BY <3>1
          <5> HIDE DEF d, q
          <5>2. z * d \in Nat /\ z * q \in Nat
            BY <1>1, <5>1
          <5>3. z * d <= z * q
            BY <1>1, <5>1, <5>2, MulMono
          <5> QED
            BY <5>3 DEF d, q
        <4>2. z * (n - 1) \in Nat /\ z * (last - 1) \in Nat
          BY <1>1, <3>1
        <4>3. z * (n - 1) < Half
          BY <3>2, <4>1, <4>2
        <4>4. GetOffset(at(n)) < Half /\ at(n) \in Pages
          BY <1>3, <4>3
        <4>5. PageOf(s, at(n)) = Select(s, at(n).size, GetOffset(at(n)))
          BY <4>4, PageIs
        <4> QED
          BY <1>3, <1>4, <4>5
      <3> DEFINE g == [n \in 1..last |-> piece(n)]
      <3>4. ASSUME NEW n \in 1..last PROVE g[n] = IF n = 1 THEN page[n] ELSE g[n - 1] \o page[n]
        <4> DEFINE o == z * (n - 1)
        <4>1. o \in Nat /\ o < Len(s)
          <5>1. n - 1 \in Nat
            BY <3>1
          <5>2. o < Len(s)
            BY <1>2
          <5> QED
            BY <1>1, <5>1, <5>2
        <4>2. g[n] = SubSeq(s, 1, o) \o page[n]
          <5>1. g[n] = SubSeq(s, 1, IF o + z < Len(s) THEN o + z ELSE Len(s))
            OBVIOUS
          <5>2. page[n] = Select(s, z, o)
            BY <3>3
          <5> HIDE DEF g, page, o
          <5> QED
            BY <1>1, <4>1, <5>1, <5>2, NextPiece
        <4>3. CASE n = 1
          <5>1. o = 0
            BY <1>1, <4>3
          <5>2. SubSeq(s, 1, 0) = <<>>
            OBVIOUS
          <5>3. page[n] \in Seq(Int)
            <6>1. page[n] = Select(s, z, o) /\ z \in Nat
              BY <1>1, <3>3
            <6> HIDE DEF page, o
            <6> QED
              BY <4>1, <6>1, SelectIs
          <5> HIDE DEF g, page, o
          <5>4. <<>> \o page[n] = page[n]
            BY <5>3, ConcatEmptySeq
          <5> QED
            BY <4>2, <4>3, <5>1, <5>2, <5>4
        <4>4. CASE n # 1
          <5>1. n - 1 \in 1..last /\ n - 1 < last /\ (n - 1) - 1 \in Nat
            BY <3>1, <4>4
          <5>2. z * ((n - 1) - 1) + z = o
            BY <1>1, <5>1
          <5>3. z * ((n - 1) - 1) + z < l
            BY <1>2, <5>1
          <5>4. piece(n - 1) = SubSeq(s, 1, o)
            BY <5>2, <5>3
          <5>5. g[n - 1] = piece(n - 1)
            BY <5>1
          <5> HIDE DEF g, page, o, piece
          <5> QED
            BY <4>2, <4>4, <5>4, <5>5
        <4> HIDE DEF g, page
        <4> QED
          BY <4>3, <4>4
      <3>5. Len(page) = last
        BY <1>2
      <3>6. g[last] = s
        <4>1. z * (last - 1) + z = z * last
          BY <1>1, <3>1
        <4>2. g[last] = SubSeq(s, 1, l)
          BY <1>1, <1>2, <3>1, <4>1
        <4>3. SubSeq(s, 1, Len(s)) = s
          OBVIOUS
        <4> QED
          BY <4>2, <4>3
      <3> HIDE DEF g, page
      <3>7. FlattenSeq(page) = g[last]
        BY <3>1, <3>4, <3>5, FlattenIs
      <3> QED
        BY <3>6, <3>7
    <2> QED
      BY <2>1, <2>2
  <1> QED
    BY <1>5, <1>6 DEF last, at
-----------------------------------------------------------------------------
(* The limiter.                                                            *)

(* A visitor's count covers all that was admitted since the address was    *)
(* last unknown, and nothing was admitted after it was last seen.          *)
CountsSound ==
    \A ip \in Addresses :
        /\ \A t \in 0..Window : visitors[ip] = None \/ t < visitors[ip].ago => recent[ip][t] = 0
        /\ visitors[ip] # None => SumFunction(recent[ip]) <= visitors[ip].count

(* Rows are told by their places.                                          *)
ListSound == \A i \in 1..Len(rows) : rows[i] = i

(* An answer holds its page of the list that was read, and counts it, or   *)
(* will count it now that it has n rows, unless it has changed.            *)
PageRight(a) ==
    GetOffset(a.page) < Half =>
        /\ a.rows # Error
        /\ {a.rows[k] : k \in 1..Len(a.rows)} = {i \in 1..a.seen : (i - 1) \div a.page.size + 1 = a.page.page}
        /\ \A j, k \in 1..Len(a.rows) : j < k => a.rows[j] < a.rows[k]

AnswerSound(a, n) ==
    /\ PageRight(a)
    /\ a.rows # Error /\ ~a.changed => a.seen = IF a.total = None THEN n ELSE a.total

AnswersSound == \A g \in Requests : AnswerSound(answer[g], Len(rows))

Inv ==
    /\ TypeOK
    /\ CountsSound
    /\ ListSound
    /\ WindowBounded
    /\ AnswersSound

LEMMA VisitorFacts ==
  ASSUME NEW v \in Visitor
  PROVE  v # None /\ v.count \in 1..Rate + 1 /\ v.ago \in 0..Long /\ v.count \in Int /\ v.ago \in Int
  <1>1. Rate \in Nat /\ Long \in Nat
    BY RateLimitAssumption DEF Long
  <1>2. v \in [count: Nat, ago: Nat]
    BY <1>1 DEF Visitor
  <1>3. v # None
    BY <1>2, RateLimitAssumption
  <1>4. v.count \in 1..Rate + 1 /\ v.ago \in 0..Long
    BY DEF Visitor
  <1> QED
    BY <1>1, <1>3, <1>4

(* Sums over the window.                                                   *)
LEMMA WindowSum ==
  ASSUME NEW f \in [0..Window -> Nat]
  PROVE  /\ SumFunction(f) \in Int
         /\ SumFunction(f) = SumFunctionOnSet(f, 0..Window)
         /\ (\A t \in 0..Window : f[t] = 0) => SumFunction(f) = 0
  <1>1. IsFiniteSet(0..Window)
    BY RateLimitAssumption, FS_Interval
  <1>2. SumFunction(f) = SumFunctionOnSet(f, 0..Window)
    BY DEF SumFunction
  <1>3. \A t \in 0..Window : f[t] \in Int
    OBVIOUS
  <1>4. SumFunctionOnSet(f, 0..Window) \in Int
    BY <1>1, <1>3, SumType
  <1>5. ASSUME \A t \in 0..Window : f[t] = 0 PROVE SumFunctionOnSet(f, 0..Window) = 0
    BY <1>1, <1>5, SumZero
  <1> QED
    BY <1>2, <1>4, <1>5

(* One request more, of now.                                               *)
LEMMA OneMore ==
  ASSUME NEW f \in [0..Window -> Nat]
  PROVE  LET g == [f EXCEPT ![0] = @ + 1] IN
         g \in [0..Window -> Nat] /\ SumFunction(g) = SumFunction(f) + 1
  <1> DEFINE g == [f EXCEPT ![0] = @ + 1]
  <1>1. 0 \in 0..Window /\ IsFiniteSet(0..Window)
    BY RateLimitAssumption, FS_Interval
  <1>2. g \in [0..Window -> Nat] /\ g[0] = f[0] + 1 /\ \A t \in 0..Window : t # 0 => g[t] = f[t]
    BY <1>1
  <1> HIDE DEF g
  <1>3. \A t \in 0..Window : f[t] \in Int /\ g[t] \in Int
    BY <1>2
  <1>4. SumFunctionOnSet(g, 0..Window) = SumFunctionOnSet(f, 0..Window) + (g[0] - f[0])
    BY <1>1, <1>2, <1>3, SumChange
  <1>5. /\ SumFunction(f) \in Int
        /\ SumFunction(f) = SumFunctionOnSet(f, 0..Window)
        /\ SumFunction(g) = SumFunctionOnSet(g, 0..Window)
    BY <1>2, WindowSum
  <1>6. g[0] - f[0] = 1
    BY <1>1, <1>2
  <1> QED
    BY <1>2, <1>4, <1>5, <1>6 DEF g

(* A tick later the window holds no more than before.                      *)
LEMMA TickSum ==
  ASSUME NEW f \in [0..Window -> Nat],
         NEW g, g = [t \in 0..Window |-> IF t = 0 THEN 0 ELSE f[t - 1]]
  PROVE  g \in [0..Window -> Nat] /\ SumFunction(g) <= SumFunction(f)
  <1>1. Window \in Nat /\ Window \in 0..Window
    BY RateLimitAssumption
  <1>2. \A t \in 0..Window : t = 0 \/ t - 1 \in 0..Window
    BY <1>1
  <1>3. g \in [0..Window -> Nat]
    BY <1>2
  <1>4. \A t \in 0..Window : f[t] \in Int /\ g[t] = IF t = 0 THEN 0 ELSE f[t - 1]
    OBVIOUS
  <1>5. SumFunctionOnSet(g, 0..Window) + f[Window] = SumFunctionOnSet(f, 0..Window)
    BY <1>1, <1>4, SumShift
  <1>6. /\ SumFunction(f) \in Int /\ SumFunction(f) = SumFunctionOnSet(f, 0..Window)
        /\ SumFunction(g) \in Int /\ SumFunction(g) = SumFunctionOnSet(g, 0..Window)
    BY <1>3, WindowSum
  <1>7. f[Window] \in Nat
    BY <1>1
  <1> QED
    BY <1>3, <1>5, <1>6, <1>7
-----------------------------------------------------------------------------
LEMMA TypeFacts ==
  ASSUME TypeOK
  PROVE  /\ Rate \in Nat \ {0} /\ Window \in Nat /\ Long = 2 * Window + 1
         /\ rows \in Seq(1..MaxRows) /\ rows \in Seq(Int) /\ Len(rows) \in 0..MaxRows
         /\ \A ip \in Addresses :
               /\ recent[ip] \in [0..Window -> Nat] /\ SumFunction(recent[ip]) \in Int
               /\ visitors[ip] = None \/ visitors[ip] \in Visitor
  <1>1. rows \in Seq(1..MaxRows) /\ Len(rows) <= MaxRows /\ Len(rows) \in Nat /\ MaxRows \in Nat
    BY RateLimitAssumption DEF TypeOK
  <1>2. rows \in Seq(Int)
    <2>1. 1..MaxRows \subseteq Int
      OBVIOUS
    <2> QED
      BY <1>1, <2>1, SeqMonotonic
  <1>3. \A ip \in Addresses : recent[ip] \in [0..Window -> Nat] /\ (visitors[ip] = None \/ visitors[ip] \in Visitor)
    BY DEF TypeOK
  <1>4. \A ip \in Addresses : SumFunction(recent[ip]) \in Int
    BY <1>3, WindowSum
  <1> QED
    BY <1>1, <1>2, <1>3, <1>4, RateLimitAssumption DEF Long

LEMMA NoAnswerSound == NoAnswer \in Answer /\ \A n : AnswerSound(NoAnswer, n)
  <1>1. /\ NewPaginationRequest \in [page: Nat \ {0}, size: 1..MaxSize]
        /\ NewPaginationRequest.page = 1 /\ NewPaginationRequest.size \in Nat \ {0}
    BY PaginationAssumption DEF NewPaginationRequest
  <1>2. <<>> \in Seq(1..MaxRows) /\ <<>> \in Seq(Int) /\ Len(<<>>) = 0 /\ 0 \in 0..MaxRows
    BY RateLimitAssumption
  <1>3. NoAnswer \in Answer
    BY <1>1, <1>2 DEF NoAnswer, Answer
  <1>4. /\ NoAnswer.page = NewPaginationRequest /\ NoAnswer.rows = <<>> /\ NoAnswer.seen = 0
        /\ NoAnswer.total = 0
    BY DEF NoAnswer
  <1>5. 0 # None /\ <<>> # Error
    <2>1. 0 # None
      BY RateLimitAssumption
    <2>2. <<>> # Error
      BY <1>2, PaginationAssumption
    <2> QED
      BY <2>1, <2>2
  <1>6. PageRight(NoAnswer)
    BY <1>1, <1>2, <1>4, <1>5 DEF PageRight
  <1> QED
    BY <1>3, <1>4, <1>5, <1>6 DEF AnswerSound

LEMMA InitInv == Init => Inv
  <1> SUFFICES ASSUME Init PROVE Inv
    OBVIOUS
  <1> DEFINE zero == [t \in 0..Window |-> 0]
  <1>1. zero \in [0..Window -> Nat] /\ \A t \in 0..Window : zero[t] = 0
    OBVIOUS
  <1>2. \A ip \in Addresses : recent[ip] = zero /\ visitors[ip] = None
    BY DEF Init
  <1> HIDE DEF zero
  <1>3. SumFunction(zero) = 0
    BY <1>1, WindowSum
  <1>5. rows = <<>> /\ answer = [g \in Requests |-> NoAnswer]
    BY DEF Init
  <1>6. TypeOK
    <2>1. visitors \in [Addresses -> Visitor \cup {None}] /\ recent \in [Addresses -> [0..Window -> Nat]]
      BY <1>1 DEF Init, zero
    <2>2. <<>> \in Seq(1..MaxRows) /\ Len(<<>>) = 0 /\ MaxRows \in Nat
      BY RateLimitAssumption
    <2>3. answer \in [Requests -> Answer]
      BY <1>5, NoAnswerSound
    <2> QED
      BY <1>5, <2>1, <2>2, <2>3 DEF TypeOK
  <1>7. CountsSound
    BY <1>1, <1>2 DEF CountsSound
  <1>8. WindowBounded
    BY <1>2, <1>3, RateLimitAssumption DEF WindowBounded
  <1>9. AnswersSound
    BY <1>5, NoAnswerSound DEF AnswersSound
  <1>10. ListSound
    BY <1>5 DEF ListSound
  <1> QED
    BY <1>6, <1>7, <1>8, <1>9, <1>10 DEF Inv

(* One answer is another.                                                  *)
LEMMA AnswerChanges ==
  ASSUME TypeOK, AnswersSound, rows' = rows, NEW g \in Requests, NEW a \in Answer, AnswerSound(a, Len(rows)),
         answer' = [answer EXCEPT ![g] = a]
  PROVE  answer' \in [Requests -> Answer] /\ AnswersSound'
  <1>1. answer' \in [Requests -> Answer] /\ \A h \in Requests : answer'[h] = IF h = g THEN a ELSE answer[h]
    BY DEF TypeOK
  <1>2. \A h \in Requests : AnswerSound(answer'[h], Len(rows))
    BY <1>1 DEF AnswersSound
  <1> QED
    BY <1>1, <1>2 DEF AnswersSound, AnswerSound, PageRight

(* The rows of a request that is admitted.                                 *)
LEMMA ReadSound ==
  ASSUME Inv, NEW g \in Requests, NEW page \in Numbers \cup {NoNumber}, NEW size \in Numbers \cup {NoNumber},
         ListActiveAuctions(g, page, size), rows' = rows
  PROVE  answer' \in [Requests -> Answer] /\ AnswersSound'
  <1> DEFINE p == ParsePaginationFromQuery(page, size)
             found == PageOf(rows, p)
             a == [page |-> p, rows |-> found, total |-> IF found = Error THEN 0 ELSE None,
                   seen |-> Len(rows), changed |-> FALSE]
  <1>1. p \in Pages
    BY ValidPage
  <1>2. answer' = [answer EXCEPT ![g] = a]
    BY DEF ListActiveAuctions
  <1> HIDE DEF p
  <1>3. /\ rows \in Seq(1..MaxRows) /\ rows \in Seq(Int) /\ Len(rows) \in 0..MaxRows
        /\ \A i \in 1..Len(rows) : rows[i] = i
    BY TypeFacts DEF Inv, ListSound
  <1>4. found \in Seq(1..MaxRows) \cup {Error}
    BY <1>1, <1>3, PageType
  <1>5. GetOffset(p) < Half =>
          /\ found # Error
          /\ {found[k] : k \in 1..Len(found)} = {i \in 1..Len(rows) : (i - 1) \div p.size + 1 = p.page}
          /\ \A j, k \in 1..Len(found) : j < k => found[j] < found[k]
    BY <1>1, <1>3, RowsOfPage
  <1> HIDE DEF found
  <1>6. a \in Answer
    <2>1. (IF found = Error THEN 0 ELSE None) \in 0..MaxRows \cup {None}
      BY RateLimitAssumption
    <2> QED
      BY <1>1, <1>3, <1>4, <2>1 DEF Answer, Pages
  <1>7. /\ a.page = p /\ a.rows = found /\ a.seen = Len(rows)
        /\ a.rows # Error => a.total = None
    OBVIOUS
  <1> HIDE DEF a
  <1>8. PageRight(a)
    BY <1>5, <1>7 DEF PageRight
  <1>9. AnswerSound(a, Len(rows))
    BY <1>7, <1>8 DEF AnswerSound
  <1> QED
    BY <1>2, <1>6, <1>9, AnswerChanges DEF Inv

(* The count of a request.                                                 *)
LEMMA VisitSound ==
  ASSUME Inv, NEW ip \in Addresses, Visit(ip)
  PROVE  /\ visitors' \in [Addresses -> Visitor \cup {None}]
         /\ \A other \in Addresses : other # ip => visitors'[other] = visitors[other]
         /\ visitors'[ip] \in Visitor /\ visitors'[ip].ago = 0
         /\ SumFunction(recent[ip]) <= visitors'[ip].count
         /\ Admitted(ip) => SumFunction(recent[ip]) + 1 <= visitors'[ip].count
  <1> DEFINE first == [count |-> 1, ago |-> 0]
             next == IF Starts(ip) THEN first ELSE Count(ip)
             sum == SumFunction(recent[ip])
  <1>1. /\ Rate \in Nat \ {0} /\ Window \in Nat /\ Long = 2 * Window + 1
        /\ recent[ip] \in [0..Window -> Nat] /\ sum \in Int
        /\ visitors[ip] = None \/ visitors[ip] \in Visitor
        /\ sum <= Rate
    BY TypeFacts DEF Inv, WindowBounded
  <1>2. /\ visitors \in [Addresses -> Visitor \cup {None}]
        /\ visitors' = [visitors EXCEPT ![ip] = next]
    BY DEF Inv, TypeOK, Visit
  <1>3. /\ \A t \in 0..Window : visitors[ip] = None \/ t < visitors[ip].ago => recent[ip][t] = 0
        /\ visitors[ip] # None => sum <= visitors[ip].count
    BY DEF Inv, CountsSound
  <1>4. CASE Starts(ip)
    <2>1. first \in Visitor /\ first.ago = 0 /\ first.count = 1 /\ next = first
      BY <1>1, <1>4 DEF Visitor
    <2>2. ASSUME NEW t \in 0..Window PROVE recent[ip][t] = 0
      <3>1. CASE visitors[ip] = None
        BY <1>3, <3>1
      <3>2. CASE visitors[ip] \in Visitor /\ visitors[ip].ago > Window
        <4>1. visitors[ip].ago \in Int /\ t < visitors[ip].ago
          BY <1>1, <3>2, VisitorFacts
        <4> QED
          BY <1>3, <4>1
      <3> QED
        BY <1>1, <1>4, <3>1, <3>2 DEF Starts
    <2>3. sum = 0
      BY <1>1, <2>2, WindowSum
    <2> HIDE DEF first, next, sum
    <2>4. visitors'[ip] = first
      BY <1>2, <2>1
    <2> QED
      BY <1>1, <1>2, <2>1, <2>3, <2>4 DEF sum
  <1>5. CASE ~Starts(ip)
    <2> DEFINE v == visitors[ip]
               c == IF v.count > Rate THEN Rate + 1 ELSE v.count + 1
    <2>1. v \in Visitor /\ v.count \in 1..Rate + 1 /\ sum <= v.count
      BY <1>1, <1>3, <1>5, VisitorFacts DEF Starts
    <2>2. next = [count |-> c, ago |-> 0]
      BY <1>5 DEF Count
    <2>3. c \in 1..Rate + 1 /\ 0 \in 0..Long /\ sum <= c /\ (c <= Rate => sum + 1 <= c)
      BY <1>1, <2>1
    <2> HIDE DEF c, v, sum, next
    <2>4. next \in Visitor /\ next.count = c /\ next.ago = 0
      BY <2>2, <2>3 DEF Visitor
    <2>5. visitors'[ip] = next
      BY <1>2
    <2> QED
      BY <1>2, <2>3, <2>4, <2>5 DEF Admitted, sum
  <1> QED
    BY <1>4, <1>5

LEMMA RequestInv ==
  ASSUME Inv, NEW g \in Requests, NEW ip \in Addresses,
         NEW page \in Numbers \cup {NoNumber}, NEW size \in Numbers \cup {NoNumber}, Request(g, ip, page, size)
  PROVE  Inv'
  <1>1. /\ visitors' \in [Addresses -> Visitor \cup {None}]
        /\ \A other \in Addresses : other # ip => visitors'[other] = visitors[other]
        /\ visitors'[ip] \in Visitor /\ visitors'[ip].ago = 0
        /\ SumFunction(recent[ip]) <= visitors'[ip].count
        /\ Admitted(ip) => SumFunction(recent[ip]) + 1 <= visitors'[ip].count
    BY VisitSound DEF Request
  <1>2. visitors'[ip].count \in Int /\ visitors'[ip] # None
    BY <1>1, VisitorFacts
  <1>3. rows' = rows
    BY DEF Request
  <1>4. ListSound'
    BY <1>3 DEF Inv, ListSound
  <1>5. /\ recent \in [Addresses -> [0..Window -> Nat]]
        /\ \A other \in Addresses : recent[other] \in [0..Window -> Nat] /\ SumFunction(recent[other]) \in Int
    BY TypeFacts DEF Inv, TypeOK
  <1>6. CASE Admitted(ip)
    <2> DEFINE old == recent[ip]
               new == [old EXCEPT ![0] = @ + 1]
    <2>1. recent' = [recent EXCEPT ![ip] = new] /\ ListActiveAuctions(g, page, size)
      BY <1>6 DEF Request
    <2>2. new \in [0..Window -> Nat] /\ SumFunction(new) = SumFunction(old) + 1
      BY <1>5, OneMore
    <2> HIDE DEF new
    <2>3. /\ recent' \in [Addresses -> [0..Window -> Nat]]
          /\ recent'[ip] = new
          /\ \A other \in Addresses : other # ip => recent'[other] = recent[other]
      BY <1>5, <2>1, <2>2
    <2>4. TypeOK'
      BY <1>1, <1>3, <2>1, <2>3, ReadSound DEF Inv, TypeOK
    <2>5. SumFunction(new) <= visitors'[ip].count
      BY <1>1, <1>6, <2>2
    <2>6. CountsSound'
      <3>1. ASSUME NEW t \in 0..Window, visitors'[ip] = None \/ t < visitors'[ip].ago PROVE recent'[ip][t] = 0
        BY <1>1, <1>2, <3>1
      <3>2. SumFunction(recent'[ip]) <= visitors'[ip].count
        BY <2>3, <2>5
      <3>3. ASSUME NEW other \in Addresses, other # ip
            PROVE  visitors'[other] = visitors[other] /\ recent'[other] = recent[other]
        BY <1>1, <2>3, <3>3
      <3> QED
        BY <3>1, <3>2, <3>3 DEF Inv, CountsSound
    <2>7. WindowBounded'
      <3>1. SumFunction(recent'[ip]) <= Rate
        BY <1>2, <1>5, <1>6, <2>2, <2>3, <2>5, RateLimitAssumption DEF Admitted
      <3>2. \A other \in Addresses : other # ip => SumFunction(recent'[other]) <= Rate
        BY <2>3 DEF Inv, WindowBounded
      <3> QED
        BY <3>1, <3>2 DEF WindowBounded
    <2> QED
      BY <1>3, <1>4, <2>1, <2>4, <2>6, <2>7, ReadSound DEF Inv
  <1>7. CASE ~Admitted(ip)
    <2>1. UNCHANGED <<answer, recent>>
      BY <1>7 DEF Request
    <2>2. TypeOK'
      BY <1>1, <1>3, <2>1 DEF Inv, TypeOK
    <2>3. CountsSound'
      <3>1. ASSUME NEW t \in 0..Window, visitors'[ip] = None \/ t < visitors'[ip].ago PROVE recent'[ip][t] = 0
        BY <1>1, <1>2, <3>1
      <3>2. SumFunction(recent'[ip]) <= visitors'[ip].count
        BY <1>1, <2>1
      <3>3. ASSUME NEW other \in Addresses, other # ip
            PROVE  visitors'[other] = visitors[other] /\ recent'[other] = recent[other]
        BY <1>1, <2>1, <3>3
      <3> QED
        BY <3>1, <3>2, <3>3 DEF Inv, CountsSound
    <2>4. WindowBounded' /\ AnswersSound'
      BY <1>3, <2>1 DEF Inv, WindowBounded, AnswersSound, AnswerSound, PageRight
    <2> QED
      BY <1>4, <2>2, <2>3, <2>4 DEF Inv
  <1> QED
    BY <1>6, <1>7

(* What is forgotten has admitted nothing in this window.                  *)
LEMMA CleanupInv ==
  ASSUME Inv, Cleanup
  PROVE  Inv'
  <1>1. /\ visitors' = [ip \in Addresses |->
               IF visitors[ip] # None /\ visitors[ip].ago > 2 * Window THEN None ELSE visitors[ip]]
        /\ UNCHANGED <<rows, answer, recent>>
    BY DEF Cleanup
  <1>2. TypeOK'
    <2>1. visitors' \in [Addresses -> Visitor \cup {None}]
      BY <1>1 DEF Inv, TypeOK
    <2> QED
      BY <1>1, <2>1 DEF Inv, TypeOK
  <1>3. ASSUME NEW ip \in Addresses
        PROVE  /\ \A t \in 0..Window : visitors'[ip] = None \/ t < visitors'[ip].ago => recent'[ip][t] = 0
               /\ visitors'[ip] # None => SumFunction(recent'[ip]) <= visitors'[ip].count
    <2>1. /\ recent'[ip] = recent[ip]
          /\ visitors[ip] = None \/ visitors[ip] \in Visitor
          /\ Window \in Nat
      BY <1>1, TypeFacts DEF Inv
    <2>2. /\ \A t \in 0..Window : visitors[ip] = None \/ t < visitors[ip].ago => recent[ip][t] = 0
          /\ visitors[ip] # None => SumFunction(recent[ip]) <= visitors[ip].count
      BY DEF Inv, CountsSound
    <2>3. CASE visitors'[ip] = visitors[ip]
      BY <2>1, <2>2, <2>3
    <2>4. CASE visitors[ip] \in Visitor /\ visitors[ip].ago > 2 * Window /\ visitors'[ip] = None
      <3>1. visitors[ip].ago \in Int
        BY <2>4, VisitorFacts
      <3>2. \A t \in 0..Window : t < visitors[ip].ago
        BY <2>1, <2>4, <3>1
      <3> QED
        BY <2>1, <2>2, <2>4, <3>2
    <2> QED
      BY <1>1, <2>1, <2>3, <2>4
  <1>4. CountsSound'
    BY <1>3 DEF CountsSound
  <1>5. ListSound' /\ WindowBounded' /\ AnswersSound'
    BY <1>1 DEF Inv, ListSound, WindowBounded, AnswersSound, AnswerSound, PageRight
  <1> QED
    BY <1>2, <1>4, <1>5 DEF Inv

LEMMA TickInv ==
  ASSUME Inv, Tick
  PROVE  Inv'
  <1>1. /\ visitors' = [ip \in Addresses |->
               IF visitors[ip] = None \/ visitors[ip].ago = Long THEN visitors[ip]
               ELSE [visitors[ip] EXCEPT !.ago = @ + 1]]
        /\ recent' = [ip \in Addresses |-> [t \in 0..Window |-> IF t = 0 THEN 0 ELSE recent[ip][t - 1]]]
        /\ UNCHANGED <<rows, answer>>
    BY DEF Tick
  <1>2. ASSUME NEW ip \in Addresses
        PROVE  /\ recent'[ip] \in [0..Window -> Nat]
               /\ recent'[ip] = [t \in 0..Window |-> IF t = 0 THEN 0 ELSE recent[ip][t - 1]]
               /\ SumFunction(recent'[ip]) <= SumFunction(recent[ip])
    <2>1. recent[ip] \in [0..Window -> Nat]
      BY TypeFacts DEF Inv
    <2>2. recent'[ip] = [t \in 0..Window |-> IF t = 0 THEN 0 ELSE recent[ip][t - 1]]
      BY <1>1
    <2> QED
      BY <2>1, <2>2, TickSum
  <1>3. ASSUME NEW ip \in Addresses
        PROVE  \/ visitors[ip] = None /\ visitors'[ip] = None
               \/ /\ visitors[ip] \in Visitor /\ visitors'[ip] \in Visitor
                  /\ visitors'[ip].count = visitors[ip].count
                  /\ \/ visitors'[ip].ago = visitors[ip].ago + 1
                     \/ visitors'[ip].ago = Long /\ visitors[ip].ago = Long
    <2>1. visitors[ip] = None \/ visitors[ip] \in Visitor
      BY TypeFacts DEF Inv
    <2>2. CASE visitors[ip] = None
      BY <1>1, <2>2
    <2>3. CASE visitors[ip] \in Visitor /\ visitors[ip].ago = Long
      BY <1>1, <2>3
    <2>4. CASE visitors[ip] \in Visitor /\ visitors[ip].ago # Long
      <3> DEFINE v == visitors[ip]
                 u == [v EXCEPT !.ago = @ + 1]
      <3>1. v # None /\ v.ago \in 0..Long /\ Long \in Nat
        BY <2>4, VisitorFacts, RateLimitAssumption DEF Long
      <3>2. visitors'[ip] = u
        BY <1>1, <2>4, <3>1
      <3>3. u.count = v.count /\ u.ago = v.ago + 1 /\ v.ago + 1 \in 0..Long /\ u \in Visitor
        BY <2>4, <3>1 DEF Visitor
      <3> QED
        BY <2>4, <3>2, <3>3
    <2> QED
      BY <2>1, <2>2, <2>3, <2>4
  <1>4. TypeOK'
    <2>1. visitors' \in [Addresses -> Visitor \cup {None}]
      <3>1. \A ip \in Addresses : visitors'[ip] \in Visitor \cup {None}
        BY <1>3
      <3>2. visitors' = [ip \in Addresses |-> visitors'[ip]]
        BY <1>1
      <3> QED
        BY <3>1, <3>2
    <2>2. recent' \in [Addresses -> [0..Window -> Nat]]
      <3>1. recent' = [ip \in Addresses |-> recent'[ip]]
        BY <1>1
      <3> QED
        BY <1>2, <3>1
    <2> QED
      BY <1>1, <2>1, <2>2 DEF Inv, TypeOK
  <1>5. ASSUME NEW ip \in Addresses
        PROVE  /\ \A t \in 0..Window : visitors'[ip] = None \/ t < visitors'[ip].ago => recent'[ip][t] = 0
               /\ visitors'[ip] # None => SumFunction(recent'[ip]) <= visitors'[ip].count
    <2>1. /\ \A t \in 0..Window : visitors[ip] = None \/ t < visitors[ip].ago => recent[ip][t] = 0
          /\ visitors[ip] # None => SumFunction(recent[ip]) <= visitors[ip].count
      BY DEF Inv, CountsSound
    <2>2. /\ Window \in Nat /\ Long = 2 * Window + 1
          /\ SumFunction(recent[ip]) \in Int /\ SumFunction(recent'[ip]) \in Int
      BY <1>2, TypeFacts, WindowSum DEF Inv
    <2>3. ASSUME NEW t \in 0..Window, visitors'[ip] = None \/ t < visitors'[ip].ago
          PROVE  recent'[ip][t] = 0
      <3>1. CASE t = 0
        BY <1>2, <3>1
      <3>2. CASE t # 0
        <4>1. t - 1 \in 0..Window /\ recent'[ip][t] = recent[ip][t - 1]
          <5>1. t - 1 \in 0..Window
            BY <2>2, <3>2
          <5>2. recent'[ip] = [i \in 0..Window |-> IF i = 0 THEN 0 ELSE recent[ip][i - 1]]
            BY <1>2
          <5> QED
            BY <3>2, <5>1, <5>2
        <4>2. CASE visitors[ip] = None
          BY <2>1, <4>1, <4>2
        <4>3. CASE visitors[ip] \in Visitor /\ visitors'[ip] \in Visitor
          <5>1. visitors[ip].ago \in Int /\ visitors'[ip].ago \in Int /\ visitors'[ip] # None
            BY <4>3, VisitorFacts
          <5>2. CASE visitors'[ip].ago = visitors[ip].ago + 1
            BY <2>1, <2>3, <4>1, <5>1, <5>2
          <5>3. CASE visitors[ip].ago = Long
            BY <2>1, <2>2, <4>1, <5>1, <5>3
          <5> QED
            BY <1>3, <4>3, <5>1, <5>2, <5>3, VisitorFacts
        <4> QED
          BY <1>3, <4>2, <4>3
      <3> QED
        BY <3>1, <3>2
    <2>4. ASSUME visitors'[ip] # None PROVE SumFunction(recent'[ip]) <= visitors'[ip].count
      <3>1. visitors[ip] # None /\ visitors'[ip].count = visitors[ip].count /\ visitors[ip].count \in Int
        BY <1>3, <2>4, VisitorFacts
      <3>2. SumFunction(recent'[ip]) <= SumFunction(recent[ip])
        BY <1>2
      <3>3. SumFunction(recent[ip]) <= visitors[ip].count
        BY <2>1, <3>1
      <3> QED
        BY <2>2, <3>1, <3>2, <3>3
    <2> QED
      BY <2>3, <2>4
  <1>6. CountsSound'
    BY <1>5 DEF CountsSound
  <1>7. WindowBounded'
    <2>1. ASSUME NEW ip \in Addresses PROVE SumFunction(recent'[ip]) <= Rate
      <3>1. SumFunction(recent[ip]) <= Rate /\ SumFunction(recent[ip]) \in Int
            /\ SumFunction(recent'[ip]) \in Int /\ Rate \in Nat
        BY <1>2, TypeFacts, WindowSum DEF Inv, WindowBounded
      <3>2. SumFunction(recent'[ip]) <= SumFunction(recent[ip])
        BY <1>2
      <3> QED
        BY <3>1, <3>2
    <2> QED
      BY <2>1 DEF WindowBounded
  <1>8. ListSound' /\ AnswersSound'
    BY <1>1 DEF Inv, ListSound, AnswersSound, AnswerSound, PageRight
  <1> QED
    BY <1>4, <1>6, <1>7, <1>8 DEF Inv

(* The total, or none.                                                     *)
LEMMA CountInv ==
  ASSUME Inv, NEW g \in Requests, CountActiveAuctions(g)
  PROVE  Inv'
  <1> DEFINE counted == [answer[g] EXCEPT !.total = Len(rows)]
  <1>1. /\ answer[g].total = None /\ UNCHANGED <<visitors, rows, recent>>
        /\ \E next \in {counted, NoAnswer} : answer' = [answer EXCEPT ![g] = next]
    BY DEF CountActiveAuctions, Counting
  <1>2. answer[g] \in Answer /\ Len(rows) \in 0..MaxRows /\ Len(rows) # None /\ AnswerSound(answer[g], Len(rows))
    BY TypeFacts, RateLimitAssumption DEF Inv, TypeOK, AnswersSound
  <1>3. /\ counted \in Answer /\ counted.total = Len(rows)
        /\ counted.page = answer[g].page /\ counted.rows = answer[g].rows
        /\ counted.seen = answer[g].seen /\ counted.changed = answer[g].changed
    BY <1>2 DEF Answer
  <1> HIDE DEF counted
  <1>4. AnswerSound(counted, Len(rows))
    BY <1>1, <1>2, <1>3 DEF AnswerSound, PageRight
  <1>5. answer' \in [Requests -> Answer] /\ AnswersSound'
    BY <1>1, <1>3, <1>4, NoAnswerSound, AnswerChanges DEF Inv
  <1>6. TypeOK'
    BY <1>1, <1>5 DEF Inv, TypeOK
  <1>7. CountsSound' /\ ListSound' /\ WindowBounded'
    BY <1>1 DEF Inv, CountsSound, ListSound, WindowBounded
  <1> QED
    BY <1>5, <1>6, <1>7 DEF Inv

(* The list changes under those who have read it.                          *)
LEMMA ChangedInv ==
  ASSUME Inv, NEW list \in Seq(1..MaxRows), Len(list) <= MaxRows, \A i \in 1..Len(list) : list[i] = i, Changed(list)
  PROVE  Inv'
  <1>1. /\ rows' = list /\ UNCHANGED <<visitors, recent>>
        /\ answer' = [g \in Requests |->
              IF answer[g].total = None THEN [answer[g] EXCEPT !.changed = TRUE] ELSE answer[g]]
    BY DEF Changed, Counting
  <1>2. ASSUME NEW g \in Requests
        PROVE  answer'[g] \in Answer /\ AnswerSound(answer'[g], Len(list))
    <2> DEFINE a == answer[g]
               b == [a EXCEPT !.changed = TRUE]
    <2>1. a \in Answer /\ AnswerSound(a, Len(rows))
      BY DEF Inv, TypeOK, AnswersSound
    <2>2. /\ b \in Answer /\ b.changed = TRUE
          /\ b.page = a.page /\ b.rows = a.rows /\ b.seen = a.seen
      BY <2>1 DEF Answer
    <2>3. answer'[g] = IF a.total = None THEN b ELSE a
      BY <1>1
    <2> HIDE DEF a, b
    <2>4. AnswerSound(b, Len(list))
      BY <2>1, <2>2 DEF AnswerSound, PageRight
    <2>5. a.total # None => AnswerSound(a, Len(list))
      BY <2>1 DEF AnswerSound
    <2> QED
      BY <2>1, <2>2, <2>3, <2>4, <2>5
  <1>3. answer' \in [Requests -> Answer]
    <2>1. answer' = [g \in Requests |-> answer'[g]]
      BY <1>1
    <2> QED
      BY <1>2, <2>1
  <1>4. TypeOK'
    BY <1>1, <1>3 DEF Inv, TypeOK
  <1>5. ListSound'
    BY <1>1 DEF ListSound
  <1>6. AnswersSound'
    <2>1. ASSUME NEW g \in Requests PROVE AnswerSound(answer[g], Len(rows))'
      <3>1. AnswerSound(answer'[g], Len(rows'))
        BY <1>1, <1>2
      <3> QED
        BY <3>1 DEF AnswerSound, PageRight
    <2> QED
      BY <2>1 DEF AnswersSound
  <1>7. CountsSound' /\ WindowBounded'
    BY <1>1 DEF Inv, CountsSound, WindowBounded
  <1> QED
    BY <1>4, <1>5, <1>6, <1>7 DEF Inv

LEMMA InsertInv ==
  ASSUME Inv, Insert
  PROVE  Inv'
  <1> DEFINE list == Append(rows, Len(rows) + 1)
  <1>1. Len(rows) < MaxRows /\ Changed(list)
    BY DEF Insert
  <1>2. rows \in Seq(1..MaxRows) /\ Len(rows) \in Nat /\ MaxRows \in Nat
    BY TypeFacts, RateLimitAssumption DEF Inv
  <1>3. Len(rows) + 1 \in 1..MaxRows
    BY <1>1, <1>2
  <1>4. /\ list \in Seq(1..MaxRows) /\ Len(list) = Len(rows) + 1
        /\ \A i \in 1..Len(rows) + 1 : list[i] = IF i <= Len(rows) THEN rows[i] ELSE Len(rows) + 1
    BY <1>2, <1>3
  <1> HIDE DEF list
  <1>5. ASSUME NEW i \in 1..Len(list) PROVE list[i] = i
    <2>1. CASE i <= Len(rows)
      BY <1>2, <1>4, <2>1, SMTT(30) DEF Inv, ListSound
    <2>2. CASE ~(i <= Len(rows))
      BY <1>2, <1>4, <2>2
    <2> QED
      BY <2>1, <2>2
  <1>6. Len(list) <= MaxRows
    BY <1>2, <1>3, <1>4
  <1> QED
    BY <1>1, <1>4, <1>5, <1>6, ChangedInv

LEMMA EndInv ==
  ASSUME Inv, End
  PROVE  Inv'
  <1> DEFINE list == Front(rows)
  <1>1. rows # <<>> /\ Changed(list)
    BY DEF End
  <1>2. rows \in Seq(1..MaxRows) /\ Len(rows) \in Nat /\ Len(rows) <= MaxRows /\ MaxRows \in Nat
    BY TypeFacts, RateLimitAssumption DEF Inv, TypeOK
  <1>3. Len(rows) \in Nat \ {0}
    BY <1>1, <1>2, EmptySeq
  <1>4. /\ list \in Seq(1..MaxRows) /\ Len(list) = Len(rows) - 1
        /\ \A i \in 1..Len(rows) - 1 : list[i] = rows[i]
    <2> DEFINE n == Len(rows) - 1
    <2>1. n \in Nat /\ 1 \in Int /\ n \in Int /\ \A i \in 1..n : rows[i] \in 1..MaxRows
      BY <1>2, <1>3
    <2>2. list = SubSeq(rows, 1, n)
      BY DEF Front
    <2> HIDE DEF list, n
    <2>3. /\ list \in Seq(1..MaxRows) /\ Len(list) = IF 1 <= n THEN n - 1 + 1 ELSE 0
          /\ \A i \in 1..n - 1 + 1 : list[i] = rows[1 + i - 1]
      BY <2>1, <2>2, SubSeqProperties
    <2>4. Len(list) = n /\ \A i \in 1..n : list[i] = rows[i]
      BY <2>1, <2>3
    <2> QED
      BY <2>3, <2>4 DEF n
  <1> HIDE DEF list
  <1>5. \A i \in 1..Len(list) : list[i] = i
    BY <1>3, <1>4 DEF Inv, ListSound
  <1>6. Len(list) <= MaxRows
    BY <1>2, <1>4
  <1> QED
    BY <1>1, <1>4, <1>5, <1>6, ChangedInv

LEMMA NextInv == Inv /\ [Next]_vars => Inv'
  <1> SUFFICES ASSUME Inv, [Next]_vars PROVE Inv'
    OBVIOUS
  <1>1. CASE UNCHANGED vars
    BY <1>1 DEF vars, Inv, TypeOK, CountsSound, ListSound, WindowBounded, AnswersSound, AnswerSound, PageRight
  <1> QED
    BY <1>1, RequestInv, CountInv, CleanupInv, TickInv, InsertInv, EndInv DEF Next

(* The inductive invariant holds in every behaviour.                       *)
THEOREM Invariance == Spec => []Inv
  <1> QED
    BY InitInv, NextInv, PTL DEF Spec

(* Counts and times stay in their ranges, every page that is handled is    *)
(* valid, and every answer is a page of rows or the error of MySQL.        *)
THEOREM TypeCorrect == Spec => []TypeOK
  <1>1. Inv => TypeOK
    BY DEF Inv
  <1> QED
    BY <1>1, Invariance, PTL

(* No address gets more than Rate requests into any window of time: what   *)
(* an idle period or the cleanup forgets is over.                          *)
THEOREM WindowAlwaysBounded == Spec => []WindowBounded
  <1>1. Inv => WindowBounded
    BY DEF Inv
  <1> QED
    BY <1>1, Invariance, PTL

(* Whatever page and size a query asks for, and whatever is created or     *)
(* ends while it is answered, the answer holds the rows that belong to that*)
(* page of the list that was read, unless its offset exceeds the width of  *)
(* a parameter, and counts that list, unless it changed before the count.  *)
THEOREM PagesAlwaysExact == Spec => []PageExact
  <1>1. Inv => PageExact
    <2> SUFFICES ASSUME Inv, NEW g \in Requests
                 PROVE  /\ PageRight(answer[g])
                        /\ answer[g].rows # Error /\ answer[g].total # None /\ ~answer[g].changed =>
                              answer[g].total = answer[g].seen
      BY DEF PageExact, PageRight, Counting
    <2>1. AnswerSound(answer[g], Len(rows))
      BY DEF Inv, AnswersSound
    <2> QED
      BY <2>1 DEF AnswerSound
  <1> QED
    BY <1>1, Invariance, PTL

(* For every page size the pages counted in an answer are the whole list,  *)
(* in order and without an empty one.                                      *)
THEOREM PagesAlwaysComplete == Spec => []PagesComplete
  <1>1. Inv => PagesComplete
    <2> SUFFICES ASSUME Inv PROVE PagesComplete
      OBVIOUS
    <2>1. rows \in Seq(Int)
      BY TypeFacts DEF Inv
    <2> QED
      BY <2>1, PagesJoined DEF PagesComplete
  <1> QED
    BY <1>1, Invariance, PTL
=============================================================================
