----------------------------- MODULE QfsProofs ------------------------------
(***************************************************************************)
(* The flash file system and its log implement a store of named files, for *)
(* every size of the chip and every set of names that leaves an inode      *)
(* free.  The inductive invariant, QfsInv, says that the directory and the *)
(* buffers fit the chip (QfsGood), that the files that are safe are on the *)
(* chip as they are read (QfsSafely), and that the open log and the upload *)
(* in progress still point at their inode and its end.                     *)
(***************************************************************************)
EXTENDS Qfs, FiniteSetTheorems, SequenceTheorems, WellFoundedInduction, TLAPS

(* Division. *)
LEMMA QfsMonotone ==
  ASSUME NEW d \in Nat, NEW a \in Int, NEW b \in Int, a + 1 <= b
  PROVE  d * a + d <= d * b
  BY SMT

(* What % and \div leave, which the provers take only one step at a time. *)
LEMMA QfsDivision ==
  ASSUME NEW d \in Nat \ {0}, NEW n \in Nat
  PROVE  n \div d \in Nat /\ n = d * (n \div d) + (n % d) /\ n % d \in 0 .. d - 1
  BY SMT

(* Quotient and rest are unique. *)
LEMMA QfsDivisionUnique ==
  ASSUME NEW d \in Nat \ {0}, NEW q \in Nat, NEW o \in 0 .. d - 1,
         NEW r \in Nat, NEW p \in 0 .. d - 1, d * q + o = d * r + p
  PROVE  q = r /\ o = p
<1>1. ~(q + 1 <= r)
  BY QfsMonotone, SMT
<1>2. ~(r + 1 <= q)
  BY QfsMonotone, SMT
<1> QED BY <1>1, <1>2, SMT

(* And so they can be read off a sum. *)
LEMMA QfsQuotient ==
  ASSUME NEW d \in Nat \ {0}, NEW q \in Nat, NEW o \in 0 .. d - 1, NEW n \in Nat, n = d * q + o
  PROVE  n \div d = q /\ n % d = o
  BY QfsDivision, QfsDivisionUnique

(* The blocks of a file: offsets below all P blocks of length d. *)
LEMMA QfsBlockOf ==
  ASSUME NEW d \in Nat \ {0}, NEW P \in Nat, NEW n \in Nat, n < P * d
  PROVE  n \div d \in 0 .. P - 1
<1> DEFINE q == n \div d
           r == n % d
<1>1. q \in Nat /\ n = d * q + r /\ r \in 0 .. d - 1
  BY QfsDivision
<1> HIDE DEF q, r
<1>2. ~(P <= q)
  <2> SUFFICES ASSUME P <= q PROVE FALSE
    OBVIOUS
  <2>1. (P - 1) + 1 <= q /\ P - 1 \in Int /\ q \in Int
    BY <1>1
  <2> DEFINE l == P - 1
             a == d * l
             b == d * q
  <2>2. a + d <= b
    <3> HIDE DEF l
    <3>1. l + 1 <= q /\ l \in Int /\ q \in Int
      BY <2>1 DEF l
    <3> QED BY <3>1, QfsMonotone
  <2>3. a + d = P * d
    BY SMT
  <2>4. a \in Int /\ b \in Int
    BY <1>1, SMT
  <2>5. n = b + r
    BY <1>1
  <2> HIDE DEF l, a, b
  <2> QED BY <1>1, <2>2, <2>3, <2>4, <2>5
<1> QED BY <1>1, <1>2 DEF q

(* What is written next in a block, and where the block ends. *)
LEMMA QfsNextInBlock ==
  ASSUME NEW d \in Nat \ {0}, NEW n \in Nat, NEW t \in Nat
  PROVE  /\ (n % d) + t < d => (n + t) \div d = n \div d /\ (n + t) % d = (n % d) + t
         /\ (n % d) + t >= d /\ (n % d) + t < d + d =>
              (n + t) \div d = n \div d + 1 /\ (n + t) % d = ((n % d) + t) - d
<1> DEFINE q == n \div d
           r == n % d
<1>1. q \in Nat /\ n = d * q + r /\ r \in 0 .. d - 1
  BY QfsDivision
<1> HIDE DEF q, r
<1>2. ASSUME r + t < d PROVE (n + t) \div d = q /\ (n + t) % d = r + t
  <2> DEFINE m == n + t
             o == r + t
  <2>1. m \in Nat /\ o \in 0 .. d - 1 /\ m = d * q + o
    <3> DEFINE a == d * q
    <3>1. a \in Nat /\ n = a + r
      BY <1>1, SMT
    <3> HIDE DEF a
    <3>2. m \in Nat /\ o \in 0 .. d - 1 /\ m = a + o
      BY <1>1, <1>2, <3>1
    <3> QED BY <3>2 DEF a
  <2> HIDE DEF m, o
  <2>2. m \div d = q /\ m % d = o
    BY <1>1, <2>1, QfsQuotient
  <2> QED BY <2>2 DEF m, o
<1>3. ASSUME r + t >= d, r + t < d + d
      PROVE  (n + t) \div d = q + 1 /\ (n + t) % d = (r + t) - d
  <2> DEFINE m == n + t
             o == (r + t) - d
             e == q + 1
  <2>1. m \in Nat /\ e \in Nat /\ o \in 0 .. d - 1 /\ m = d * e + o
    <3> DEFINE a == d * q
    <3>1. a \in Nat /\ n = a + r /\ d * e = a + d
      BY <1>1, SMT
    <3> HIDE DEF a
    <3>2. m \in Nat /\ o \in 0 .. d - 1 /\ m = (a + d) + o
      BY <1>1, <1>3, <3>1
    <3> HIDE DEF e, o, m
    <3>3. e \in Nat
      BY <1>1 DEF e
    <3> QED BY <3>1, <3>2, <3>3
  <2> HIDE DEF m, o, e
  <2>2. m \div d = e /\ m % d = o
    BY <2>1, QfsQuotient
  <2> QED BY <2>2 DEF m, o, e
<1> QED BY <1>2, <1>3 DEF q, r

(* An offset before another one is in an earlier block, or in the same     *)
(* block and before it there.                                              *)
LEMMA QfsEarlier ==
  ASSUME NEW d \in Nat \ {0}, NEW n \in Nat, NEW m \in Nat, m < n
  PROVE  \/ m \div d = n \div d /\ m % d < n % d
         \/ m \div d < n \div d
<1> DEFINE q == n \div d
           r == n % d
           e == m \div d
           s == m % d
<1>1. q \in Nat /\ n = d * q + r /\ r \in 0 .. d - 1
  BY QfsDivision
<1>2. e \in Nat /\ m = d * e + s /\ s \in 0 .. d - 1
  BY QfsDivision
<1> HIDE DEF q, r, e, s
<1>3. ~(q + 1 <= e)
  <2> SUFFICES ASSUME q + 1 <= e PROVE FALSE
    OBVIOUS
  <2> DEFINE a == d * q
             b == d * e
  <2>1. a + d <= b /\ a \in Nat /\ b \in Nat
    BY <1>1, <1>2, QfsMonotone, SMT
  <2>2. n = a + r /\ m = b + s
    BY <1>1, <1>2
  <2> HIDE DEF a, b
  <2> QED BY <1>1, <1>2, <2>1, <2>2
<1>4. CASE e = q
  <2> DEFINE a == d * q
  <2>1. a \in Nat /\ n = a + r /\ m = a + s
    BY <1>1, <1>2, <1>4, SMT
  <2> HIDE DEF a
  <2>2. s < r
    BY <1>1, <1>2, <2>1
  <2> QED BY <1>4, <2>2 DEF q, r, e, s
<1>5. CASE e # q
  <2>1. e < q
    BY <1>1, <1>2, <1>3, <1>5
  <2> QED BY <2>1 DEF q, e
<1> QED BY <1>4, <1>5

-----------------------------------------------------------------------------

(* The pages of an inode; the last inode stays unused. *)
QfsPagesOf(i) == {1 + i * QfsPages + j : j \in 0 .. QfsPages - 1}

QfsUsable == 0 .. QfsInodes - 2

(* The constants, as the arithmetic of the pages needs them. *)
LEMMA QfsConstants ==
  /\ QfsInodes \in Nat /\ QfsInodes >= 2 /\ QfsInodes <= 255
  /\ QfsPages \in Nat /\ QfsPages >= 2
  /\ QfsBlock \in Nat /\ QfsBlock >= 2
  BY QfsAssumption DEF QfsAssumption

(* The pages of a file are pages of the chip, except those of the last     *)
(* inode, whose last page is the one the address wraps to.                 *)
LEMMA QfsPagesRange ==
  ASSUME NEW i \in QfsUsable
  PROVE  QfsPagesOf(i) \subseteq QfsPage
<1> SUFFICES ASSUME NEW j \in 0 .. QfsPages - 1 PROVE 1 + i * QfsPages + j \in QfsPage
  BY DEF QfsPagesOf
<1> DEFINE a == QfsPages * i
           z == QfsPages * (QfsInodes - 1)
<1>1. i \in Nat /\ i + 1 <= QfsInodes - 1 /\ QfsInodes - 1 \in Int
  BY QfsConstants DEF QfsUsable
<1>2. a + QfsPages <= z
  BY <1>1, QfsConstants, QfsMonotone
<1>3. /\ a \in Nat /\ z \in Nat /\ i * QfsPages = a /\ QfsInodes * QfsPages = z + QfsPages
  BY <1>1, QfsConstants, SMT
<1> HIDE DEF a, z
<1>4. 1 + a + j \in 1 .. (z + QfsPages) - 1
  BY <1>2, <1>3, QfsConstants
<1> QED BY <1>3, <1>4 DEF QfsPage

(* Two blocks of two files lie on the same page only if they are the same. *)
LEMMA QfsPagesDistinct ==
  ASSUME NEW i \in QfsIndex, NEW j \in QfsIndex,
         NEW a \in 0 .. QfsPages - 1, NEW b \in 0 .. QfsPages - 1,
         1 + i * QfsPages + a = 1 + j * QfsPages + b
  PROVE  i = j /\ a = b
<1>1. i \in Nat /\ j \in Nat /\ QfsPages \in Nat \ {0}
  BY QfsConstants DEF QfsIndex
<1> DEFINE x == QfsPages * i
           y == QfsPages * j
<1>2. x \in Nat /\ y \in Nat /\ i * QfsPages = x /\ j * QfsPages = y
  BY <1>1, SMT
<1> HIDE DEF x, y
<1>3. x + a = y + b
  <2>1. (1 + x) + a = (1 + y) + b
    BY <1>2
  <2> QED BY <1>2, <2>1, QfsConstants
<1>4. QfsPages * i + a = QfsPages * j + b
  BY <1>3 DEF x, y
<1> QED BY <1>1, <1>4, QfsDivisionUnique

(* So no page belongs to two inodes. *)
LEMMA QfsPagesApart ==
  ASSUME NEW i \in QfsIndex, NEW j \in QfsIndex, NEW p, p \in QfsPagesOf(i), p \in QfsPagesOf(j)
  PROVE  i = j
  BY QfsPagesDistinct DEF QfsPagesOf

(* The page of an offset of a file. *)
LEMMA QfsPageOf ==
  ASSUME NEW i \in QfsUsable, NEW off \in Nat, off < QfsPages * QfsBlock
  PROVE  /\ off \div QfsBlock \in 0 .. QfsPages - 1
         /\ offset2page(i, off) = 1 + i * QfsPages + off \div QfsBlock
         /\ offset2page(i, off) \in QfsPagesOf(i)
         /\ offset2page(i, off) \in QfsPage
<1>1. off \div QfsBlock \in 0 .. QfsPages - 1
  <2>1. QfsBlock \in Nat \ {0} /\ QfsPages \in Nat
    BY QfsConstants
  <2> QED BY <2>1, QfsBlockOf, Zenon
<1> DEFINE p == 1 + i * QfsPages + off \div QfsBlock
           n == QfsInodes * QfsPages
<1>2. p \in QfsPagesOf(i)
  BY <1>1 DEF QfsPagesOf
<1>3. p \in 1 .. n - 1
  BY <1>2, QfsPagesRange DEF QfsPage
<1>4. n \in Nat
  BY QfsConstants, SMT
<1>5. offset2page(i, off) = p % n
  BY DEF offset2page
<1> HIDE DEF p, n
<1>6. p % n = p
  <2>1. n \in Nat \ {0} /\ p \in Nat /\ p \in 0 .. n - 1 /\ p = n * 0 + p /\ 0 \in Nat
    BY <1>3, <1>4
  <2> QED BY <2>1, QfsQuotient
<1> QED BY <1>1, <1>2, <1>3, <1>5, <1>6 DEF p, n, QfsPage

(* Every inode but the last may use all its pages. *)
LEMMA QfsLimits ==
  ASSUME NEW i \in QfsUsable
  PROVE  QfsLimit(i) = QfsPages * QfsBlock - 1 /\ QfsLimit(i) \in Nat /\ i \in QfsIndex
<1>1. i # QfsInodes - 1 /\ i \in QfsIndex
  BY QfsConstants DEF QfsUsable, QfsIndex
<1>2. QfsPages * QfsBlock - 1 \in Nat
  <2> DEFINE a == QfsBlock * QfsPages
  <2>1. QfsBlock * 0 + QfsBlock <= a /\ QfsBlock * 0 = 0
    BY QfsConstants, QfsMonotone, SMT
  <2>2. a \in Nat /\ a = QfsPages * QfsBlock
    BY QfsConstants, SMT
  <2> HIDE DEF a
  <2> QED BY <2>1, <2>2, QfsConstants
<1> QED BY <1>1, <1>2 DEF QfsLimit

QfsContents == QfsData \union {QfsLine, QfsErased}

QfsInodeSet ==
  [name : QfsName \union {QfsEmpty, QfsMagic}, len : (0 .. QfsPages * QfsBlock - 1) \union {4}]

QfsPageSet == [1 .. QfsBlock -> QfsContents]

QfsRootSet == [0 .. QfsInodes -> QfsInodeSet]

QfsChips ==
  [root : QfsRootSet, savedRoot : QfsRootSet, buf1 : QfsPageSet, saved : [QfsPage -> QfsPageSet],
   lastpage : {0} \union QfsPage, index : (0 .. QfsInodes) \union {255},
   inode : QfsInodeSet, pageModified : BOOLEAN, rootModified : BOOLEAN]

(* What fs_read and the next fs_sync find in a page. *)
QfsAt(f, p) == IF p = f.lastpage THEN f.buf1 ELSE f.saved[p]

(* The buffers: a page that was not written is as on the chip, and so is   *)
(* the directory.                                                          *)
QfsBuffer(f) ==
  /\ ~f.pageModified /\ f.lastpage # 0 => f.buf1 = f.saved[f.lastpage]
  /\ f.pageModified => f.lastpage # 0
  /\ ~f.rootModified => f.savedRoot = f.root

(* The same directory and the same cached inode. *)
QfsSameDir(f, g) ==
  /\ g.root = f.root /\ g.savedRoot = f.savedRoot /\ g.rootModified = f.rootModified
  /\ g.index = f.index /\ g.inode = f.inode

LEMMA QfsPageNotRoot == 0 \notin QfsPage
  BY DEF QfsPage

(* The fields of a chip. *)
LEMMA QfsChipFields ==
  ASSUME NEW f \in QfsChips
  PROVE  /\ f.root \in QfsRootSet /\ f.savedRoot \in QfsRootSet /\ f.buf1 \in QfsPageSet
         /\ f.saved \in [QfsPage -> QfsPageSet] /\ f.lastpage \in {0} \union QfsPage
         /\ f.index \in (0 .. QfsInodes) \union {255} /\ f.inode \in QfsInodeSet
         /\ f.pageModified \in BOOLEAN /\ f.rootModified \in BOOLEAN
  BY DEF QfsChips

(* A record with new contents of BUF1 is one of a chip. *)
LEMMA QfsChipPut ==
  ASSUME NEW f \in QfsChips,
         NEW buf1 \in QfsPageSet,
         NEW pageModified \in BOOLEAN
  PROVE  [f EXCEPT !.buf1 = buf1, !.pageModified = pageModified] \in QfsChips
  BY Zenon DEF QfsChips

(* The page is cached: it and all others keep their contents, if the new   *)
(* one is loaded.                                                          *)
LEMMA QfsCachePage ==
  ASSUME NEW f \in QfsChips, QfsBuffer(f), NEW p \in QfsPage, NEW load \in BOOLEAN,
         NEW g, g = cache_page(f, p, load)
  PROVE  /\ g \in QfsChips /\ QfsSameDir(f, g)
         /\ g.lastpage = p /\ (g.pageModified => f.pageModified /\ f.lastpage = p)
         /\ \A q \in QfsPage : q # p => QfsAt(g, q) = QfsAt(f, q)
         /\ load \/ f.lastpage = p => QfsAt(g, p) = QfsAt(f, p) /\ QfsBuffer(g)
<1>1. CASE f.lastpage = p
  <2>1. g = f
    BY <1>1 DEF cache_page
  <2>2. \A q \in QfsPage : QfsAt(g, q) = QfsAt(f, q)
    BY <2>1
  <2> QED BY <1>1, <2>1, <2>2, Zenon DEF QfsSameDir
<1>2. CASE f.lastpage # p
  <2> DEFINE s == IF f.pageModified THEN [f.saved EXCEPT ![f.lastpage] = f.buf1] ELSE f.saved
             b == IF load THEN s[p] ELSE f.buf1
  <2>1. s \in [QfsPage -> QfsPageSet]
    BY QfsChipFields
  <2>2. b \in QfsPageSet
    BY <2>1, QfsChipFields
  <2>3. g = [f EXCEPT !.saved = s, !.pageModified = FALSE, !.lastpage = p, !.buf1 = b]
    BY <1>2, Zenon DEF cache_page
  <2>4. \A q \in QfsPage : q # f.lastpage => s[q] = f.saved[q]
    BY QfsChipFields
  <2>5. f.lastpage \in QfsPage => s[f.lastpage] = f.buf1
    <3>1. CASE f.pageModified
      BY <3>1, QfsChipFields
    <3>2. CASE ~f.pageModified
      BY <3>2, QfsPageNotRoot DEF QfsBuffer
    <3> QED BY <3>1, <3>2
  <2> HIDE DEF s
  <2>6. \A q \in QfsPage : s[q] = QfsAt(f, q)
    BY <2>4, <2>5 DEF QfsAt
  <2>7. load => b = QfsAt(f, p)
    BY <2>6
  <2> HIDE DEF b
  <2>8. /\ g.saved = s /\ g.pageModified = FALSE /\ g.lastpage = p /\ g.buf1 = b
        /\ QfsSameDir(f, g)
    BY <2>3 DEF QfsSameDir, QfsChips
  <2>9. g \in QfsChips
    <3>1. FALSE \in BOOLEAN /\ p \in {0} \union QfsPage
      BY QfsChipFields
    <3>2. f \in QfsChips
      OBVIOUS
    <3> QED BY ONLY <2>1, <2>2, <2>3, <3>1, <3>2, Zenon DEF QfsChips
  <2>10. \A q \in QfsPage : q # p => QfsAt(g, q) = QfsAt(f, q)
    BY <2>6, <2>8 DEF QfsAt
  <2>11. load => QfsAt(g, p) = QfsAt(f, p) /\ QfsBuffer(g)
    BY <2>6, <2>7, <2>8 DEF QfsAt, QfsBuffer, QfsSameDir
  <2> QED BY <1>2, <2>8, <2>9, <2>10, <2>11, Zenon
<1> QED BY <1>1, <1>2

(* A page is cached and some of its cells are written. *)
QfsPut(f, p, load, cells, c) ==
  [cache_page(f, p, load) EXCEPT
     !.buf1 = [i \in 1 .. QfsBlock |-> IF i \in cells THEN c ELSE @[i]],
     !.pageModified = TRUE]

(* What one page of fs_write does: the cells hold c, and of the rest what  *)
(* was there if the page was loaded.                                       *)
QfsPutDone(f, p, load, cells, c, g) ==
  /\ g \in QfsChips /\ QfsSameDir(f, g) /\ QfsBuffer(g) /\ g.lastpage = p
  /\ \A q \in QfsPage : q # p => QfsAt(g, q) = QfsAt(f, q)
  /\ \A j \in 1 .. QfsBlock : j \in cells => QfsAt(g, p)[j] = c
  /\ \A j \in 1 .. QfsBlock : load /\ j \notin cells => QfsAt(g, p)[j] = QfsAt(f, p)[j]

(* One buffer write of fs_write, of the cells given in a page. *)
LEMMA QfsPutPage ==
  ASSUME NEW f \in QfsChips, QfsBuffer(f), NEW p \in QfsPage, NEW load \in BOOLEAN,
         NEW cells, NEW c \in QfsContents
  PROVE  QfsPutDone(f, p, load, cells, c, QfsPut(f, p, load, cells, c))
<1> DEFINE g == QfsPut(f, p, load, cells, c)
           h == cache_page(f, p, load)
           b == [i \in 1 .. QfsBlock |-> IF i \in cells THEN c ELSE h.buf1[i]]
<1>1. /\ h \in QfsChips /\ QfsSameDir(f, h) /\ h.lastpage = p
      /\ \A q \in QfsPage : q # p => QfsAt(h, q) = QfsAt(f, q)
      /\ load => QfsAt(h, p) = QfsAt(f, p)
  BY QfsCachePage
<1>2. g = [h EXCEPT !.buf1 = b, !.pageModified = TRUE]
  BY Zenon DEF QfsPut
<1> HIDE DEF h
<1>3. b \in QfsPageSet
  <2>1. h.buf1 \in [1 .. QfsBlock -> QfsContents]
    BY <1>1, QfsChipFields DEF QfsPageSet
  <2> QED BY <2>1 DEF QfsPageSet
<1>4. \A i \in 1 .. QfsBlock : b[i] = IF i \in cells THEN c ELSE h.buf1[i]
  OBVIOUS
<1> HIDE DEF b, g
<1>5. /\ g.buf1 = b /\ g.pageModified = TRUE /\ g.lastpage = p /\ g.saved = h.saved
      /\ QfsSameDir(h, g)
  BY <1>1, <1>2, <1>3 DEF QfsSameDir, QfsChips
<1>11. g \in QfsChips
  <2>1. TRUE \in BOOLEAN
    OBVIOUS
  <2> QED BY <1>1, <1>2, <1>3, <2>1, QfsChipPut, Zenon
<1>6. QfsSameDir(f, g)
  BY <1>1, <1>5, Zenon DEF QfsSameDir
<1>7. QfsBuffer(g)
  BY <1>5, <1>6, QfsPageNotRoot DEF QfsBuffer, QfsSameDir
<1>8. \A q \in QfsPage : q # p => QfsAt(g, q) = QfsAt(f, q)
  BY <1>1, <1>5 DEF QfsAt
<1>9. QfsAt(g, p) = b /\ QfsAt(h, p) = h.buf1
  BY <1>1, <1>5 DEF QfsAt
<1>10. load => h.buf1 = QfsAt(f, p)
  BY <1>1, <1>9
<1> QED BY <1>4, <1>5, <1>6, <1>7, <1>8, <1>9, <1>10, <1>11 DEF g, QfsPutDone

(* Induction over a set of numbers, and the least of one. *)
LEMMA QfsLeast ==
  ASSUME NEW T, T \subseteq Nat, T # {}
  PROVE  \E m \in T : \A k \in T : m <= k
<1> DEFINE R == OpToRel(<, Nat)
<1>1. IsWellFoundedOn(R, Nat)
  BY NatLessThanWellFounded
<1>2. \A x, y \in Nat : x < y => <<x, y>> \in R
  BY DEF OpToRel
<1> HIDE DEF R
<1>3. PICK m \in T : \A k \in T : <<k, m>> \notin R
  BY <1>1, WFMin
<1>4. \A k \in T : ~(k < m)
  BY <1>2, <1>3
<1> QED BY <1>4

(* Induction up to N, over a set instead of a predicate. *)
LEMMA QfsInduction ==
  ASSUME NEW N \in Nat, NEW T, 0 \in T, \A k \in 0 .. N - 1 : k \in T => k + 1 \in T
  PROVE  \A k \in 0 .. N : k \in T
<1> DEFINE Bad == {k \in 0 .. N : k \notin T}
<1> SUFFICES ASSUME Bad # {} PROVE FALSE
  OBVIOUS
<1>1. Bad \subseteq Nat
  OBVIOUS
<1>2. PICK m \in Bad : \A k \in Bad : m <= k
  <2> HIDE DEF Bad
  <2> QED BY <1>1, QfsLeast
<1>3. m \in 0 .. N /\ m \notin T
  OBVIOUS
<1>4. m # 0
  BY <1>3
<1>5. m - 1 \in 0 .. N - 1 /\ (m - 1) + 1 = m
  BY <1>3, <1>4
<1>6. m - 1 \notin T
  BY <1>3, <1>5
<1>7. m - 1 \in Bad
  BY <1>5, <1>6
<1> QED BY <1>2, <1>3, <1>7

-----------------------------------------------------------------------------

(* The directory: formatted, the last inode unused, a name used once. *)
QfsDir(root) ==
  /\ root[QfsInodes] = QfsFormatted[QfsInodes]
  /\ root[QfsInodes - 1].name = QfsEmpty
  /\ \A i \in QfsIndex : root[i].name # QfsMagic
  /\ \A i \in QfsIndex : root[i].name \in QfsName => root[i].len <= QfsLimit(i)
  /\ \A i, j \in QfsIndex : root[i].name \in QfsName /\ root[i].name = root[j].name => i = j

(* The cached inode is the one of its index, or no file. *)
QfsCache(f) ==
  /\ f.index \in QfsIndex => f.inode = f.root[f.index]
  /\ f.index \notin QfsIndex => f.inode.name \notin QfsName

QfsGood(f) ==
  f \in QfsChips /\ QfsDir(f.root) /\ QfsDir(f.savedRoot) /\ QfsCache(f) /\ QfsBuffer(f)

(* The marks of the directory are no file names. *)
LEMMA QfsNamesDiffer ==
  /\ QfsEmpty \notin QfsName /\ QfsMagic \notin QfsName /\ QfsEmpty # QfsMagic
  /\ QfsNone \notin QfsName
<1>1. {QfsEmpty, QfsMagic, QfsNone} \intersect QfsName = {} /\ QfsEmpty # QfsMagic
  BY QfsAssumption, Zenon DEF QfsAssumption
<1> QED BY <1>1

(* The fields of an inode. *)
LEMMA QfsFields ==
  ASSUME NEW root \in QfsRootSet, NEW i \in QfsIndex
  PROVE  /\ root[i] \in QfsInodeSet /\ root[i] = [name |-> root[i].name, len |-> root[i].len]
         /\ root[i].name \in QfsName \union {QfsEmpty, QfsMagic}
         /\ root[i].len \in Nat
<1>1. i \in 0 .. QfsInodes
  BY QfsConstants DEF QfsIndex
<1>2. root[i] \in QfsInodeSet
  BY <1>1 DEF QfsRootSet
<1> QED BY <1>2 DEF QfsInodeSet

(* The last inode holds no file. *)
LEMMA QfsNamed ==
  ASSUME NEW root, QfsDir(root), NEW i \in QfsIndex, root[i].name \in QfsName
  PROVE  i \in QfsUsable
<1>1. i # QfsInodes - 1
  BY QfsNamesDiffer DEF QfsDir
<1> QED BY <1>1, QfsConstants DEF QfsIndex, QfsUsable

(* fs_get_inode finds the first inode of a name, *)
LEMMA QfsFirstFound ==
  ASSUME NEW f, NEW name, NEW i \in QfsIndex, f.root[i].name = name
  PROVE  /\ QfsFirst(f, name) \in QfsIndex /\ f.root[QfsFirst(f, name)].name = name
         /\ QfsFirst(f, name) # QfsInodes /\ QfsFirst(f, name) <= i
<1> DEFINE T == {j \in QfsIndex : f.root[j].name = name}
<1>1. T \subseteq Nat /\ T # {}
  BY QfsConstants DEF QfsIndex
<1>2. PICK m \in T : \A k \in T : m <= k
  <2> HIDE DEF T
  <2> QED BY <1>1, QfsLeast
<1>3. m \in QfsIndex /\ f.root[m].name = name
  OBVIOUS
<1>4. \A j \in 0 .. m - 1 : f.root[j].name # name
  <2> SUFFICES ASSUME NEW j \in 0 .. m - 1, f.root[j].name = name PROVE FALSE
    OBVIOUS
  <2>1. j \in QfsIndex /\ ~(m <= j)
    BY <1>3, QfsConstants DEF QfsIndex
  <2> QED BY <1>2, <2>1
<1> HIDE DEF T
<1> DEFINE l == QfsFirst(f, name)
<1>5. /\ l \in QfsIndex /\ f.root[l].name = name
      /\ \A j \in 0 .. l - 1 : f.root[j].name # name
  BY <1>3, <1>4, Zenon DEF QfsFirst
<1> HIDE DEF l
<1>6. l <= i /\ l # QfsInodes
  BY <1>5, QfsConstants DEF QfsIndex
<1> QED BY <1>5, <1>6 DEF l

(* which is the only one if the name is that of a file, *)
LEMMA QfsFirstUnique ==
  ASSUME NEW f, QfsDir(f.root), NEW i \in QfsIndex, f.root[i].name \in QfsName
  PROVE  QfsFirst(f, f.root[i].name) = i
  BY QfsFirstFound, Zenon DEF QfsDir

(* and finds none only if there is none. *)
LEMMA QfsFirstMissing ==
  ASSUME NEW f, NEW name
  PROVE  QfsFirst(f, name) # QfsInodes <=> \E i \in QfsIndex : f.root[i].name = name
<1>1. CASE \E i \in QfsIndex : f.root[i].name = name
  <2>1. PICK i \in QfsIndex : f.root[i].name = name
    BY <1>1
  <2>2. QfsFirst(f, name) # QfsInodes
    BY <2>1, QfsFirstFound
  <2> QED BY <1>1, <2>2
<1>2. CASE ~\E i \in QfsIndex : f.root[i].name = name
  <2>1. QfsFirst(f, name) = QfsInodes
    BY <1>2, Zenon DEF QfsFirst
  <2> QED BY <1>2, <2>1
<1> QED BY <1>1, <1>2

(* The files: the k-th cell of inode i, its contents, and those of a name. *)
QfsCell(f, i, k) == QfsAt(f, offset2page(i, k - 1))[((k - 1) % QfsBlock) + 1]

QfsContent(f, i) == [k \in 1 .. f.root[i].len |-> QfsCell(f, i, k)]

QfsFile(f, n) ==
  IF QfsFirst(f, n) # QfsInodes THEN QfsContent(f, QfsFirst(f, n)) ELSE QfsNone

(* Inode i is the same in f and g, with the contents of its pages. *)
QfsSameInode(f, g, i) ==
  g.root[i] = f.root[i] /\ \A q \in QfsPagesOf(i) : QfsAt(g, q) = QfsAt(f, q)

(* Name n has the same inode in f and g, or none. *)
QfsSame(f, g, n) ==
  \A i \in QfsIndex : f.root[i].name = n \/ g.root[i].name = n => QfsSameInode(f, g, i)

(* The inodes of the names are in the chip, with all of their pages. *)
QfsSafely(f, names) ==
  \A n \in names : \A i \in QfsIndex :
    f.root[i].name = n \/ f.savedRoot[i].name = n =>
      f.root[i] = f.savedRoot[i] /\ (f.pageModified => f.lastpage \notin QfsPagesOf(i))

(* The page of a cell of a file belongs to the file. *)
LEMMA QfsCellPage ==
  ASSUME NEW i \in QfsUsable, NEW len \in Nat, len <= QfsLimit(i), NEW k \in 1 .. len
  PROVE  /\ k - 1 \in Nat /\ k - 1 < QfsPages * QfsBlock
         /\ offset2page(i, k - 1) \in QfsPagesOf(i) /\ offset2page(i, k - 1) \in QfsPage
<1> DEFINE all == QfsPages * QfsBlock
<1>1. k - 1 \in Nat
  OBVIOUS
<1>2. k - 1 < all
  <2>1. QfsLimit(i) = all - 1 /\ QfsLimit(i) \in Nat /\ all \in Nat
    BY QfsLimits, QfsConstants, SMT
  <2> HIDE DEF all
  <2> QED BY <2>1
<1> QED BY <1>1, <1>2, QfsPageOf

(* A file is read as before if its inode and its pages are as before. *)
LEMMA QfsSameContent ==
  ASSUME NEW f, NEW g, NEW i \in QfsUsable, f.root[i].len \in Nat, f.root[i].len <= QfsLimit(i),
         QfsSameInode(f, g, i)
  PROVE  QfsContent(g, i) = QfsContent(f, i)
<1> DEFINE len == f.root[i].len
<1>1. g.root[i].len = len
  BY DEF QfsSameInode
<1>2. ASSUME NEW k \in 1 .. len PROVE QfsCell(g, i, k) = QfsCell(f, i, k)
  <2>1. offset2page(i, k - 1) \in QfsPagesOf(i)
    BY QfsCellPage
  <2> QED BY <2>1, Zenon DEF QfsSameInode, QfsCell
<1> HIDE DEF len
<1> QED BY <1>1, <1>2, Zenon DEF QfsContent, len

(* The contents of a file are those of its inode, *)
LEMMA QfsFileAt ==
  ASSUME NEW f, QfsDir(f.root), NEW i \in QfsIndex, f.root[i].name \in QfsName
  PROVE  QfsFile(f, f.root[i].name) = QfsContent(f, i)
<1>1. QfsFirst(f, f.root[i].name) = i /\ i # QfsInodes
  BY QfsFirstUnique, QfsConstants DEF QfsIndex
<1> QED BY <1>1, Zenon DEF QfsFile

(* and a name without an inode has no file. *)
LEMMA QfsFileNone ==
  ASSUME NEW f, NEW n, \A i \in QfsIndex : f.root[i].name # n
  PROVE  QfsFile(f, n) = QfsNone
  BY QfsFirstMissing, Zenon DEF QfsFile

(* Names whose inodes and pages are as before have the same files. *)
LEMMA QfsSameFile ==
  ASSUME NEW f, QfsGood(f), NEW g, QfsGood(g), NEW n \in QfsName, QfsSame(f, g, n)
  PROVE  QfsFile(g, n) = QfsFile(f, n)
<1>1. CASE \E i \in QfsIndex : f.root[i].name = n
  <2>1. PICK i \in QfsIndex : f.root[i].name = n
    BY <1>1
  <2>2. QfsSameInode(f, g, i)
    BY <2>1 DEF QfsSame
  <2>3. g.root[i].name = n
    BY <2>1, <2>2 DEF QfsSameInode
  <2>4. QfsFile(f, n) = QfsContent(f, i) /\ QfsFile(g, n) = QfsContent(g, i)
    BY <2>1, <2>3, QfsFileAt DEF QfsGood
  <2>5. i \in QfsUsable
    BY <2>1, QfsNamed DEF QfsGood
  <2>6. f.root[i].len \in Nat /\ f.root[i].len <= QfsLimit(i)
    BY <2>1, QfsFields, QfsChipFields DEF QfsGood, QfsDir
  <2> QED BY <2>2, <2>4, <2>5, <2>6, QfsSameContent
<1>2. CASE ~\E i \in QfsIndex : f.root[i].name = n
  <2>1. \A i \in QfsIndex : g.root[i].name # n
    <3> SUFFICES ASSUME NEW i \in QfsIndex, g.root[i].name = n PROVE FALSE
      OBVIOUS
    <3>1. f.root[i] = g.root[i]
      BY Zenon DEF QfsSame, QfsSameInode
    <3> QED BY <1>2, <3>1
  <2> QED BY <1>2, <2>1, QfsFileNone
<1> QED BY <1>1, <1>2

(* Only the cached inode may differ. *)
QfsSameStore(f, g) ==
  /\ g.root = f.root /\ g.savedRoot = f.savedRoot /\ g.rootModified = f.rootModified
  /\ g.buf1 = f.buf1 /\ g.saved = f.saved /\ g.lastpage = f.lastpage
  /\ g.pageModified = f.pageModified

(* An operation that only changes what is cached changes no file. *)
LEMMA QfsStored ==
  ASSUME NEW f, QfsGood(f), NEW g \in QfsChips, QfsSameStore(f, g), QfsCache(g)
  PROVE  /\ QfsGood(g)
         /\ \A n : QfsSame(f, g, n)
         /\ \A names : QfsSafely(f, names) => QfsSafely(g, names)
<1>1. QfsBuffer(g)
  BY Zenon DEF QfsGood, QfsSameStore, QfsBuffer
<1>2. QfsGood(g)
  BY <1>1, Zenon DEF QfsGood, QfsSameStore
<1>3. \A q : QfsAt(g, q) = QfsAt(f, q)
  BY Zenon DEF QfsAt, QfsSameStore
<1>4. \A n : QfsSame(f, g, n)
  BY <1>3, Zenon DEF QfsSame, QfsSameInode, QfsSameStore
<1>5. \A names : QfsSafely(f, names) => QfsSafely(g, names)
  BY Zenon DEF QfsSafely, QfsSameStore
<1> QED BY <1>2, <1>4, <1>5

(* Inode j may be cached under index i. *)
QfsMayCache(f, i, j) ==
  /\ i \in (0 .. QfsInodes) \union {255} /\ j \in 0 .. QfsInodes
  /\ i \in QfsIndex => j = i
  /\ i \notin QfsIndex => f.root[j].name \notin QfsName

QfsCaching(f, i, j) == [f EXCEPT !.index = i, !.inode = f.root[j]]

(* Another inode is cached. *)
LEMMA QfsRecached ==
  ASSUME NEW f, QfsGood(f), NEW i, NEW j, QfsMayCache(f, i, j),
         NEW g, g = QfsCaching(f, i, j)
  PROVE  /\ g \in QfsChips /\ QfsSameStore(f, g) /\ QfsCache(g)
         /\ g.index = i /\ g.inode = f.root[j]
<1>1. f.root[j] \in QfsInodeSet /\ f \in QfsChips
  <2>1. f \in QfsChips
    BY DEF QfsGood
  <2>2. f.root \in QfsRootSet
    BY <2>1, QfsChipFields
  <2>3. j \in 0 .. QfsInodes
    BY DEF QfsMayCache
  <2> QED BY <2>1, <2>2, <2>3 DEF QfsRootSet
<1>2. g \in QfsChips
  <2> DEFINE inode == f.root[j]
  <2>1. inode \in QfsInodeSet /\ f \in QfsChips /\ g = [f EXCEPT !.index = i, !.inode = inode]
    BY <1>1 DEF QfsCaching
  <2>2. i \in (0 .. QfsInodes) \union {255}
    BY Zenon DEF QfsMayCache
  <2> HIDE DEF inode
  <2> QED BY ONLY <2>1, <2>2, Zenon DEF QfsChips
<1>3. QfsSameStore(f, g) /\ g.index = i /\ g.inode = f.root[j]
  <2> DEFINE inode == f.root[j]
  <2>1. f \in QfsChips /\ g = [f EXCEPT !.index = i, !.inode = inode]
    BY <1>1 DEF QfsCaching
  <2> HIDE DEF inode
  <2>2. QfsSameStore(f, g) /\ g.index = i /\ g.inode = inode
    BY ONLY <2>1, SMT DEF QfsSameStore, QfsChips
  <2> QED BY <2>2 DEF inode
<1>4. QfsCache(g)
  BY <1>3, Zenon DEF QfsSameStore, QfsCache, QfsMayCache
<1> QED BY <1>2, <1>3, <1>4

(* A search changes no file and caches what it found, *)
LEMMA QfsSearched ==
  ASSUME NEW f, QfsGood(f), NEW name, NEW g, g = QfsSearch(f, name)
  PROVE  /\ QfsGood(g) /\ QfsSameStore(f, g) /\ g.index = QfsFirst(f, name)
         /\ g.index # QfsInodes =>
              g.index \in QfsIndex /\ f.root[g.index].name = name /\ g.inode = f.root[g.index]
<1> DEFINE i == QfsFirst(f, name)
           j == IF i = QfsInodes THEN i - 1 ELSE i
<1>1. g = QfsCaching(f, i, j)
  BY DEF QfsSearch, QfsCaching
<1>2. i # QfsInodes => i \in QfsIndex /\ f.root[i].name = name
  BY QfsFirstMissing, QfsFirstFound
<1>3. i \in 0 .. QfsInodes /\ j \in 0 .. QfsInodes
  BY <1>2, QfsConstants DEF QfsIndex
<1>4. i \in QfsIndex => j = i
  BY QfsConstants DEF QfsIndex
<1>5. i \notin QfsIndex => f.root[j].name \notin QfsName
  <2>1. i \notin QfsIndex => j = QfsInodes - 1
    BY <1>2, QfsConstants
  <2> QED BY <2>1, QfsNamesDiffer DEF QfsGood, QfsDir
<1> HIDE DEF i, j
<1>6. /\ g \in QfsChips /\ QfsSameStore(f, g) /\ QfsCache(g) /\ g.index = i
      /\ g.inode = f.root[j]
  <2>1. i \in (0 .. QfsInodes) \union {255}
    BY <1>3
  <2>2. QfsMayCache(f, i, j)
    BY <1>3, <1>4, <1>5, <2>1, Zenon DEF QfsMayCache
  <2>3. QfsGood(f)
    OBVIOUS
  <2> QED BY ONLY <1>1, <2>2, <2>3, QfsRecached
<1>7. QfsGood(g)
  BY <1>6, QfsStored
<1> QED BY <1>2, <1>4, <1>6, <1>7 DEF i

(* and so does fs_get_inode, whose cache is not stale. *)
LEMMA QfsGot ==
  ASSUME NEW f, QfsGood(f), NEW n \in QfsName, NEW g, g = fs_get_inode(f, n)
  PROVE  /\ QfsGood(g) /\ QfsSameStore(f, g)
         /\ fs_found(f, n) <=> QfsFirst(f, n) # QfsInodes
         /\ fs_found(f, n) =>
              /\ g.index \in QfsIndex /\ f.root[g.index].name = n /\ g.inode = f.root[g.index]
              /\ g.index = QfsFirst(f, n)
<1>1. CASE f.inode.name = n
  <2>1. g = f /\ QfsSameStore(f, g) /\ fs_found(f, n)
    BY <1>1, Zenon DEF fs_get_inode, QfsCached, fs_found, QfsSameStore
  <2>2. f.index \in QfsIndex /\ f.inode = f.root[f.index]
    BY <1>1, Zenon DEF QfsGood, QfsCache
  <2>3. f.root[f.index].name = n
    BY <1>1, <2>2
  <2>4. QfsFirst(f, n) = f.index
    BY <2>2, <2>3, QfsFirstUnique DEF QfsGood
  <2>5. QfsFirst(f, n) # QfsInodes
    BY <2>2, <2>4, QfsConstants DEF QfsIndex
  <2> QED BY <2>1, <2>2, <2>3, <2>4, <2>5
<1>2. CASE f.inode.name # n
  <2>1. g = QfsSearch(f, n) /\ (fs_found(f, n) <=> QfsFirst(f, n) # QfsInodes)
    BY <1>2, Zenon DEF fs_get_inode, QfsCached, fs_found
  <2>2. QfsFirst(f, n) # QfsInodes => QfsFirst(f, n) \in QfsIndex
    BY QfsFirstMissing, QfsFirstFound
  <2> QED BY <2>1, <2>2, QfsSearched
<1> QED BY <1>1, <1>2

(* What the host reads is the contents of the inode of that name: the      *)
(* cached inode never is another one.                                      *)
LEMMA QfsReadIsFile ==
  ASSUME QfsGood(fs), NEW n \in QfsName
  PROVE  QfsRead(n) = QfsFile(fs, n)
<1> DEFINE g == fs_get_inode(fs, n)
           i == QfsFirst(fs, n)
<1>1. CASE fs_found(fs, n)
  <2>1. g.index = i /\ g.inode = fs.root[i] /\ i # QfsInodes
    BY <1>1, QfsGot
  <2>2. QfsRead(n) = [k \in 1 .. fs.root[i].len |-> QfsCell(fs, i, k)]
    <3> HIDE DEF g, i
    <3>1. QfsRead(n) = [k \in 1 .. g.inode.len |-> QfsCell(fs, g.index, k)]
      BY <1>1, Zenon DEF QfsRead, QfsCell, QfsAt, g
    <3> QED BY <2>1, <3>1
  <2> QED BY <2>1, <2>2, Zenon DEF QfsFile, QfsContent
<1>2. CASE ~fs_found(fs, n)
  <2>1. i = QfsInodes
    BY <1>2, QfsGot
  <2> QED BY <1>2, <2>1, Zenon DEF QfsRead, QfsFile
<1> QED BY <1>1, <1>2

(* The chip before fs_sync: its saved directory may be anything. *)
QfsReady(f) == f \in QfsChips /\ QfsDir(f.root) /\ QfsCache(f) /\ QfsBuffer(f)

(* After fs_sync the chip holds what is read. *)
LEMMA QfsSynced ==
  ASSUME NEW f, QfsReady(f), NEW g, g = fs_sync(f)
  PROVE  /\ QfsGood(g) /\ g.root = f.root /\ g.index = f.index /\ g.inode = f.inode
         /\ \A q \in QfsPage : g.saved[q] = QfsAt(f, q) /\ QfsAt(g, q) = QfsAt(f, q)
         /\ g.savedRoot = g.root /\ g.pageModified = FALSE
<1>0. f \in QfsChips /\ QfsBuffer(f)
  BY DEF QfsReady
<1> DEFINE s == IF f.pageModified THEN [f.saved EXCEPT ![f.lastpage] = f.buf1] ELSE f.saved
           r == IF f.rootModified THEN f.root ELSE f.savedRoot
<1>1. s \in [QfsPage -> QfsPageSet]
  BY <1>0, QfsChipFields
<1>2. r = f.root /\ r \in QfsRootSet
  <2>1. r = f.root
    BY <1>0, Zenon DEF QfsBuffer
  <2> QED BY <1>0, <2>1, QfsChipFields
<1>3. \A q \in QfsPage : s[q] = QfsAt(f, q)
  <2>1. \A q \in QfsPage : q # f.lastpage => s[q] = f.saved[q]
    BY <1>0, QfsChipFields
  <2>2. f.lastpage \in QfsPage => s[f.lastpage] = f.buf1
    <3>1. CASE f.pageModified
      BY <1>0, <3>1, QfsChipFields
    <3>2. CASE ~f.pageModified
      BY <1>0, <3>2, QfsPageNotRoot DEF QfsBuffer
    <3> QED BY <3>1, <3>2
  <2> HIDE DEF s
  <2> QED BY <2>1, <2>2 DEF QfsAt
<1>4. g = [f EXCEPT !.saved = s, !.savedRoot = r, !.pageModified = FALSE, !.rootModified = FALSE]
  BY Zenon DEF fs_sync
<1> HIDE DEF s, r
<1>5. /\ g.saved = s /\ g.savedRoot = r /\ g.pageModified = FALSE /\ g.rootModified = FALSE
      /\ g.root = f.root /\ g.index = f.index /\ g.inode = f.inode /\ g.buf1 = f.buf1
      /\ g.lastpage = f.lastpage
  BY ONLY <1>0, <1>4, SMT DEF QfsChips
<1>6. g \in QfsChips
  <2>1. FALSE \in BOOLEAN
    OBVIOUS
  <2>2. f \in QfsChips /\ r \in QfsRootSet
    BY <1>0, <1>2
  <2> QED BY ONLY <1>1, <1>4, <2>1, <2>2, Zenon DEF QfsChips
<1>7. \A q \in QfsPage : g.saved[q] = QfsAt(f, q) /\ QfsAt(g, q) = QfsAt(f, q)
  BY <1>3, <1>5, Zenon DEF QfsAt
<1>8. QfsBuffer(g)
  <2>1. f.lastpage # 0 => f.lastpage \in QfsPage
    BY <1>0, QfsChipFields
  <2>2. f.lastpage # 0 => g.buf1 = g.saved[g.lastpage]
    BY <1>3, <1>5, <2>1, Zenon DEF QfsAt
  <2> QED BY <1>2, <1>5, <2>2, Zenon DEF QfsBuffer
<1>9. QfsCache(g)
  BY <1>5, Zenon DEF QfsReady, QfsCache
<1>10. QfsGood(g)
  BY <1>2, <1>5, <1>6, <1>8, <1>9, Zenon DEF QfsReady, QfsGood
<1> QED BY <1>2, <1>5, <1>7, <1>10

(* After fs_sync every file is as before, and safe. *)
LEMMA QfsSyncKeeps ==
  ASSUME NEW f, QfsReady(f), NEW g, g = fs_sync(f)
  PROVE  /\ \A n \in QfsName : QfsSame(f, g, n)
         /\ \A names : QfsSafely(g, names)
<1>1. /\ QfsGood(g) /\ g.root = f.root /\ g.savedRoot = g.root /\ g.pageModified = FALSE
      /\ \A q \in QfsPage : QfsAt(g, q) = QfsAt(f, q)
  BY QfsSynced
<1>2. ASSUME NEW n \in QfsName, NEW i \in QfsIndex, f.root[i].name = n PROVE QfsSameInode(f, g, i)
  <2>1. i \in QfsUsable
    BY <1>2, QfsNamed DEF QfsReady
  <2>2. QfsPagesOf(i) \subseteq QfsPage
    BY <2>1, QfsPagesRange
  <2> QED BY <1>1, <2>2, Zenon DEF QfsSameInode
<1>3. \A n \in QfsName : QfsSame(f, g, n)
  BY <1>1, <1>2, Zenon DEF QfsSame
<1>4. \A names : QfsSafely(g, names)
  BY <1>1, Zenon DEF QfsSafely
<1> QED BY <1>3, <1>4

-----------------------------------------------------------------------------

(* An inode is entered at the cached index, with its new contents. *)
QfsEnter(f, new) == [f EXCEPT !.inode = new, !.root[f.index] = new, !.rootModified = TRUE]

QfsMayEnter(f, new) ==
  /\ f.index \in QfsUsable /\ new \in QfsInodeSet /\ new.name # QfsMagic
  /\ new.name \in QfsName => new.len <= QfsLimit(f.index)
  /\ \A j \in QfsIndex : f.root[j].name = new.name /\ new.name \in QfsName => j = f.index

(* An inode that is cached is changed, in the cache and in the directory. *)
LEMMA QfsEntered ==
  ASSUME NEW f, QfsGood(f), NEW new, QfsMayEnter(f, new), NEW g, g = QfsEnter(f, new)
  PROVE  /\ QfsGood(g) /\ g.root[f.index] = new /\ g.index = f.index /\ g.inode = new
         /\ \A j \in QfsIndex : j # f.index => g.root[j] = f.root[j]
         /\ \A q : QfsAt(g, q) = QfsAt(f, q)
         /\ g.savedRoot = f.savedRoot
         /\ g.lastpage = f.lastpage /\ g.pageModified = f.pageModified
<1>0. f \in QfsChips /\ QfsBuffer(f) /\ QfsDir(f.root)
  BY DEF QfsGood
<1> DEFINE i == f.index
           r == [f.root EXCEPT ![i] = new]
<1>1. i \in QfsUsable /\ i \in QfsIndex /\ i \in 0 .. QfsInodes
  BY QfsConstants DEF QfsMayEnter, QfsUsable, QfsIndex
<1>2. new \in QfsInodeSet /\ f.root \in QfsRootSet
  BY <1>0, QfsChipFields DEF QfsMayEnter
<1>3. r \in QfsRootSet
  BY <1>1, <1>2 DEF QfsRootSet
<1>4. r[i] = new /\ \A j \in 0 .. QfsInodes : j # i => r[j] = f.root[j]
  BY <1>1, <1>2 DEF QfsRootSet
<1>5. g = [f EXCEPT !.inode = new, !.root = r, !.rootModified = TRUE]
  BY Zenon DEF QfsEnter
<1> HIDE DEF r
<1>6. /\ g.root = r /\ g.inode = new /\ g.rootModified = TRUE /\ g.index = i
      /\ g.savedRoot = f.savedRoot /\ g.buf1 = f.buf1 /\ g.saved = f.saved
      /\ g.lastpage = f.lastpage
  BY ONLY <1>0, <1>5, SMT DEF QfsChips
<1>7. g.pageModified = f.pageModified
  BY ONLY <1>0, <1>5, SMT DEF QfsChips
<1>8. g \in QfsChips
  <2>1. TRUE \in BOOLEAN
    OBVIOUS
  <2> QED BY ONLY <1>0, <1>2, <1>3, <1>5, <2>1, Zenon DEF QfsChips
<1>9. \A q : QfsAt(g, q) = QfsAt(f, q)
  BY <1>6, Zenon DEF QfsAt
<1>10. QfsBuffer(g)
  BY <1>0, <1>6, <1>7, Zenon DEF QfsBuffer
<1>11. QfsIndex \subseteq 0 .. QfsInodes
  BY QfsConstants DEF QfsIndex
<1>12. QfsDir(r)
  <2>1. i # QfsInodes /\ i # QfsInodes - 1 /\ QfsInodes \in 0 .. QfsInodes
        /\ QfsInodes - 1 \in 0 .. QfsInodes
    BY <1>1, QfsConstants DEF QfsUsable
  <2>2. r[QfsInodes] = f.root[QfsInodes] /\ r[QfsInodes - 1] = f.root[QfsInodes - 1]
    BY <1>4, <2>1
  <2>3. \A j \in QfsIndex : r[j].name # QfsMagic
    BY <1>0, <1>4, <1>11 DEF QfsDir, QfsMayEnter
  <2>4. \A j \in QfsIndex : r[j].name \in QfsName => r[j].len <= QfsLimit(j)
    BY <1>0, <1>4, <1>11 DEF QfsDir, QfsMayEnter
  <2>5. ASSUME NEW j \in QfsIndex, NEW k \in QfsIndex, r[j].name \in QfsName,
               r[j].name = r[k].name
        PROVE  j = k
    <3>1. CASE j = i /\ k = i
      BY <3>1
    <3>2. CASE j = i /\ k # i
      BY <1>4, <1>11, <2>5, <3>2 DEF QfsMayEnter
    <3>3. CASE j # i /\ k = i
      BY <1>4, <1>11, <2>5, <3>3 DEF QfsMayEnter
    <3>4. CASE j # i /\ k # i
      BY <1>0, <1>4, <1>11, <2>5, <3>4 DEF QfsDir
    <3> QED BY <3>1, <3>2, <3>3, <3>4
  <2> QED BY <1>0, <2>2, <2>3, <2>4, <2>5, Zenon DEF QfsDir
<1>13. QfsCache(g)
  BY <1>1, <1>4, <1>6, Zenon DEF QfsCache
<1>14. QfsGood(g)
  BY <1>6, <1>8, <1>10, <1>12, <1>13, Zenon DEF QfsGood
<1> QED BY <1>4, <1>6, <1>7, <1>9, <1>11, <1>14

(* Other names are not concerned. *)
LEMMA QfsEnterKeeps ==
  ASSUME NEW f, QfsGood(f), NEW new, QfsMayEnter(f, new), NEW g, g = QfsEnter(f, new)
  PROVE  /\ \A n : n # new.name /\ n # f.root[f.index].name => QfsSame(f, g, n)
         /\ \A names, less : /\ QfsSafely(f, names) /\ less \subseteq names
                             /\ new.name \notin less /\ f.root[f.index].name \notin less
                             => QfsSafely(g, less)
<1>1. /\ g.root[f.index] = new
      /\ \A j \in QfsIndex : j # f.index => g.root[j] = f.root[j]
      /\ \A q : QfsAt(g, q) = QfsAt(f, q)
      /\ g.savedRoot = f.savedRoot
      /\ g.lastpage = f.lastpage /\ g.pageModified = f.pageModified
  BY QfsEntered
<1>2. ASSUME NEW n, n # new.name, n # f.root[f.index].name PROVE QfsSame(f, g, n)
  <2> SUFFICES ASSUME NEW i \in QfsIndex, f.root[i].name = n \/ g.root[i].name = n
               PROVE  QfsSameInode(f, g, i)
    BY Zenon DEF QfsSame
  <2>1. i # f.index
    BY <1>1, <1>2
  <2> QED BY <1>1, <2>1, Zenon DEF QfsSameInode
<1>3. ASSUME NEW names, NEW less, QfsSafely(f, names), less \subseteq names,
             new.name \notin less, f.root[f.index].name \notin less
      PROVE  QfsSafely(g, less)
  <2> SUFFICES ASSUME NEW n \in less, NEW i \in QfsIndex,
                      g.root[i].name = n \/ g.savedRoot[i].name = n
               PROVE  /\ g.root[i] = g.savedRoot[i]
                      /\ g.pageModified => g.lastpage \notin QfsPagesOf(i)
    BY Zenon DEF QfsSafely
  <2>1. f.root[i].name = n \/ f.savedRoot[i].name = n
    BY <1>1, <1>3
  <2>2. f.root[i] = f.savedRoot[i] /\ (f.pageModified => f.lastpage \notin QfsPagesOf(i))
    BY <1>3, <2>1 DEF QfsSafely
  <2>3. i # f.index
    BY <1>3, <2>1, <2>2
  <2> QED BY <1>1, <2>2, <2>3
<1> QED BY <1>2, <1>3, Zenon

(* More inodes than names, with one to spare: the last is never reached.   *)
QfsRoom == IsFiniteSet(QfsName) /\ Cardinality(QfsName) < QfsInodes

QfsAbsent(f, n) == \A i \in QfsIndex : f.root[i].name # n

(* A directory of fewer names than inodes has an empty inode, before the   *)
(* last one: otherwise its names would be an injection of the inodes into  *)
(* the names.                                                              *)
LEMMA QfsRoomLeft ==
  ASSUME QfsRoom, NEW f, QfsGood(f), NEW n \in QfsName, QfsAbsent(f, n)
  PROVE  \E i \in QfsUsable : f.root[i].name = QfsEmpty
<1> SUFFICES ASSUME \A i \in QfsUsable : f.root[i].name # QfsEmpty PROVE FALSE
  OBVIOUS
<1> DEFINE T == QfsName \ {n}
           name == [i \in QfsUsable |-> f.root[i].name]
<1>1. QfsUsable \subseteq QfsIndex
  BY QfsConstants DEF QfsUsable, QfsIndex
<1>2. name \in [QfsUsable -> T]
  <2> SUFFICES ASSUME NEW i \in QfsUsable PROVE f.root[i].name \in T
    OBVIOUS
  <2>1. i \in QfsIndex /\ f.root \in QfsRootSet
    BY <1>1, QfsChipFields DEF QfsGood
  <2>2. f.root[i].name \in QfsName \union {QfsEmpty, QfsMagic}
    BY <2>1, QfsFields
  <2> QED BY <2>1, <2>2 DEF QfsGood, QfsDir, QfsAbsent
<1>3. IsFiniteSet(T) /\ Cardinality(T) = Cardinality(QfsName) - 1 /\ Cardinality(QfsName) \in Nat
  BY FS_RemoveElement, FS_CardinalityType DEF QfsRoom
<1>4. IsFiniteSet(QfsUsable) /\ Cardinality(QfsUsable) = QfsInodes - 1
  <2> DEFINE b == QfsInodes - 2
  <2>1. 0 \in Int /\ b \in Int /\ ~(0 > b) /\ b - 0 + 1 = QfsInodes - 1
    BY QfsConstants
  <2>2. QfsUsable = 0 .. b
    BY DEF QfsUsable
  <2> HIDE DEF b
  <2> QED BY <2>1, <2>2, FS_Interval
<1>5. Cardinality(T) < Cardinality(QfsUsable)
  <2>1. Cardinality(QfsName) < QfsInodes
    BY DEF QfsRoom
  <2> QED BY <1>3, <1>4, <2>1, QfsConstants
<1> HIDE DEF T
<1>6. \E x, y \in QfsUsable : x # y /\ name[x] = name[y]
  <2> HIDE DEF name
  <2> QED BY <1>2, <1>3, <1>4, <1>5, FS_PigeonHole
<1>7. PICK x \in QfsUsable, y \in QfsUsable : x # y /\ f.root[x].name = f.root[y].name
  BY <1>6
<1>8. f.root[x].name \in QfsName
  BY <1>2 DEF T
<1> QED BY <1>1, <1>7, <1>8 DEF QfsGood, QfsDir

(* fs_create finds an unused inode, and only its name is concerned. *)
LEMMA QfsCreated ==
  ASSUME QfsRoom, NEW f, QfsGood(f), NEW n \in QfsName, QfsAbsent(f, n),
         NEW g, g = fs_create(f, n)
  PROVE  /\ fs_created(f) /\ QfsGood(g) /\ g.index \in QfsIndex
         /\ g.root[g.index] = [name |-> n, len |-> 0]
         /\ \A m \in QfsName : m # n => QfsSame(f, g, m)
         /\ \A names, less : /\ QfsSafely(f, names) /\ less \subseteq names \intersect QfsName
                             /\ n \notin less
                             => QfsSafely(g, less)
<1> DEFINE h   == QfsSearch(f, QfsEmpty)
           new == [name |-> n, len |-> 0]
<1>1. PICK j \in QfsUsable : f.root[j].name = QfsEmpty
  BY QfsRoomLeft
<1>2. j \in QfsIndex
  BY QfsConstants DEF QfsUsable, QfsIndex
<1>3. /\ QfsFirst(f, QfsEmpty) \in QfsIndex /\ f.root[QfsFirst(f, QfsEmpty)].name = QfsEmpty
      /\ QfsFirst(f, QfsEmpty) # QfsInodes /\ QfsFirst(f, QfsEmpty) <= j
  BY <1>1, <1>2, QfsFirstFound
<1>4. QfsGood(h) /\ QfsSameStore(f, h) /\ h.index = QfsFirst(f, QfsEmpty)
  BY QfsSearched
<1> HIDE DEF h
<1>5. h.index \in QfsUsable /\ h.index # QfsInodes
  BY <1>1, <1>3, <1>4, QfsConstants DEF QfsIndex, QfsUsable
<1>6. g = QfsEnter(h, new)
  BY <1>5, Zenon DEF fs_create, QfsEnter, h
<1>7. QfsMayEnter(h, new)
  <2>1. new \in QfsInodeSet
    <3> DEFINE all == QfsPages * QfsBlock - 1
    <3>1. all \in Nat
      BY <1>5, QfsLimits
    <3> HIDE DEF all
    <3>2. 0 \in (0 .. all) \union {4}
      BY <3>1
    <3> QED BY <3>2 DEF QfsInodeSet, all
  <2>2. new.name # QfsMagic /\ new.len <= QfsLimit(h.index)
    BY <1>5, QfsLimits, QfsNamesDiffer
  <2>3. \A k \in QfsIndex : h.root[k].name # new.name
    BY <1>4 DEF QfsSameStore, QfsAbsent
  <2> HIDE DEF new
  <2> QED BY <1>5, <2>1, <2>2, <2>3, Zenon DEF QfsMayEnter
<1> DEFINE old == h.root[h.index].name
<1>8. old = QfsEmpty /\ new.name = n
  BY <1>3, <1>4 DEF QfsSameStore
<1>9. QfsGood(g) /\ g.root[h.index] = new /\ g.index = h.index
  BY <1>4, <1>6, <1>7, QfsEntered
<1>10. /\ \A m : m # new.name /\ m # old => QfsSame(h, g, m)
       /\ \A names, less : /\ QfsSafely(h, names) /\ less \subseteq names
                           /\ new.name \notin less /\ old \notin less
                           => QfsSafely(g, less)
  BY <1>4, <1>6, <1>7, QfsEnterKeeps
<1>11. /\ \A m : QfsSame(f, h, m)
       /\ \A names : QfsSafely(f, names) => QfsSafely(h, names)
  BY <1>4, QfsStored DEF QfsGood
<1>12. \A m \in QfsName : m # n => QfsSame(f, g, m)
  <2> SUFFICES ASSUME NEW m \in QfsName, m # n PROVE QfsSame(f, g, m)
    OBVIOUS
  <2>1. QfsSame(h, g, m)
    BY <1>8, <1>10, QfsNamesDiffer
  <2>2. \A q : QfsAt(h, q) = QfsAt(f, q)
    BY <1>4, Zenon DEF QfsSameStore, QfsAt
  <2> QED BY <1>4, <2>1, <2>2, Zenon DEF QfsSame, QfsSameInode, QfsSameStore
<1>13. ASSUME NEW names, NEW less, QfsSafely(f, names), less \subseteq names \intersect QfsName,
              n \notin less
       PROVE  QfsSafely(g, less)
  <2>1. old \notin less /\ new.name \notin less /\ less \subseteq names
    BY <1>8, <1>13, QfsNamesDiffer
  <2> QED BY <1>10, <1>11, <1>13, <2>1
<1>14. fs_created(f) /\ g.index \in QfsIndex
  BY <1>3, <1>4, <1>9 DEF fs_created
<1> QED BY <1>9, <1>12, <1>13, <1>14

(* fs_remove and fs_rename: an inode gets another name and keeps the rest. *)
LEMMA QfsSetNamed ==
  ASSUME NEW f, QfsGood(f), NEW n \in QfsName, NEW to \in QfsName \union {QfsEmpty},
         to \in QfsName => QfsAbsent(f, to), NEW g, g = QfsSetName(f, n, to)
  PROVE  /\ QfsGood(g) /\ (n # to => QfsAbsent(g, n))
         /\ \A i \in QfsIndex : f.root[i].name # n => g.root[i] = f.root[i]
         /\ \A i \in QfsIndex : f.root[i].name = n => g.root[i] = [f.root[i] EXCEPT !.name = to]
         /\ \A q : QfsAt(g, q) = QfsAt(f, q)
         /\ \A m : m # n /\ m # to => QfsSame(f, g, m)
         /\ \A names, less : /\ QfsSafely(f, names) /\ less \subseteq names
                             /\ n \notin less /\ to \notin less
                             => QfsSafely(g, less)
<1> DEFINE h == fs_get_inode(f, n)
<1>1. /\ QfsGood(h) /\ QfsSameStore(f, h)
      /\ fs_found(f, n) <=> QfsFirst(f, n) # QfsInodes
      /\ fs_found(f, n) =>
           /\ h.index \in QfsIndex /\ f.root[h.index].name = n /\ h.inode = f.root[h.index]
  BY QfsGot
<1>2. /\ \A m : QfsSame(f, h, m)
      /\ \A names : QfsSafely(f, names) => QfsSafely(h, names)
  BY <1>1, QfsStored DEF QfsGood
<1>3. \A q : QfsAt(h, q) = QfsAt(f, q)
  BY <1>1, Zenon DEF QfsSameStore, QfsAt
<1>4. h.root = f.root
  BY <1>1, Zenon DEF QfsSameStore
<1> HIDE DEF h
<1>5. CASE fs_found(f, n)
  <2> DEFINE i   == h.index
             new == [h.inode EXCEPT !.name = to]
  <2>1. g = QfsEnter(h, new)
    <3>1. g = [h EXCEPT !.inode.name = to, !.root[h.index] = [h.inode EXCEPT !.name = to],
                        !.rootModified = TRUE]
      BY <1>5, Zenon DEF QfsSetName, h
    <3>2. h \in QfsChips
      BY <1>1 DEF QfsGood
    <3> QED BY <3>1, <3>2, Zenon DEF QfsEnter
  <2>2. i \in QfsIndex /\ f.root[i].name = n /\ h.inode = f.root[i]
    BY <1>1, <1>5
  <2>3. f.root[i] \in QfsInodeSet
    BY <2>2, QfsFields, QfsChipFields DEF QfsGood
  <2>4. new \in QfsInodeSet /\ new.name = to /\ new.len = f.root[i].len
    BY <2>2, <2>3 DEF QfsInodeSet
  <2>5. i \in QfsUsable /\ f.root[i].len <= QfsLimit(i)
    BY <2>2, QfsNamed DEF QfsGood, QfsDir
  <2>6. QfsMayEnter(h, new)
    <3>1. new.name # QfsMagic
      BY <2>4, QfsNamesDiffer
    <3>2. \A k \in QfsIndex : h.root[k].name = new.name /\ new.name \in QfsName => FALSE
      BY <1>4, <2>4 DEF QfsAbsent
    <3> HIDE DEF new, i
    <3> QED BY <2>4, <2>5, <3>1, <3>2, Zenon DEF QfsMayEnter, i
  <2> HIDE DEF new
  <2>7. /\ QfsGood(g) /\ g.root[i] = new
        /\ \A j \in QfsIndex : j # i => g.root[j] = h.root[j]
        /\ \A q : QfsAt(g, q) = QfsAt(h, q)
    BY <1>1, <2>1, <2>6, QfsEntered
  <2>8. /\ \A m : m # new.name /\ m # h.root[i].name => QfsSame(h, g, m)
        /\ \A names, less : /\ QfsSafely(h, names) /\ less \subseteq names
                            /\ new.name \notin less /\ h.root[i].name \notin less
                            => QfsSafely(g, less)
    BY <1>1, <2>1, <2>6, QfsEnterKeeps
  <2>9. \A j \in QfsIndex : f.root[j].name = n <=> j = i
    BY <2>2 DEF QfsGood, QfsDir
  <2>10. n # to => QfsAbsent(g, n)
    BY <1>4, <2>4, <2>7, <2>9 DEF QfsAbsent
  <2>11. /\ \A j \in QfsIndex : f.root[j].name # n => g.root[j] = f.root[j]
         /\ \A j \in QfsIndex : f.root[j].name = n => g.root[j] = [f.root[j] EXCEPT !.name = to]
    BY <1>4, <2>2, <2>7, <2>9 DEF new
  <2>12. \A q : QfsAt(g, q) = QfsAt(f, q)
    BY <1>3, <2>7
  <2>13. \A m : m # n /\ m # to => QfsSame(f, g, m)
    <3> SUFFICES ASSUME NEW m, m # n, m # to PROVE QfsSame(f, g, m)
      OBVIOUS
    <3>1. QfsSame(h, g, m)
      BY <1>4, <2>2, <2>4, <2>8
    <3> QED BY <1>3, <1>4, <3>1, Zenon DEF QfsSame, QfsSameInode
  <2>14. ASSUME NEW names, NEW less, QfsSafely(f, names), less \subseteq names,
                n \notin less, to \notin less
         PROVE  QfsSafely(g, less)
    <3>1. QfsSafely(h, names) /\ new.name \notin less /\ h.root[i].name \notin less
      BY <1>2, <1>4, <2>2, <2>4, <2>14
    <3> QED BY <2>8, <2>14, <3>1
  <2> QED BY <2>7, <2>10, <2>11, <2>12, <2>13, <2>14
<1>6. CASE ~fs_found(f, n)
  <2>1. g = h
    BY <1>6, Zenon DEF QfsSetName, h
  <2>2. QfsAbsent(f, n) /\ QfsAbsent(g, n)
    BY <1>1, <1>4, <1>6, <2>1, QfsFirstMissing DEF QfsAbsent
  <2>3. ASSUME NEW names, NEW less, QfsSafely(f, names), less \subseteq names
        PROVE  QfsSafely(g, less)
    <3>1. QfsSafely(g, names)
      BY <1>2, <2>1, <2>3
    <3>2. \A m \in less : m \in names
      BY <2>3
    <3> QED BY <3>1, <3>2, Zenon DEF QfsSafely
  <2>4. /\ QfsGood(g) /\ \A q : QfsAt(g, q) = QfsAt(f, q)
        /\ \A m : QfsSame(f, g, m)
    BY <1>1, <1>2, <1>3, <2>1
  <2>5. /\ \A i \in QfsIndex : g.root[i] = f.root[i]
        /\ \A i \in QfsIndex : f.root[i].name = n => g.root[i] = [f.root[i] EXCEPT !.name = to]
    BY <1>4, <2>1, <2>2, Zenon DEF QfsAbsent
  <2>6. \A i \in QfsIndex : f.root[i].name # n => g.root[i] = f.root[i]
    BY <2>5
  <2>7. \A names, less : /\ QfsSafely(f, names) /\ less \subseteq names
                         /\ n \notin less /\ to \notin less
                         => QfsSafely(g, less)
    BY <2>3, Zenon
  <2> QED BY ONLY <2>2, <2>4, <2>5, <2>6, <2>7
<1> QED BY <1>5, <1>6

(* fs_init: a formatted chip is loaded, another one is formatted. *)
QfsLoad(c) ==
  [c EXCEPT !.root = c.savedRoot, !.lastpage = 0, !.pageModified = FALSE,
            !.rootModified = FALSE, !.index = 255, !.inode = c.savedRoot[QfsInodes]]

(* fs_init reads the directory, *)
LEMMA QfsLoads ==
  ASSUME NEW c \in QfsChips
  PROVE  LET g == QfsLoad(c)
         IN /\ g \in QfsChips /\ QfsBuffer(g) /\ g.index = 255 /\ g.lastpage = 0
            /\ g.pageModified = FALSE
            /\ g.root = c.savedRoot /\ g.savedRoot = c.savedRoot /\ g.saved = c.saved
            /\ g.inode = c.savedRoot[QfsInodes]
<1> DEFINE g == QfsLoad(c)
           r == c.savedRoot
           i == c.savedRoot[QfsInodes]
<1>1. r \in QfsRootSet
  BY QfsChipFields
<1>2. i \in QfsInodeSet
  BY <1>1, QfsConstants DEF QfsRootSet
<1>3. g = [c EXCEPT !.root = r, !.lastpage = 0, !.pageModified = FALSE,
                    !.rootModified = FALSE, !.index = 255, !.inode = i]
  BY Zenon DEF QfsLoad
<1>4. c.savedRoot = r
  OBVIOUS
<1>5. c \in QfsChips
  OBVIOUS
<1> HIDE DEF g, r, i
<1>6. /\ g.root = r /\ g.lastpage = 0 /\ g.index = 255 /\ g.inode = i /\ g.saved = c.saved
      /\ g.savedRoot = r
  BY ONLY <1>3, <1>4, <1>5, SMT DEF QfsChips
<1>7. g.pageModified = FALSE /\ g.rootModified = FALSE
  BY ONLY <1>3, <1>5, SMT DEF QfsChips
<1>8. g \in QfsChips
  <2>1. 255 \in (0 .. QfsInodes) \union {255} /\ 0 \in {0} \union QfsPage
    OBVIOUS
  <2>2. FALSE \in BOOLEAN
    OBVIOUS
  <2> QED BY ONLY <1>1, <1>2, <1>3, <1>5, <2>1, <2>2, ZenonT(200) DEF QfsChips
<1>9. QfsBuffer(g)
  BY <1>6, <1>7, Zenon DEF QfsBuffer
<1> QED BY <1>6, <1>7, <1>8, <1>9 DEF g, r, i

(* and is done if it finds one; *)
LEMMA QfsLoaded ==
  ASSUME NEW c \in QfsChips, QfsDir(c.savedRoot), NEW g, g = fs_init(c, FALSE)
  PROVE  /\ QfsGood(g) /\ g.root = c.savedRoot /\ g.savedRoot = c.savedRoot
         /\ g.saved = c.saved /\ g.lastpage = 0 /\ g.pageModified = FALSE
<1>1. g = QfsLoad(c)
  <2>1. c.savedRoot[QfsInodes] = QfsFormatted[QfsInodes] /\ ~FALSE
    BY Zenon DEF QfsDir
  <2> QED BY <2>1, Zenon DEF fs_init, QfsLoad
<1>2. /\ g \in QfsChips /\ QfsBuffer(g) /\ g.index = 255 /\ g.lastpage = 0
      /\ g.pageModified = FALSE
      /\ g.root = c.savedRoot /\ g.savedRoot = c.savedRoot /\ g.saved = c.saved
      /\ g.inode = c.savedRoot[QfsInodes]
  <2>1. c \in QfsChips
    OBVIOUS
  <2> QED BY ONLY <1>1, <2>1, QfsLoads
<1>3. g.inode.name \notin QfsName
  <2>1. c.savedRoot[QfsInodes].name = QfsMagic
    BY QfsConstants DEF QfsDir, QfsFormatted
  <2> QED BY <1>2, <2>1, QfsNamesDiffer
<1>4. 255 \notin QfsIndex
  BY QfsConstants DEF QfsIndex
<1>5. QfsCache(g)
  BY <1>2, <1>3, <1>4, Zenon DEF QfsCache
<1> QED BY <1>2, <1>5, Zenon DEF QfsGood

(* The empty directory. *)
LEMMA QfsFormattedDir ==
  /\ QfsFormatted \in QfsRootSet /\ QfsDir(QfsFormatted)
  /\ \A i \in QfsIndex : QfsFormatted[i].name = QfsEmpty
<1>1. \A i \in 0 .. QfsInodes :
        QfsFormatted[i] = [name |-> IF i = QfsInodes THEN QfsMagic ELSE QfsEmpty, len |-> 4]
  BY DEF QfsFormatted
<1>2. QfsFormatted \in QfsRootSet
  <2> DEFINE lens == (0 .. QfsPages * QfsBlock - 1) \union {4}
  <2>1. 4 \in lens
    OBVIOUS
  <2> HIDE DEF lens
  <2> QED BY <2>1, Zenon DEF QfsFormatted, QfsRootSet, QfsInodeSet, lens
<1>3. \A i \in QfsIndex : i \in 0 .. QfsInodes /\ i # QfsInodes
  BY QfsConstants DEF QfsIndex
<1>4. \A i \in QfsIndex : QfsFormatted[i].name = QfsEmpty
  <2> SUFFICES ASSUME NEW i \in QfsIndex PROVE QfsFormatted[i].name = QfsEmpty
    OBVIOUS
  <2>1. QfsFormatted[i] = [name |-> IF i = QfsInodes THEN QfsMagic ELSE QfsEmpty, len |-> 4]
    BY <1>1, <1>3
  <2> QED BY <1>3, <2>1
<1>5. QfsInodes - 1 \in QfsIndex
  BY QfsConstants DEF QfsIndex
<1> QED BY <1>2, <1>4, <1>5, QfsNamesDiffer DEF QfsDir

(* if not, it writes an empty one. *)
LEMMA QfsFormats ==
  ASSUME NEW c \in QfsChips, NEW force \in BOOLEAN,
         force \/ c.savedRoot[QfsInodes] # QfsFormatted[QfsInodes],
         NEW g, g = fs_init(c, force)
  PROVE  /\ QfsGood(g) /\ \A n \in QfsName : QfsAbsent(g, n)
         /\ \A names : QfsSafely(g, names)
<1> DEFINE load == QfsLoad(c)
           new  == [load EXCEPT !.root = QfsFormatted, !.rootModified = TRUE,
                                !.inode = QfsFormatted[0]]
<1>1. g = fs_sync(new)
  <2>1. ~(c.savedRoot[QfsInodes] = QfsFormatted[QfsInodes] /\ ~force)
    OBVIOUS
  <2> QED BY <2>1, Zenon DEF fs_init, QfsLoad
<1>2. /\ load \in QfsChips /\ load.index = 255 /\ load.lastpage = 0
      /\ load.pageModified = FALSE
  BY QfsLoads
<1> HIDE DEF load
<1>3. QfsFormatted[0] \in QfsInodeSet /\ QfsFormatted[0].name = QfsEmpty
  <2>1. 0 \in QfsIndex
    BY QfsConstants DEF QfsIndex
  <2> QED BY <2>1, QfsFormattedDir, QfsFields
<1> DEFINE i == QfsFormatted[0]
<1>4. i \in QfsInodeSet /\ i.name = QfsEmpty
  BY <1>3
<1>5. new = [load EXCEPT !.root = QfsFormatted, !.rootModified = TRUE, !.inode = i]
  BY Zenon
<1> HIDE DEF i, new
<1>6. load \in QfsChips
  BY <1>2
<1>7. /\ new.root = QfsFormatted /\ new.inode = i /\ new.index = load.index
      /\ new.lastpage = load.lastpage
  BY ONLY <1>5, <1>6, SMT DEF QfsChips
<1>8. new.rootModified = TRUE /\ new.pageModified = load.pageModified
  BY ONLY <1>5, <1>6, SMT DEF QfsChips
<1>9. new \in QfsChips
  <2>1. TRUE \in BOOLEAN /\ QfsFormatted \in QfsRootSet /\ i \in QfsInodeSet
    BY <1>4, QfsFormattedDir
  <2> QED BY ONLY <1>5, <1>6, <2>1, Zenon DEF QfsChips
<1>10. QfsReady(new)
  <2>1. QfsBuffer(new)
    BY <1>2, <1>7, <1>8, Zenon DEF QfsBuffer
  <2>2. 255 \notin QfsIndex /\ QfsEmpty \notin QfsName
    BY QfsConstants, QfsNamesDiffer DEF QfsIndex
  <2>3. QfsCache(new)
    BY <1>2, <1>4, <1>7, <2>2 DEF QfsCache
  <2> QED BY <1>7, <1>9, <2>1, <2>3, QfsFormattedDir, Zenon DEF QfsReady
<1>11. QfsGood(g) /\ g.root = QfsFormatted
  BY <1>1, <1>7, <1>10, QfsSynced
<1>12. \A names : QfsSafely(g, names)
  BY <1>1, <1>10, QfsSyncKeeps
<1>13. \A n \in QfsName : QfsAbsent(g, n)
  BY <1>11, QfsFormattedDir, QfsNamesDiffer DEF QfsAbsent
<1> QED BY <1>11, <1>12, <1>13

(* Being as before is transitive and reflexive. *)
LEMMA QfsSameTrans ==
  ASSUME NEW f, NEW g, NEW h, NEW n, QfsSame(f, g, n), QfsSame(g, h, n)
  PROVE  QfsSame(f, h, n)
<1> SUFFICES ASSUME NEW i \in QfsIndex, f.root[i].name = n \/ h.root[i].name = n
             PROVE  QfsSameInode(f, h, i)
  BY Zenon DEF QfsSame
<1>1. CASE f.root[i].name = n
  <2>1. QfsSameInode(f, g, i)
    BY <1>1 DEF QfsSame
  <2>2. QfsSameInode(g, h, i)
    BY <1>1, <2>1, Zenon DEF QfsSame, QfsSameInode
  <2> QED BY <2>1, <2>2, Zenon DEF QfsSameInode
<1>2. CASE h.root[i].name = n
  <2>1. QfsSameInode(g, h, i)
    BY <1>2 DEF QfsSame
  <2>2. QfsSameInode(f, g, i)
    BY <1>2, <2>1, Zenon DEF QfsSame, QfsSameInode
  <2> QED BY <2>1, <2>2, Zenon DEF QfsSameInode
<1> QED BY <1>1, <1>2

LEMMA QfsSameRefl == ASSUME NEW f, NEW n PROVE QfsSame(f, f, n)
  BY Zenon DEF QfsSame, QfsSameInode

(* The next start after a power failure: c is the chip with what had been  *)
(* saved, or also with the page in BUF1.                                   *)
LEMMA QfsPowerFails ==
  ASSUME NEW f, QfsGood(f), NEW names, names \subseteq QfsName, QfsSafely(f, names),
         NEW c \in QfsChips, c.savedRoot = f.savedRoot,
         c.saved = f.saved \/ \A q \in QfsPage : c.saved[q] = QfsAt(f, q),
         NEW g, g = fs_init(c, FALSE)
  PROVE  QfsGood(g) /\ \A n \in names : QfsSame(f, g, n)
<1>1. /\ QfsGood(g) /\ g.root = f.savedRoot /\ g.savedRoot = f.savedRoot
      /\ g.saved = c.saved /\ g.lastpage = 0
  BY QfsLoaded DEF QfsGood
<1>2. \A q \in QfsPage : QfsAt(g, q) = c.saved[q]
  BY <1>1, QfsPageNotRoot DEF QfsAt
<1>3. ASSUME NEW n \in names PROVE QfsSame(f, g, n)
  <2> SUFFICES ASSUME NEW i \in QfsIndex, f.root[i].name = n \/ g.root[i].name = n
               PROVE  QfsSameInode(f, g, i)
    BY Zenon DEF QfsSame
  <2>1. f.root[i] = f.savedRoot[i] /\ (f.pageModified => f.lastpage \notin QfsPagesOf(i))
    BY <1>1, <1>3 DEF QfsSafely
  <2>2. f.root[i].name = n
    BY <1>1, <2>1
  <2>3. i \in QfsUsable
    <3>1. f.root[i].name \in QfsName
      BY <2>2
    <3> QED BY <3>1, QfsNamed DEF QfsGood
  <2>4. QfsPagesOf(i) \subseteq QfsPage
    BY <2>3, QfsPagesRange
  <2>5. ASSUME NEW q \in QfsPagesOf(i) PROVE QfsAt(g, q) = QfsAt(f, q)
    <3>1. q \in QfsPage
      BY <2>4
    <3>2. CASE c.saved = f.saved
      <4>1. QfsAt(g, q) = f.saved[q]
        BY <1>2, <3>1, <3>2
      <4>2. CASE q = f.lastpage
        <5>1. ~f.pageModified /\ f.lastpage # 0
          BY <2>1, <3>1, <4>2, QfsPageNotRoot
        <5>2. f.buf1 = f.saved[f.lastpage]
          BY <5>1, Zenon DEF QfsGood, QfsBuffer
        <5> QED BY <4>1, <4>2, <5>2 DEF QfsAt
      <4>3. CASE q # f.lastpage
        BY <4>1, <4>3 DEF QfsAt
      <4> QED BY <4>2, <4>3
    <3>3. CASE \A p \in QfsPage : c.saved[p] = QfsAt(f, p)
      BY <1>2, <3>1, <3>3
    <3> QED BY <3>2, <3>3
  <2> QED BY <1>1, <2>1, <2>5, Zenon DEF QfsSameInode
<1> QED BY <1>1, <1>3

(* Contents as sequences. *)
LEMMA QfsContentSeq ==
  ASSUME NEW f, QfsGood(f), NEW i \in QfsIndex, f.root[i].name \in QfsName
  PROVE  /\ i \in QfsUsable /\ f.root[i].len \in Nat /\ f.root[i].len <= QfsLimit(i)
         /\ QfsContent(f, i) \in Seq(QfsContents)
         /\ Len(QfsContent(f, i)) = f.root[i].len
<1>1. i \in QfsUsable
  BY QfsNamed DEF QfsGood
<1>2. f.root[i].len \in Nat /\ f.root[i].len <= QfsLimit(i)
  BY QfsFields, QfsChipFields DEF QfsGood, QfsDir
<1> DEFINE len == f.root[i].len
           cell(k) == QfsCell(f, i, k)
<1>3. ASSUME NEW k \in 1 .. len PROVE cell(k) \in QfsContents
  <2>1. offset2page(i, k - 1) \in QfsPage /\ k - 1 \in Nat
    BY <1>1, <1>2, QfsCellPage
  <2>2. QfsAt(f, offset2page(i, k - 1)) \in QfsPageSet
    BY <2>1, QfsChipFields DEF QfsGood, QfsAt
  <2>3. ((k - 1) % QfsBlock) + 1 \in 1 .. QfsBlock
    <3> DEFINE m == k - 1
    <3>1. m \in Nat /\ QfsBlock \in Nat \ {0}
      BY <2>1, QfsConstants
    <3> HIDE DEF m
    <3>2. m % QfsBlock \in 0 .. QfsBlock - 1
      BY <3>1, QfsDivision
    <3> QED BY <3>1, <3>2 DEF m
  <2> QED BY <2>2, <2>3 DEF QfsCell, QfsPageSet
<1>4. QfsContent(f, i) = [k \in 1 .. len |-> cell(k)]
  BY DEF QfsContent
<1>5. len \in Nat
  BY <1>2
<1> HIDE DEF len, cell
<1>6. QfsContent(f, i) \in Seq(QfsContents) /\ Len(QfsContent(f, i)) = len
  BY <1>3, <1>4, <1>5
<1> QED BY <1>1, <1>2, <1>6 DEF len

(* What a name without an inode, with one, and with an empty one has. *)
LEMMA QfsFileContents ==
  ASSUME NEW f, QfsGood(f), NEW n \in QfsName
  PROVE  /\ QfsAbsent(f, n) => QfsFile(f, n) = QfsNone
         /\ ~QfsAbsent(f, n) => QfsFile(f, n) # QfsNone
         /\ \A i \in QfsIndex : f.root[i].name = n =>
              QfsFile(f, n) = QfsContent(f, i) /\ (f.root[i].len = 0 => QfsFile(f, n) = << >>)
<1>1. QfsAbsent(f, n) => QfsFile(f, n) = QfsNone
  BY QfsFileNone DEF QfsAbsent
<1>2. ASSUME NEW i \in QfsIndex, f.root[i].name = n
      PROVE  /\ QfsFile(f, n) = QfsContent(f, i) /\ QfsFile(f, n) # QfsNone
             /\ f.root[i].len = 0 => QfsFile(f, n) = << >>
  <2>1. QfsFile(f, n) = QfsContent(f, i)
    BY <1>2, QfsFileAt DEF QfsGood
  <2>2. QfsContent(f, i) \in Seq(QfsContents) /\ Len(QfsContent(f, i)) = f.root[i].len
    BY <1>2, QfsContentSeq
  <2>3. QfsNone \notin Seq(QfsContents)
    BY QfsAssumption, Zenon DEF QfsAssumption, QfsContents
  <2> QED BY <2>1, <2>2, <2>3
<1> QED BY <1>1, <1>2 DEF QfsAbsent

-----------------------------------------------------------------------------

(* log_init opens the log, or creates an empty one. *)
LEMMA QfsLogOpened ==
  ASSUME QfsRoom, NEW f, QfsGood(f), NEW l, l = log_init(f)
  PROVE  /\ QfsGood(l.fs) /\ l.fd \in QfsIndex /\ l.offset \in Nat
         /\ l.fs.root[l.fd] = [name |-> Syslog, len |-> l.offset]
         /\ \A n \in QfsName : n # Syslog => QfsSame(f, l.fs, n)
         /\ \A names : QfsSafely(f, names) => QfsSafely(l.fs, names)
         /\ ~QfsAbsent(f, Syslog) => QfsSame(f, l.fs, Syslog)
         /\ QfsAbsent(f, Syslog) => l.offset = 0 /\ QfsSafely(l.fs, QfsName)
<1> DEFINE g == fs_get_inode(f, Syslog)
           h == fs_create(g, Syslog)
<1>0. Syslog \in QfsName
  <2>1. 1 \in DOMAIN QfsLog
    BY QfsAssumption DEF QfsAssumption
  <2> QED BY <2>1, Zenon DEF QfsName, QfsLogNames, Syslog
<1>1. /\ QfsGood(g) /\ QfsSameStore(f, g)
      /\ fs_found(f, Syslog) <=> QfsFirst(f, Syslog) # QfsInodes
      /\ fs_found(f, Syslog) =>
           /\ g.index \in QfsIndex /\ f.root[g.index].name = Syslog
           /\ g.inode = f.root[g.index]
  BY <1>0, QfsGot
<1>2. /\ \A n : QfsSame(f, g, n)
      /\ \A names : QfsSafely(f, names) => QfsSafely(g, names)
  BY <1>1, QfsStored DEF QfsGood
<1>3. fs_found(f, Syslog) <=> ~QfsAbsent(f, Syslog)
  BY <1>1, QfsFirstMissing DEF QfsAbsent
<1> HIDE DEF g
<1>4. CASE fs_found(f, Syslog)
  <2>1. l = [fs |-> g, fd |-> g.index, offset |-> g.inode.len]
    BY <1>4, Zenon DEF log_init, g
  <2>2. l.fs = g /\ l.fd = g.index /\ l.offset = g.inode.len
    BY <2>1
  <2>3. /\ f.root[g.index] = [name |-> Syslog, len |-> f.root[g.index].len]
        /\ f.root[g.index].len \in Nat
    BY <1>1, <1>4, QfsFields, QfsChipFields DEF QfsGood
  <2>4. g.root[g.index] = [name |-> Syslog, len |-> l.offset] /\ l.offset \in Nat
    BY <1>1, <1>4, <2>2, <2>3 DEF QfsSameStore
  <2> QED BY <1>1, <1>2, <1>3, <1>4, <2>2, <2>4
<1>5. CASE ~fs_found(f, Syslog)
  <2>1. QfsAbsent(g, Syslog)
    BY <1>1, <1>3, <1>5 DEF QfsAbsent, QfsSameStore
  <2>2. /\ fs_created(g) /\ QfsGood(h) /\ h.index \in QfsIndex
        /\ h.root[h.index] = [name |-> Syslog, len |-> 0]
        /\ \A m \in QfsName : m # Syslog => QfsSame(g, h, m)
    BY <1>0, <1>1, <2>1, QfsCreated
  <2> HIDE DEF h
  <2>3. l = [fs |-> fs_sync(h), fd |-> h.index, offset |-> 0]
    BY <1>5, <2>2, Zenon DEF log_init, g, h
  <2> DEFINE s == fs_sync(h)
  <2>4. QfsReady(h)
    BY <2>2, Zenon DEF QfsGood, QfsReady
  <2>5. QfsGood(s) /\ s.root = h.root
    BY <2>4, QfsSynced
  <2>6. /\ \A n \in QfsName : QfsSame(h, s, n)
        /\ \A names : QfsSafely(s, names)
    BY <2>4, QfsSyncKeeps
  <2> HIDE DEF s
  <2>7. l.fs = s /\ l.fd = h.index /\ l.offset = 0
    BY <2>3 DEF s
  <2>8. \A n \in QfsName : n # Syslog => QfsSame(f, s, n)
    BY <1>2, <2>2, <2>6, QfsSameTrans
  <2> QED BY <1>3, <1>5, <2>2, <2>5, <2>6, <2>7, <2>8
<1> QED BY <1>4, <1>5

(* Writing to BUF1 leaves the directory as it is. *)
LEMMA QfsSameDirGood ==
  ASSUME NEW f, QfsGood(f), NEW g \in QfsChips, QfsSameDir(f, g), QfsBuffer(g)
  PROVE  QfsGood(g)
  BY Zenon DEF QfsGood, QfsSameDir, QfsCache

(* cache_last_inode caches the inode that is written. *)
LEMMA QfsLastCached ==
  ASSUME NEW f, QfsGood(f), NEW i \in QfsIndex, NEW g, g = cache_last_inode(f, i)
  PROVE  /\ QfsGood(g) /\ QfsSameStore(f, g) /\ g.index = i /\ g.inode = f.root[i]
<1>1. CASE f.index = i
  <2>1. g = f
    BY <1>1, Zenon DEF cache_last_inode
  <2>2. f.inode = f.root[i]
    BY <1>1, Zenon DEF QfsGood, QfsCache
  <2> QED BY <1>1, <2>1, <2>2, Zenon DEF QfsSameStore
<1>2. CASE f.index # i
  <2>1. g = QfsCaching(f, i, i)
    BY <1>2, Zenon DEF cache_last_inode, QfsCaching
  <2>2. i \in (0 .. QfsInodes) \union {255} /\ i \in 0 .. QfsInodes
    BY QfsConstants DEF QfsIndex
  <2>3. QfsMayCache(f, i, i)
    BY <2>2, Zenon DEF QfsMayCache
  <2>4. QfsGood(f)
    OBVIOUS
  <2>5. /\ g \in QfsChips /\ QfsSameStore(f, g) /\ QfsCache(g) /\ g.index = i
        /\ g.inode = f.root[i]
    BY ONLY <2>1, <2>3, <2>4, QfsRecached
  <2> QED BY <2>5, QfsStored
<1> QED BY <1>1, <1>2

(* The pages of k cells behind the off cells of a file: one or two.        *)
LEMMA QfsWritten ==
  ASSUME NEW i \in QfsUsable, NEW off \in Nat, NEW k \in 1 .. 2, off + k <= QfsLimit(i)
  PROVE  /\ offset2page(i, off) \in QfsPagesOf(i) /\ offset2page(i, off) \in QfsPage
         /\ offset2page(i, off) \in Nat
         /\ off % QfsBlock \in 0 .. QfsBlock - 1
         /\ (off % QfsBlock) + k > QfsBlock =>
              offset2page(i, off) + 1 \in QfsPagesOf(i) /\ offset2page(i, off) + 1 \in QfsPage
         /\ \A m \in 0 .. off - 1 :
              \/ offset2page(i, m) = offset2page(i, off) /\ m % QfsBlock < off % QfsBlock
              \/ offset2page(i, m) < offset2page(i, off) /\ offset2page(i, m) \in Nat
         /\ \A t \in 0 .. k - 1 :
              \/ /\ (off % QfsBlock) + t < QfsBlock
                 /\ offset2page(i, off + t) = offset2page(i, off)
                 /\ (off + t) % QfsBlock = (off % QfsBlock) + t
              \/ /\ (off % QfsBlock) + t >= QfsBlock
                 /\ offset2page(i, off + t) = offset2page(i, off) + 1
                 /\ (off + t) % QfsBlock = ((off % QfsBlock) + t) - QfsBlock
<1> DEFINE all  == QfsPages * QfsBlock
           from == off % QfsBlock
           base == 1 + i * QfsPages
           p(m) == offset2page(i, m)
<1>1. QfsLimit(i) = all - 1 /\ all \in Nat
  BY QfsLimits, QfsConstants, SMT
<1> HIDE DEF all
<1>2. \A m \in 0 .. off + k - 1 : m \in Nat /\ m < all
  BY <1>1
<1>3. base \in Nat /\ QfsBlock \in Nat \ {0}
  BY QfsConstants, SMT DEF QfsUsable
<1>4. \A m \in 0 .. off + k - 1 :
        /\ m \div QfsBlock \in 0 .. QfsPages - 1
        /\ p(m) = base + m \div QfsBlock
        /\ p(m) \in QfsPagesOf(i) /\ p(m) \in QfsPage
  BY <1>2, QfsPageOf DEF all
<1> HIDE DEF p, base
<1>5. off \in 0 .. off + k - 1
  OBVIOUS
<1>6. from \in 0 .. QfsBlock - 1 /\ from \in Nat
  BY <1>3, QfsDivision
<1>7. p(off) \in Nat
  BY <1>3, <1>4, <1>5
<1>8. ASSUME NEW m \in 0 .. off - 1
      PROVE  \/ p(m) = p(off) /\ m % QfsBlock < from
             \/ p(m) < p(off) /\ p(m) \in Nat
  <2> DEFINE a == m \div QfsBlock
             b == off \div QfsBlock
  <2>1. m \in 0 .. off + k - 1 /\ m \in Nat /\ m < off
    OBVIOUS
  <2>2. (a = b /\ m % QfsBlock < from) \/ a < b
    BY <1>3, <2>1, QfsEarlier
  <2>3. p(m) = base + a /\ p(off) = base + b /\ a \in Nat /\ b \in Nat
    BY <1>4, <1>5, <2>1
  <2> HIDE DEF a, b, from
  <2> QED BY <1>3, <2>2, <2>3
<1>9. ASSUME NEW t \in 0 .. k - 1
      PROVE  \/ from + t < QfsBlock /\ p(off + t) = p(off) /\ (off + t) % QfsBlock = from + t
             \/ /\ from + t >= QfsBlock /\ p(off + t) = p(off) + 1
                /\ (off + t) % QfsBlock = (from + t) - QfsBlock
  <2> DEFINE m == off + t
             a == m \div QfsBlock
             b == off \div QfsBlock
  <2>1. m \in 0 .. off + k - 1 /\ t \in Nat /\ t <= 1
    OBVIOUS
  <2>2. from + t < QfsBlock + QfsBlock
    BY <1>6, <2>1, QfsConstants
  <2>3. /\ from + t < QfsBlock => a = b /\ m % QfsBlock = from + t
        /\ from + t >= QfsBlock => a = b + 1 /\ m % QfsBlock = (from + t) - QfsBlock
    BY <1>3, <2>1, <2>2, QfsNextInBlock
  <2>4. p(m) = base + a /\ p(off) = base + b /\ a \in Nat /\ b \in Nat
    BY <1>4, <1>5, <2>1
  <2>5. from + t < QfsBlock \/ from + t >= QfsBlock
    BY <1>6, <2>1, QfsConstants
  <2> HIDE DEF a, b, from, m
  <2>6. \/ from + t < QfsBlock /\ p(m) = p(off) /\ m % QfsBlock = from + t
        \/ /\ from + t >= QfsBlock /\ p(m) = p(off) + 1
           /\ m % QfsBlock = (from + t) - QfsBlock
    BY <1>3, <2>3, <2>4, <2>5
  <2> QED BY <2>6 DEF m
<1>10. ASSUME from + k > QfsBlock PROVE p(off) + 1 \in QfsPagesOf(i) /\ p(off) + 1 \in QfsPage
  <2> DEFINE t == k - 1
  <2>1. t \in 0 .. k - 1 /\ off + t \in 0 .. off + k - 1 /\ from + t >= QfsBlock
    BY <1>6, <1>10, QfsConstants
  <2>2. p(off + t) = p(off) + 1
    BY <1>9, <2>1, <1>6, QfsConstants
  <2> QED BY <1>4, <2>1, <2>2
<1> QED BY <1>4, <1>5, <1>6, <1>7, <1>8, <1>9, <1>10 DEF p

(* The m-th cell of inode i, counted from 0. *)
QfsCellAt(f, i, m) == QfsAt(f, offset2page(i, m))[(m % QfsBlock) + 1]

(* The pages fs_write writes behind the end of a file: the first holds     *)
(* cells already, unless it is a new one.                                  *)
QfsPuts(h, i, off, k, c) ==
  LET page  == offset2page(i, off)
      from  == off % QfsBlock
      first == QfsPut(h, page, from # 0, from + 1 .. from + k, c)
  IN IF from + k > QfsBlock
     THEN QfsPut(first, page + 1, FALSE, 1 .. from + k - QfsBlock, c)
     ELSE first

(* k cells are added behind the first off of inode i, and no page of       *)
(* another inode is touched.                                               *)
QfsPutsDone(h, i, off, k, c, g) ==
  /\ QfsGood(g) /\ QfsSameDir(h, g) /\ g.lastpage \in QfsPagesOf(i)
  /\ \A q \in QfsPage : q \notin QfsPagesOf(i) => QfsAt(g, q) = QfsAt(h, q)
  /\ \A m \in 0 .. off - 1 : QfsCellAt(g, i, m) = QfsCellAt(h, i, m)
  /\ \A t \in 0 .. k - 1 : QfsCellAt(g, i, off + t) = c

(* The cells written end up where they belong, on one page or on two, and  *)
(* all other cells keep their contents.                                    *)
LEMMA QfsPutCells ==
  ASSUME NEW h, QfsGood(h), NEW i \in QfsUsable, NEW off \in Nat, NEW k \in 1 .. 2,
         off + k <= QfsLimit(i), NEW c \in QfsContents
  PROVE  QfsPutsDone(h, i, off, k, c, QfsPuts(h, i, off, k, c))
<1> DEFINE page  == offset2page(i, off)
           from  == off % QfsBlock
           load  == from # 0
           more  == FALSE
           cells == from + 1 .. from + k
           rest  == 1 .. from + k - QfsBlock
           first == QfsPut(h, page, load, cells, c)
           last  == IF from + k > QfsBlock THEN QfsPut(first, page + 1, more, rest, c) ELSE first
<1>a. QfsPuts(h, i, off, k, c) = last
  BY Zenon DEF QfsPuts
<1>b. page = offset2page(i, off) /\ from = off % QfsBlock /\ (from # 0 => load)
      /\ first = QfsPut(h, page, load, cells, c)
      /\ load \in BOOLEAN /\ more \in BOOLEAN
      /\ last = IF from + k > QfsBlock THEN QfsPut(first, page + 1, more, rest, c) ELSE first
  OBVIOUS
<1> HIDE DEF page, from, load, more, first, last
<1>1. /\ page \in QfsPagesOf(i) /\ page \in QfsPage /\ page \in Nat
      /\ from \in 0 .. QfsBlock - 1
      /\ from + k > QfsBlock => page + 1 \in QfsPagesOf(i) /\ page + 1 \in QfsPage
  BY <1>b, QfsWritten
<1>2. \A m \in 0 .. off - 1 :
        \/ offset2page(i, m) = page /\ m % QfsBlock < from
        \/ offset2page(i, m) < page /\ offset2page(i, m) \in Nat
  BY <1>b, QfsWritten
<1>3. \A t \in 0 .. k - 1 :
        \/ from + t < QfsBlock /\ offset2page(i, off + t) = page /\ (off + t) % QfsBlock = from + t
        \/ /\ from + t >= QfsBlock /\ offset2page(i, off + t) = page + 1
           /\ (off + t) % QfsBlock = (from + t) - QfsBlock
  BY <1>b, QfsWritten
<1>4. \A m \in 0 .. off - 1 : offset2page(i, m) \in QfsPage /\ m % QfsBlock \in 0 .. QfsBlock - 1
  <2> SUFFICES ASSUME NEW m \in 0 .. off - 1
               PROVE  offset2page(i, m) \in QfsPage /\ m % QfsBlock \in 0 .. QfsBlock - 1
    OBVIOUS
  <2> DEFINE n == m + 1
  <2>0. QfsLimit(i) \in Nat
    BY QfsLimits
  <2>1. n \in 1 .. off /\ off <= QfsLimit(i) /\ n - 1 = m /\ m \in Nat
    <3> DEFINE limit == QfsLimit(i)
    <3>1. limit \in Nat /\ off + k <= limit
      BY <2>0
    <3> HIDE DEF limit
    <3>2. off <= limit
      BY <3>1
    <3> QED BY <3>2 DEF limit
  <2> HIDE DEF n
  <2>2. offset2page(i, n - 1) \in QfsPage
    BY <2>1, QfsCellPage
  <2>3. m % QfsBlock \in 0 .. QfsBlock - 1
    <3>1. QfsBlock \in Nat \ {0} /\ m \in Nat
      BY <2>1, QfsConstants
    <3> QED BY <3>1, QfsDivision
  <2> QED BY <2>1, <2>2, <2>3
<1>5. h \in QfsChips /\ QfsBuffer(h)
  BY DEF QfsGood
<1>6. /\ first \in QfsChips /\ QfsSameDir(h, first) /\ QfsBuffer(first)
      /\ first.lastpage = page
      /\ \A q \in QfsPage : q # page => QfsAt(first, q) = QfsAt(h, q)
      /\ \A j \in 1 .. QfsBlock : j \in cells => QfsAt(first, page)[j] = c
      /\ \A j \in 1 .. QfsBlock : load /\ j \notin cells => QfsAt(first, page)[j] = QfsAt(h, page)[j]
  <2> HIDE DEF cells
  <2>1. first = QfsPut(h, page, load, cells, c)
    BY <1>b
  <2>2. page \in QfsPage /\ load \in BOOLEAN /\ c \in QfsContents
    BY <1>1, <1>b
  <2>3. QfsPutDone(h, page, load, cells, c, QfsPut(h, page, load, cells, c))
    BY ONLY <1>5, <2>2, QfsPutPage
  <2> QED BY ONLY <2>1, <2>3, Zenon DEF QfsPutDone
<1>7. QfsGood(first)
  BY <1>6, QfsSameDirGood
<1>8. /\ QfsGood(last) /\ QfsSameDir(h, last) /\ last.lastpage \in QfsPagesOf(i)
      /\ \A q \in QfsPage : q # page /\ q # page + 1 => QfsAt(last, q) = QfsAt(h, q)
      /\ QfsAt(last, page) = QfsAt(first, page)
      /\ from + k > QfsBlock =>
           \A j \in 1 .. QfsBlock : j \in rest => QfsAt(last, page + 1)[j] = c
      /\ from + k <= QfsBlock => last = first
  <2>1. CASE from + k <= QfsBlock
    <3>1. last = first
      <4>1. ~(from + k > QfsBlock)
        BY <1>1, <2>1, QfsConstants
      <4> QED BY <1>b, <4>1, Zenon
    <3>2. ~(from + k > QfsBlock)
      BY <1>1, <2>1, QfsConstants
    <3>3. last.lastpage \in QfsPagesOf(i)
      BY <1>1, <1>6, <3>1
    <3> QED BY <1>6, <1>7, <2>1, <3>1, <3>2, <3>3
  <2>2. CASE from + k > QfsBlock
    <3>1. last = QfsPut(first, page + 1, more, rest, c)
      BY <1>b, <2>2, Zenon
    <3> DEFINE next == page + 1
    <3>2. next \in QfsPage /\ next \in QfsPagesOf(i) /\ next # page
      BY <1>1, <2>2
    <3>3. last = QfsPut(first, next, more, rest, c)
      BY <3>1
    <3> HIDE DEF next, rest
    <3>4. /\ last \in QfsChips /\ QfsSameDir(first, last) /\ QfsBuffer(last)
          /\ last.lastpage = next
          /\ \A q \in QfsPage : q # next => QfsAt(last, q) = QfsAt(first, q)
          /\ \A j \in 1 .. QfsBlock : j \in rest => QfsAt(last, next)[j] = c
      <4>1. more \in BOOLEAN /\ c \in QfsContents /\ first \in QfsChips /\ QfsBuffer(first)
        BY <1>6, <1>b
      <4>2. QfsPutDone(first, next, more, rest, c, QfsPut(first, next, more, rest, c))
        BY ONLY <3>2, <4>1, QfsPutPage
      <4> QED BY ONLY <3>3, <4>2, Zenon DEF QfsPutDone
    <3>5. QfsGood(last)
      BY <1>7, <3>4, QfsSameDirGood
    <3>6. QfsSameDir(h, last)
      BY <1>6, <3>4, Zenon DEF QfsSameDir
    <3>7. \A q \in QfsPage : q # page /\ q # next => QfsAt(last, q) = QfsAt(h, q)
      BY <1>6, <3>4
    <3>8. QfsAt(last, page) = QfsAt(first, page)
      BY <1>1, <3>2, <3>4
    <3>9. ~(from + k <= QfsBlock)
      BY <1>1, <2>2, QfsConstants
    <3> QED BY <3>2, <3>4, <3>5, <3>6, <3>7, <3>8, <3>9 DEF next
  <2> QED BY <1>1, <2>1, <2>2, QfsConstants
<1>9. \A q \in QfsPage : q \notin QfsPagesOf(i) => QfsAt(last, q) = QfsAt(h, q)
  <2>1. CASE from + k > QfsBlock
    BY <1>1, <1>8, <2>1
  <2>2. CASE from + k <= QfsBlock
    BY <1>1, <1>6, <1>8, <2>2
  <2> QED BY <1>1, <2>1, <2>2, QfsConstants
<1>10. ASSUME NEW m \in 0 .. off - 1 PROVE QfsCellAt(last, i, m) = QfsCellAt(h, i, m)
  <2> DEFINE p == offset2page(i, m)
             j == (m % QfsBlock) + 1
  <2>1. p \in QfsPage /\ j \in 1 .. QfsBlock
    BY <1>4, QfsConstants
  <2>2. CASE p = page /\ m % QfsBlock < from
    <3>1. j <= from /\ from # 0
      BY <1>1, <1>4, <2>2
    <3>2. load /\ j \notin cells
      BY <1>1, <1>b, <2>1, <3>1
    <3>3. QfsAt(first, page)[j] = QfsAt(h, page)[j]
      BY <1>6, <2>1, <3>2
    <3> QED BY <1>8, <2>2, <3>3 DEF QfsCellAt
  <2>3. CASE p < page /\ p \in Nat
    <3>1. p # page /\ p # page + 1
      BY <1>1, <2>3
    <3>2. QfsAt(last, p) = QfsAt(h, p)
      BY <1>8, <2>1, <3>1
    <3> QED BY <3>2 DEF QfsCellAt
  <2> QED BY <1>2, <2>2, <2>3
<1>11. ASSUME NEW t \in 0 .. k - 1 PROVE QfsCellAt(last, i, off + t) = c
  <2> DEFINE p == offset2page(i, off + t)
             m == (off + t) % QfsBlock
  <2>1. CASE from + t < QfsBlock /\ p = page /\ m = from + t
    <3>1. m + 1 \in 1 .. QfsBlock /\ m + 1 \in cells
      BY <1>1, <2>1, QfsConstants
    <3>2. QfsAt(last, page)[m + 1] = c
      BY <1>6, <1>8, <3>1
    <3> QED BY <2>1, <3>2 DEF QfsCellAt
  <2>2. CASE from + t >= QfsBlock /\ p = page + 1 /\ m = (from + t) - QfsBlock
    <3>1. from + k > QfsBlock /\ m + 1 \in 1 .. QfsBlock /\ m + 1 \in rest
      <4> HIDE DEF m
      <4> QED BY <1>1, <2>2, QfsConstants
    <3>2. QfsAt(last, page + 1)[m + 1] = c
      BY <1>8, <3>1
    <3> QED BY <2>2, <3>2 DEF QfsCellAt
  <2> QED BY <1>3, <2>1, <2>2
<1>12. QfsPutsDone(h, i, off, k, c, last)
  BY <1>8, <1>9, <1>10, <1>11, Zenon DEF QfsPutsDone
<1> QED BY <1>12, <1>a

(* fs_write behind the end of a file: the inode is entered with its new    *)
(* length, then one or two pages are written.                              *)
LEMMA QfsWriteSteps ==
  ASSUME NEW f, QfsGood(f), NEW i \in QfsIndex, NEW n \in QfsName, NEW off \in Nat,
         f.root[i] = [name |-> n, len |-> off], NEW k \in 1 .. 2, off + k <= QfsLimit(i),
         NEW c \in QfsContents,
         NEW g, g = cache_last_inode(f, i),
         NEW new, new = [name |-> n, len |-> off + k],
         NEW h, h = QfsEnter(g, new)
  PROVE  fs_write(f, i, off, k, c) = QfsPuts(h, i, off, k, c)
<1> DEFINE gg == cache_last_inode(f, i)
           page == offset2page(i, off)
           from == off % QfsBlock
           old  == gg.inode.len
           past == offset2page(i, old) + (IF old % QfsBlock = 0 THEN 0 ELSE 1)
           entered == [gg EXCEPT !.inode.len = off + k, !.root[i].len = off + k,
                                 !.rootModified = TRUE]
           hh == IF old < off + k THEN entered ELSE gg
           Put(d, p, cells) ==
             [cache_page(d, p, past > p) EXCEPT
                !.buf1 = [j \in 1 .. QfsBlock |-> IF j \in cells THEN c ELSE @[j]],
                !.pageModified = TRUE]
           one == Put(hh, page, from + 1 .. from + k)
           two == Put(one, page + 1, 1 .. from + k - QfsBlock)
<1>1. fs_write(f, i, off, k, c) = IF off + k > QfsLimit(i) THEN f
                                  ELSE IF from + k > QfsBlock THEN two ELSE one
  BY Zenon DEF fs_write
<1>2. QfsGood(g) /\ QfsSameStore(f, g) /\ g.index = i /\ g.inode = f.root[i] /\ gg = g
  BY QfsLastCached
<1> HIDE DEF gg
<1>3. g.root[i] = f.root[i] /\ g.inode = g.root[i] /\ g.inode = [name |-> n, len |-> off]
  BY <1>2, Zenon DEF QfsSameStore
<1>4. /\ g.inode.len = off /\ [g.inode EXCEPT !.len = off + k] = new
      /\ [g.root[i] EXCEPT !.len = off + k] = new
  BY <1>3
<1>5. i \in QfsUsable
  <2>1. f.root[i].name \in QfsName /\ QfsDir(f.root)
    BY DEF QfsGood
  <2> QED BY <2>1, QfsNamed
<1>6. page \in Nat
  BY <1>5, QfsWritten
<1>7. old = off /\ past = page + (IF from = 0 THEN 0 ELSE 1)
  BY <1>2, <1>4
<1>8. (past > page) = (from # 0) /\ (past > page + 1) = FALSE
  <2> HIDE DEF past, page, from
  <2>2. (past > page) = (from # 0)
    BY <1>6, <1>7
  <2>3. (past > page + 1) = FALSE
    BY <1>6, <1>7
  <2> QED BY <2>2, <2>3
<1>9. hh = entered
  <2>1. old < off + k
    BY <1>7
  <2> HIDE DEF entered
  <2> QED BY <2>1, Zenon
<1>10. entered = h
  <2>1. entered = [g EXCEPT !.inode = [g.inode EXCEPT !.len = off + k],
                            !.root[i] = [g.root[i] EXCEPT !.len = off + k],
                            !.rootModified = TRUE]
    BY <1>2, Zenon
  <2>2. h = [g EXCEPT !.inode = new, !.root[i] = new, !.rootModified = TRUE]
    BY <1>2, Zenon DEF QfsEnter
  <2> HIDE DEF entered
  <2> QED BY ONLY <1>4, <2>1, <2>2, Zenon
<1> HIDE DEF entered, hh, past
<1> DEFINE first == QfsPut(h, page, from # 0, from + 1 .. from + k, c)
           second == QfsPut(first, page + 1, FALSE, 1 .. from + k - QfsBlock, c)
<1>11. one = first
  BY <1>8, <1>9, <1>10, Zenon DEF QfsPut
<1>12. QfsPuts(h, i, off, k, c) = IF from + k > QfsBlock THEN second ELSE first
  BY Zenon DEF QfsPuts
<1> HIDE DEF one, first
<1>13. two = second
  BY <1>8, <1>11, Zenon DEF QfsPut
<1> HIDE DEF two, second
<1>14. ~(off + k > QfsLimit(i))
  BY <1>5, QfsLimits
<1>15. fs_write(f, i, off, k, c) = IF from + k > QfsBlock THEN two ELSE one
  BY <1>1, <1>14, Zenon
<1> QED BY <1>11, <1>12, <1>13, <1>15, Zenon

(* Inode i of g has k cells more than that of f. *)
QfsLonger(f, g, i, n, off, k, c) ==
  /\ QfsGood(f) /\ QfsGood(g) /\ i \in QfsIndex /\ n \in QfsName /\ off \in Nat /\ k \in 1 .. 2
  /\ f.root[i].name = n /\ f.root[i].len = off
  /\ g.root[i].name = n /\ g.root[i].len = off + k
  /\ \A m \in 0 .. off - 1 : QfsCellAt(g, i, m) = QfsCellAt(f, i, m)
  /\ \A t \in 0 .. k - 1 : QfsCellAt(g, i, off + t) = c

QfsMore(k, c) == [j \in 1 .. k |-> c]

(* A file whose old cells are kept and whose k new ones are c is the old   *)
(* file with k cells c added.                                              *)
LEMMA QfsAppended ==
  ASSUME NEW f, NEW g, NEW i, NEW n, NEW off, NEW k, NEW c, QfsLonger(f, g, i, n, off, k, c)
  PROVE  QfsFile(g, n) = QfsFile(f, n) \o QfsMore(k, c)
<1>0. /\ \A m \in 0 .. off - 1 : QfsCellAt(g, i, m) = QfsCellAt(f, i, m)
      /\ \A t \in 0 .. k - 1 : QfsCellAt(g, i, off + t) = c
  BY DEF QfsLonger
<1>1. /\ f.root[i].name = n /\ g.root[i].name = n /\ f.root[i].len = off /\ g.root[i].len = off + k
      /\ QfsGood(f) /\ QfsGood(g) /\ i \in QfsIndex /\ n \in QfsName
  BY DEF QfsLonger
<1>2a. off \in Nat /\ k \in 1 .. 2
  BY DEF QfsLonger
<1>2. QfsFile(f, n) = QfsContent(f, i) /\ QfsFile(g, n) = QfsContent(g, i)
  BY <1>1, QfsFileContents
<1>3. \A j : QfsCell(f, i, j) = QfsCellAt(f, i, j - 1) /\ QfsCell(g, i, j) = QfsCellAt(g, i, j - 1)
  BY Zenon DEF QfsCell, QfsCellAt
<1> DEFINE s == [j \in 1 .. off |-> QfsCellAt(f, i, j - 1)]
           t == [j \in 1 .. off + k |-> QfsCellAt(g, i, j - 1)]
           more == [j \in 1 .. k |-> c]
<1>4. QfsContent(f, i) = s /\ QfsContent(g, i) = t
  <2>1. QfsContent(f, i) = s
    BY <1>1, <1>3, Zenon DEF QfsContent
  <2>2. QfsContent(g, i) = t
    BY <1>1, <1>3, Zenon DEF QfsContent
  <2> QED BY <2>1, <2>2
<1>5. QfsContent(f, i) \in Seq(QfsContents) /\ QfsContent(g, i) \in Seq(QfsContents)
  BY <1>1, QfsContentSeq
<1> DEFINE a(j) == QfsCellAt(f, i, j)
           b(j) == QfsCellAt(g, i, j)
<1>6. \A j \in 1 .. off : b(j - 1) = a(j - 1)
  <2> SUFFICES ASSUME NEW j \in 1 .. off PROVE b(j - 1) = a(j - 1)
    OBVIOUS
  <2>1. j - 1 \in 0 .. off - 1
    BY <1>2a
  <2> QED BY <1>0, <2>1
<1>7. \A j \in 1 .. k : b((off + j) - 1) = c
  <2> SUFFICES ASSUME NEW j \in 1 .. k PROVE b((off + j) - 1) = c
    OBVIOUS
  <2>1. j - 1 \in 0 .. k - 1 /\ (off + j) - 1 = off + (j - 1)
    BY <1>2a
  <2> QED BY <1>0, <2>1
<1>8. t = s \o more
  <2> HIDE DEF a, b
  <2>1. s = [j \in 1 .. off |-> a(j - 1)] /\ t = [j \in 1 .. off + k |-> b(j - 1)]
    BY DEF a, b
  <2> HIDE DEF s, t
  <2>2. s \o more = [j \in 1 .. off + k |-> IF j <= off THEN a(j - 1) ELSE c]
    <3>1. Len(s) = off /\ DOMAIN s = 1 .. off /\ Len(more) = k
      BY <1>4, <1>5, <1>2a, <2>1
    <3> QED BY <1>2a, <2>1, <3>1
  <2>3. ASSUME NEW j \in 1 .. off + k
        PROVE  b(j - 1) = IF j <= off THEN a(j - 1) ELSE c
    <3>1. CASE j <= off
      <4>1. j \in 1 .. off
        BY <1>2a, <3>1
      <4> QED BY <1>6, <3>1, <4>1
    <3>2. CASE ~(j <= off)
      <4> DEFINE r == j - off
      <4>1. r \in 1 .. k /\ (off + r) - 1 = j - 1
        BY <1>2a, <3>2
      <4> HIDE DEF r
      <4> QED BY <1>7, <3>2, <4>1
    <3> QED BY <3>1, <3>2
  <2> QED BY <2>1, <2>2, <2>3
<1> QED BY <1>2, <1>4, <1>8 DEF QfsMore

(* fs_write adds k cells to the end of a file, if there is room for them.  *)
QfsMayWrite(f, i, n, off, k, c) ==
  /\ QfsGood(f) /\ i \in QfsIndex /\ n \in QfsName /\ off \in Nat
  /\ f.root[i].name = n /\ f.root[i].len = off
  /\ k \in 1 .. 2 /\ off + k <= QfsLimit(i) /\ c \in QfsContents

QfsWriteDone(f, i, n, off, k, c, g) ==
  /\ QfsGood(g) /\ g.root[i] = [name |-> n, len |-> off + k]
  /\ \A m \in QfsName : m # n => QfsSame(f, g, m)
  /\ \A names, less : /\ QfsSafely(f, names) /\ less \subseteq names /\ n \notin less
                      => QfsSafely(g, less)
  /\ QfsFile(g, n) = QfsFile(f, n) \o QfsMore(k, c)

(* fs_write at the end of a file appends to it and changes no other file,  *)
(* whatever pages were cached and not yet saved.                           *)
LEMMA QfsWrote ==
  ASSUME NEW f, NEW i, NEW n, NEW off, NEW k, NEW c, QfsMayWrite(f, i, n, off, k, c)
  PROVE  QfsWriteDone(f, i, n, off, k, c, fs_write(f, i, off, k, c))
<1> DEFINE g == fs_write(f, i, off, k, c)
<1>g. g = fs_write(f, i, off, k, c)
  OBVIOUS
<1> HIDE DEF g
<1>a. /\ QfsGood(f) /\ i \in QfsIndex /\ n \in QfsName /\ off \in Nat
      /\ f.root[i].name = n /\ f.root[i].len = off
      /\ k \in 1 .. 2 /\ off + k <= QfsLimit(i) /\ c \in QfsContents
  BY Zenon DEF QfsMayWrite
<1>b. f.root[i] = [name |-> n, len |-> off]
  BY <1>a, QfsFields, QfsChipFields DEF QfsGood
<1> DEFINE new == [name |-> n, len |-> off + k]
           e == cache_last_inode(f, i)
           h == QfsEnter(e, new)
<1>0. i \in QfsUsable /\ f.root[i].name = n /\ QfsDir(f.root)
  <2>1. f.root[i].name = n /\ f.root[i].name \in QfsName /\ QfsDir(f.root)
    BY <1>a DEF QfsGood
  <2> QED BY <1>a, <2>1, QfsNamed
<1>1. g = QfsPuts(h, i, off, k, c)
  BY <1>a, <1>b, <1>g, QfsWriteSteps
<1>2. QfsGood(e) /\ QfsSameStore(f, e) /\ e.index = i
  BY <1>a, QfsLastCached
<1>3. e.root = f.root /\ e.savedRoot = f.savedRoot /\ e.lastpage = f.lastpage
  BY <1>2, Zenon DEF QfsSameStore
<1>4. /\ \A m : QfsSame(f, e, m)
      /\ \A names : QfsSafely(f, names) => QfsSafely(e, names)
  BY <1>a, <1>2, QfsStored DEF QfsGood
<1>5. \A q : QfsAt(e, q) = QfsAt(f, q)
  BY <1>2, Zenon DEF QfsSameStore, QfsAt
<1> HIDE DEF e
<1>6. new \in QfsInodeSet /\ new.name = n /\ new.len = off + k
  <2>1. QfsLimit(i) = QfsPages * QfsBlock - 1 /\ QfsLimit(i) \in Nat
    BY <1>0, QfsLimits
  <2> DEFINE last == QfsPages * QfsBlock - 1
  <2>2. last \in Nat /\ off + k <= last
    BY <1>a, <2>1
  <2> HIDE DEF last
  <2>3. off + k \in 0 .. last
    BY <1>a, <2>2
  <2> QED BY <1>a, <2>3 DEF QfsInodeSet, last
<1> HIDE DEF new
<1>7. QfsMayEnter(e, new)
  <2>1. new.name # QfsMagic /\ new.len <= QfsLimit(e.index)
    BY <1>a, <1>2, <1>6, QfsNamesDiffer
  <2>2. \A j \in QfsIndex : e.root[j].name = new.name /\ new.name \in QfsName => j = e.index
    BY <1>a, <1>0, <1>2, <1>3, <1>6 DEF QfsDir
  <2> QED BY <1>0, <1>2, <1>6, <2>1, <2>2, Zenon DEF QfsMayEnter
<1>8. /\ QfsGood(h) /\ h.root[i] = new
      /\ \A j \in QfsIndex : j # i => h.root[j] = e.root[j]
      /\ \A q : QfsAt(h, q) = QfsAt(e, q)
  BY <1>2, <1>7, QfsEntered
<1>9. /\ \A m : m # n => QfsSame(e, h, m)
      /\ \A names, less : /\ QfsSafely(e, names) /\ less \subseteq names /\ n \notin less
                          => QfsSafely(h, less)
  <2>1. e.root[e.index].name = n /\ new.name = n
    BY <1>0, <1>2, <1>3, <1>6
  <2> QED BY <1>2, <1>7, <2>1, QfsEnterKeeps
<1> HIDE DEF h
<1>10. /\ QfsGood(g) /\ QfsSameDir(h, g) /\ g.lastpage \in QfsPagesOf(i)
       /\ \A q \in QfsPage : q \notin QfsPagesOf(i) => QfsAt(g, q) = QfsAt(h, q)
       /\ \A m \in 0 .. off - 1 : QfsCellAt(g, i, m) = QfsCellAt(h, i, m)
       /\ \A t \in 0 .. k - 1 : QfsCellAt(g, i, off + t) = c
  BY <1>a, <1>0, <1>1, <1>8, QfsPutCells DEF QfsPutsDone
<1>11. g.root = h.root /\ g.savedRoot = h.savedRoot
  BY <1>10, Zenon DEF QfsSameDir
<1>12. h.savedRoot = f.savedRoot
  BY <1>2, <1>3, <1>7, QfsEntered DEF h
<1>13. g.root[i] = [name |-> n, len |-> off + k]
  BY <1>8, <1>11 DEF new
<1>14. ASSUME NEW j \in QfsIndex, j # i, NEW m \in QfsName, g.root[j].name = m
       PROVE  QfsSameInode(h, g, j)
  <2>1. j \in QfsUsable
    <3>1. g.root[j].name \in QfsName /\ QfsDir(g.root)
      BY <1>10, <1>14 DEF QfsGood
    <3> QED BY <3>1, QfsNamed
  <2>2. ASSUME NEW q \in QfsPagesOf(j) PROVE QfsAt(g, q) = QfsAt(h, q)
    <3>1. q \in QfsPage
      BY <2>1, QfsPagesRange
    <3>2. q \notin QfsPagesOf(i)
      BY <1>a, <1>14, QfsPagesApart
    <3> QED BY <1>10, <3>1, <3>2
  <2> QED BY <1>11, <2>2 DEF QfsSameInode
<1>15. ASSUME NEW m \in QfsName, m # n PROVE QfsSame(f, g, m)
  <2>1. QfsSame(h, g, m)
    <3> SUFFICES ASSUME NEW j \in QfsIndex, h.root[j].name = m \/ g.root[j].name = m
                 PROVE  QfsSameInode(h, g, j)
      BY Zenon DEF QfsSame
    <3>1. j # i
      BY <1>8, <1>11, <1>6, <1>15
    <3>2. g.root[j].name = m
      BY <1>11
    <3> QED BY <1>14, <3>1, <3>2
  <2> QED BY <1>4, <1>9, <1>15, <2>1, QfsSameTrans
<1>16. ASSUME NEW names, NEW less, QfsSafely(f, names), less \subseteq names, n \notin less
       PROVE  QfsSafely(g, less)
  <2>1. QfsSafely(h, less)
    BY <1>4, <1>9, <1>16
  <2> SUFFICES ASSUME NEW m \in less, NEW j \in QfsIndex,
                      g.root[j].name = m \/ g.savedRoot[j].name = m
               PROVE  /\ g.root[j] = g.savedRoot[j]
                      /\ g.pageModified => g.lastpage \notin QfsPagesOf(j)
    BY Zenon DEF QfsSafely
  <2>2. h.root[j] = h.savedRoot[j] /\ h.root[j].name = m
    BY <1>11, <2>1, Zenon DEF QfsSafely
  <2>3. j # i
    BY <1>6, <1>8, <1>16, <2>2
  <2>4. g.lastpage \notin QfsPagesOf(j)
    BY <1>a, <1>10, <2>3, QfsPagesApart
  <2> QED BY <1>11, <2>2, <2>4
<1>17. QfsFile(g, n) = QfsFile(f, n) \o QfsMore(k, c)
  <2>1. \A m : QfsCellAt(h, i, m) = QfsCellAt(f, i, m)
    BY <1>5, <1>8, Zenon DEF QfsCellAt
  <2>2. \A m \in 0 .. off - 1 : QfsCellAt(g, i, m) = QfsCellAt(f, i, m)
    BY <1>10, <2>1
  <2>3. /\ QfsGood(f) /\ QfsGood(g) /\ i \in QfsIndex /\ n \in QfsName /\ off \in Nat /\ k \in 1 .. 2
        /\ f.root[i].name = n /\ f.root[i].len = off
        /\ g.root[i].name = n /\ g.root[i].len = off + k
    BY <1>a, <1>10, <1>13
  <2>4. QfsLonger(f, g, i, n, off, k, c)
    BY <1>10, <2>2, <2>3, Zenon DEF QfsLonger
  <2> QED BY ONLY <2>4, QfsAppended
<1>18. QfsWriteDone(f, i, n, off, k, c, g)
  BY <1>10, <1>13, <1>15, <1>16, <1>17, Zenon DEF QfsWriteDone
<1> QED BY <1>18 DEF g

(* Caching a page for reading: the pages hold what they held. *)
QfsView(f, g) ==
  /\ f \in QfsChips /\ QfsBuffer(f) /\ g \in QfsChips /\ QfsBuffer(g) /\ QfsSameDir(f, g)
  /\ g.pageModified => f.pageModified /\ g.lastpage = f.lastpage
  /\ \A q \in QfsPage : QfsAt(g, q) = QfsAt(f, q)

(* What cache_page does. *)
QfsCacheDone(f, p, load, g) ==
  /\ g \in QfsChips /\ QfsSameDir(f, g)
  /\ g.lastpage = p /\ (g.pageModified => f.pageModified /\ f.lastpage = p)
  /\ \A q \in QfsPage : q # p => QfsAt(g, q) = QfsAt(f, q)
  /\ load => QfsAt(g, p) = QfsAt(f, p) /\ QfsBuffer(g)

(* Loading a page into BUF1 saves the page before. *)
LEMMA QfsCaches ==
  ASSUME NEW f \in QfsChips, QfsBuffer(f), NEW p \in QfsPage, NEW load \in BOOLEAN
  PROVE  QfsCacheDone(f, p, load, cache_page(f, p, load))
<1> DEFINE g == cache_page(f, p, load)
<1>1. /\ g \in QfsChips /\ QfsSameDir(f, g)
      /\ g.lastpage = p /\ (g.pageModified => f.pageModified /\ f.lastpage = p)
      /\ \A q \in QfsPage : q # p => QfsAt(g, q) = QfsAt(f, q)
      /\ load => QfsAt(g, p) = QfsAt(f, p) /\ QfsBuffer(g)
  BY QfsCachePage
<1> HIDE DEF g
<1> QED BY <1>1, Zenon DEF QfsCacheDone, g

(* Reading a file goes from one such view of the chip to the next, *)
LEMMA QfsViewed ==
  ASSUME NEW f, NEW g, QfsView(f, g), NEW p \in QfsPage, NEW h, h = cache_page(g, p, TRUE)
  PROVE  QfsView(f, h)
<1>1. g \in QfsChips /\ QfsBuffer(g) /\ TRUE \in BOOLEAN
  BY DEF QfsView
<1>2. /\ h \in QfsChips /\ QfsSameDir(g, h)
      /\ h.lastpage = p /\ (h.pageModified => g.pageModified /\ g.lastpage = p)
      /\ \A q \in QfsPage : q # p => QfsAt(h, q) = QfsAt(g, q)
      /\ QfsAt(h, p) = QfsAt(g, p) /\ QfsBuffer(h)
  <2> DEFINE load == TRUE
  <2>1. load \in BOOLEAN /\ h = cache_page(g, p, load) /\ load
    OBVIOUS
  <2> HIDE DEF load
  <2>2. QfsCacheDone(g, p, load, cache_page(g, p, load))
    BY ONLY <1>1, <2>1, p \in QfsPage, QfsCaches
  <2> QED BY ONLY <2>1, <2>2, Zenon DEF QfsCacheDone
<1>3. QfsSameDir(f, h)
  BY <1>2, Zenon DEF QfsView, QfsSameDir
<1>4. \A q \in QfsPage : QfsAt(h, q) = QfsAt(f, q)
  BY <1>2, Zenon DEF QfsView
<1>5. h.pageModified => f.pageModified /\ h.lastpage = f.lastpage
  BY <1>2, Zenon DEF QfsView
<1> QED BY <1>2, <1>3, <1>4, <1>5, Zenon DEF QfsView

(* and leaves all files, and those that are safe, as they are. *)
LEMMA QfsViewKeeps ==
  ASSUME NEW f, QfsGood(f), NEW g, QfsView(f, g)
  PROVE  /\ QfsGood(g) /\ \A n \in QfsName : QfsSame(f, g, n)
         /\ \A names : QfsSafely(f, names) => QfsSafely(g, names)
<1>1. QfsGood(g)
  BY QfsSameDirGood DEF QfsView
<1>2. /\ g.root = f.root /\ g.savedRoot = f.savedRoot
      /\ \A q \in QfsPage : QfsAt(g, q) = QfsAt(f, q)
      /\ g.pageModified => f.pageModified /\ g.lastpage = f.lastpage
  BY Zenon DEF QfsView, QfsSameDir
<1>3. ASSUME NEW n \in QfsName PROVE QfsSame(f, g, n)
  <2> SUFFICES ASSUME NEW i \in QfsIndex, f.root[i].name = n PROVE QfsSameInode(f, g, i)
    BY <1>2, Zenon DEF QfsSame
  <2>1. f.root[i].name \in QfsName /\ QfsDir(f.root)
    BY DEF QfsGood
  <2>2. i \in QfsUsable
    BY <2>1, QfsNamed
  <2>3. QfsPagesOf(i) \subseteq QfsPage
    BY <2>2, QfsPagesRange
  <2> QED BY <1>2, <2>3 DEF QfsSameInode
<1>4. \A names : QfsSafely(f, names) => QfsSafely(g, names)
  BY <1>2, Zenon DEF QfsSafely
<1> QED BY <1>1, <1>3, <1>4

(* The function that fs_read defines. *)
QfsReading(g, inode, last, r) ==
  r = [i \in 0 .. last |->
         IF i = 0 THEN g ELSE cache_page(r[i - 1], offset2page(inode, (i - 1) * QfsBlock), TRUE)]

(* The pages of a file are read one after the other: the recursive         *)
(* function of fs_read exists, by induction on the number of pages.        *)
LEMMA QfsReadingExists ==
  ASSUME NEW g, NEW inode, NEW last \in Nat
  PROVE  \E r : QfsReading(g, inode, last, r)
<1> DEFINE Step(v, i) == cache_page(v, offset2page(inode, (i - 1) * QfsBlock), TRUE)
           Upto(k, r) == r = [i \in 0 .. k |-> IF i = 0 THEN g ELSE Step(r[i - 1], i)]
           T == {k \in 0 .. last : \E r : Upto(k, r)}
<1>1. 0 \in T
  <2> DEFINE r == [i \in 0 .. 0 |-> g]
  <2>1. Upto(0, r)
    <3> HIDE DEF Step
    <3> QED OBVIOUS
  <2>2. 0 \in 0 .. last
    OBVIOUS
  <2> HIDE DEF Upto, r
  <2> QED BY <2>1, <2>2
<1>2. ASSUME NEW k \in 0 .. last - 1, k \in T PROVE k + 1 \in T
  <2>1. PICK r : Upto(k, r)
    BY <1>2
  <2> DEFINE v == Step(r[k], k + 1)
             s == [i \in 0 .. k + 1 |-> IF i = k + 1 THEN v ELSE r[i]]
  <2>2. k + 1 \in 0 .. last /\ k \in Nat /\ k \in 0 .. k
    OBVIOUS
  <2> HIDE DEF T, Step
  <2>3. \A i \in 0 .. k : i \in 0 .. k + 1 /\ i # k + 1
    OBVIOUS
  <2>4. \A i \in 0 .. k : s[i] = r[i]
    BY <2>3
  <2>5. s[k + 1] = v
    BY <2>2
  <2>6. \A i \in 0 .. k : r[i] = IF i = 0 THEN g ELSE Step(r[i - 1], i)
    BY <2>1
  <2>7. DOMAIN s = 0 .. k + 1 /\ s = [i \in 0 .. k + 1 |-> s[i]]
    OBVIOUS
  <2> HIDE DEF s, v
  <2>8. ASSUME NEW i \in 0 .. k + 1 PROVE s[i] = IF i = 0 THEN g ELSE Step(s[i - 1], i)
    <3>1. CASE i = 0
      BY <2>2, <2>4, <2>6, <3>1
    <3>2. CASE i # 0 /\ i # k + 1
      <4>1. i \in 0 .. k /\ i - 1 \in 0 .. k
        BY <3>2
      <4>2. s[i - 1] = r[i - 1] /\ s[i] = r[i]
        BY <2>4, <4>1
      <4> QED BY <2>6, <3>2, <4>1, <4>2
    <3>3. CASE i = k + 1
      <4>1. i - 1 = k /\ i # 0
        BY <3>3
      <4>2. s[i - 1] = r[k]
        BY <2>2, <2>4, <4>1
      <4> QED BY <2>5, <3>3, <4>1, <4>2 DEF v
    <3> QED BY <3>1, <3>2, <3>3
  <2>9. Upto(k + 1, s)
    BY <2>7, <2>8
  <2> HIDE DEF Upto
  <2> QED BY <2>2, <2>9 DEF T
<1> HIDE DEF T
<1>3. \A k \in 0 .. last : k \in T
  BY <1>1, <1>2, QfsInduction
<1>4. last \in T
  BY <1>3
<1>5. PICK r : Upto(last, r)
  BY <1>4 DEF T
<1> QED BY <1>5 DEF QfsReading

(* fs_read leaves all as it is, but for the page in BUF1. *)
LEMMA QfsReads ==
  ASSUME NEW f, QfsGood(f), NEW i \in QfsIndex, f.root[i].name \in QfsName,
         NEW h, h = fs_read(f, i)
  PROVE  /\ QfsGood(h) /\ \A n \in QfsName : QfsSame(f, h, n)
         /\ \A names : QfsSafely(f, names) => QfsSafely(h, names)
<1> DEFINE g == cache_last_inode(f, i)
           len == g.inode.len
           pages == (len + QfsBlock - 1) \div QfsBlock
           r == CHOOSE r : QfsReading(g, i, pages, r)
<1>1. h = r[pages]
  BY Zenon DEF fs_read, QfsReading
<1>2. QfsGood(g) /\ QfsSameStore(f, g) /\ g.inode = f.root[i]
  BY QfsLastCached
<1>3. /\ \A n \in QfsName : QfsSame(f, g, n)
      /\ \A names : QfsSafely(f, names) => QfsSafely(g, names)
  BY <1>2, QfsStored DEF QfsGood
<1>4. i \in QfsUsable /\ len \in Nat /\ len <= QfsLimit(i)
  BY <1>2, QfsContentSeq
<1> HIDE DEF g
<1>5. pages \in Nat /\ pages <= QfsPages
  <2> DEFINE all == QfsPages * QfsBlock
             more == (QfsPages + 1) * QfsBlock
             n == len + QfsBlock - 1
  <2>1. QfsLimit(i) = all - 1 /\ QfsLimit(i) \in Nat
    BY <1>4, QfsLimits
  <2>2. more = all + QfsBlock /\ all \in Nat /\ QfsBlock \in Nat \ {0} /\ QfsPages + 1 \in Nat
    BY QfsConstants, SMT
  <2> HIDE DEF all, more, len
  <2>3. n \in Nat /\ n < more
    BY <1>4, <2>1, <2>2
  <2> HIDE DEF n
  <2>4. n \div QfsBlock \in 0 .. (QfsPages + 1) - 1
    BY <2>2, <2>3, QfsBlockOf DEF more
  <2>5. n \div QfsBlock \in Nat /\ n \div QfsBlock <= QfsPages
    BY <2>4, QfsConstants
  <2> QED BY <2>5 DEF n
<1> HIDE DEF pages
<1>6. QfsReading(g, i, pages, r)
  <2> HIDE DEF r
  <2>1. \E s : QfsReading(g, i, pages, s)
    BY <1>5, QfsReadingExists
  <2> QED BY <2>1, Zenon DEF r
<1> HIDE DEF r
<1>7. /\ r[0] = g
      /\ \A k \in 1 .. pages :
           r[k] = cache_page(r[k - 1], offset2page(i, (k - 1) * QfsBlock), TRUE)
  <2>1. \A k \in 0 .. pages : r[k] =
          IF k = 0 THEN g ELSE cache_page(r[k - 1], offset2page(i, (k - 1) * QfsBlock), TRUE)
    BY <1>6, Zenon DEF QfsReading
  <2>2. 0 \in 0 .. pages /\ \A k \in 1 .. pages : k \in 0 .. pages /\ k # 0
    BY <1>5
  <2> QED BY <2>1, <2>2, Zenon
<1> DEFINE T == {k \in 0 .. pages : QfsView(g, r[k])}
<1>8. 0 \in T
  <2>1. g \in QfsChips /\ QfsBuffer(g)
    BY <1>2 DEF QfsGood
  <2>2. QfsView(g, g)
    BY <2>1, Zenon DEF QfsView, QfsSameDir
  <2> QED BY <1>5, <1>7, <2>2
<1>9. ASSUME NEW k \in 0 .. pages - 1, k \in T PROVE k + 1 \in T
  <2> DEFINE p == offset2page(i, k * QfsBlock)
  <2>1. /\ k + 1 \in 1 .. pages /\ (k + 1) - 1 = k /\ k \in Nat
        /\ k + 1 <= QfsPages /\ k + 1 \in 0 .. pages
    BY <1>5, QfsConstants
  <2>2. r[k + 1] = cache_page(r[k], p, TRUE)
    BY <1>7, <2>1
  <2>3. k * QfsBlock \in Nat /\ k * QfsBlock < QfsPages * QfsBlock
    <3> DEFINE a == QfsBlock * k
               z == QfsBlock * QfsPages
    <3>1. a + QfsBlock <= z
      BY <2>1, QfsConstants, QfsMonotone
    <3>2. a \in Nat /\ z \in Nat /\ a = k * QfsBlock /\ z = QfsPages * QfsBlock
      BY <2>1, QfsConstants, SMT
    <3> HIDE DEF a, z
    <3>3. a < z
      BY <3>1, <3>2, QfsConstants
    <3> QED BY <3>2, <3>3
  <2>4. p \in QfsPage
    BY <1>4, <2>3, QfsPageOf
  <2>5. QfsView(g, r[k])
    BY <1>9
  <2> HIDE DEF p
  <2>6. QfsView(g, r[k + 1])
    BY <2>2, <2>4, <2>5, QfsViewed
  <2> QED BY <2>1, <2>6
<1> HIDE DEF T
<1>10. \A k \in 0 .. pages : k \in T
  BY <1>5, <1>8, <1>9, QfsInduction
<1>11. QfsView(g, h)
  BY <1>1, <1>5, <1>10 DEF T
<1>12. /\ QfsGood(h) /\ \A n \in QfsName : QfsSame(g, h, n)
       /\ \A names : QfsSafely(g, names) => QfsSafely(h, names)
  BY <1>2, <1>11, QfsViewKeeps
<1>13. \A n \in QfsName : QfsSame(f, h, n)
  BY <1>3, <1>12, QfsSameTrans
<1> QED BY <1>3, <1>12, <1>13

(* fs_rename of one part of the log to the next. *)
LEMMA QfsRenamed ==
  ASSUME NEW f, QfsGood(f), NEW n \in QfsName, NEW to \in QfsName, n # to,
         NEW g, g = fs_rename(f, n, to)
  PROVE  /\ QfsGood(g) /\ QfsAbsent(g, n) /\ QfsFile(g, to) = QfsFile(f, n)
         /\ \A m \in QfsName : m # n /\ m # to => QfsSame(f, g, m)
<1> DEFINE e == QfsSetName(f, to, QfsEmpty)
<1>1. g = QfsSetName(e, n, to)
  BY Zenon DEF fs_rename, fs_remove
<1>0. /\ QfsEmpty \in QfsName \union {QfsEmpty} /\ ~(QfsEmpty \in QfsName)
      /\ to \in QfsName \union {QfsEmpty}
      /\ to # QfsEmpty /\ n # QfsEmpty
  BY QfsNamesDiffer
<1>2. /\ QfsGood(e) /\ QfsAbsent(e, to)
      /\ \A q : QfsAt(e, q) = QfsAt(f, q)
      /\ \A m : m # to /\ m # QfsEmpty => QfsSame(f, e, m)
  BY <1>0, QfsSetNamed
<1> HIDE DEF e
<1>3. /\ QfsGood(g) /\ QfsAbsent(g, n)
      /\ \A i \in QfsIndex : e.root[i].name # n => g.root[i] = e.root[i]
      /\ \A i \in QfsIndex : e.root[i].name = n => g.root[i] = [e.root[i] EXCEPT !.name = to]
      /\ \A q : QfsAt(g, q) = QfsAt(e, q)
      /\ \A m : m # n /\ m # to => QfsSame(e, g, m)
  BY <1>0, <1>1, <1>2, QfsSetNamed
<1>4. QfsFile(e, n) = QfsFile(f, n)
  BY <1>0, <1>2, QfsSameFile
<1>5. QfsFile(g, to) = QfsFile(e, n)
  <2>1. CASE \E i \in QfsIndex : e.root[i].name = n
    <3>1. PICK i \in QfsIndex : e.root[i].name = n
      BY <2>1
    <3>2. e.root[i] \in QfsInodeSet /\ QfsDir(e.root) /\ QfsDir(g.root)
      BY <1>2, <1>3, QfsFields, QfsChipFields DEF QfsGood
    <3>3. g.root[i].name = to /\ g.root[i].len = e.root[i].len
      BY <1>3, <3>1, <3>2 DEF QfsInodeSet
    <3>4. QfsFile(g, to) = QfsContent(g, i) /\ QfsFile(e, n) = QfsContent(e, i)
      BY <3>1, <3>2, <3>3, QfsFileAt
    <3>5. QfsContent(g, i) = QfsContent(e, i)
      <4>1. \A k : QfsCell(g, i, k) = QfsCell(e, i, k)
        BY <1>3, Zenon DEF QfsCell
      <4> QED BY <3>3, <4>1, Zenon DEF QfsContent
    <3> QED BY <3>4, <3>5
  <2>2. CASE ~\E i \in QfsIndex : e.root[i].name = n
    <3>1. \A i \in QfsIndex : e.root[i].name # n /\ g.root[i].name # to
      BY <1>2, <1>3, <2>2 DEF QfsAbsent
    <3> QED BY <3>1, QfsFileNone
  <2> QED BY <2>1, <2>2
<1>6. ASSUME NEW m \in QfsName, m # n, m # to PROVE QfsSame(f, g, m)
  <2>1. QfsSame(f, e, m) /\ QfsSame(e, g, m)
    BY <1>0, <1>2, <1>3, <1>6
  <2> QED BY <2>1, QfsSameTrans
<1> QED BY <1>3, <1>4, <1>5, <1>6

(* The function that log_rotate defines. *)
QfsRenaming(f, last, r) ==
  r = [i \in 1 .. last |->
         IF i = last THEN f ELSE fs_rename(r[i + 1], QfsLog[i], QfsLog[i + 1])]

(* The parts of the log are renamed from the oldest on: the recursive      *)
(* function of log_rotate exists.                                          *)
LEMMA QfsRenamingExists ==
  ASSUME NEW f, NEW last \in Nat, last > 0
  PROVE  \E r : QfsRenaming(f, last, r)
<1> DEFINE Step(v, i) == fs_rename(v, QfsLog[i], QfsLog[i + 1])
           From(k, r) == r = [i \in last - k .. last |-> IF i = last THEN f ELSE Step(r[i + 1], i)]
           T == {k \in 0 .. last - 1 : \E r : From(k, r)}
<1>1. 0 \in T
  <2> DEFINE r == [i \in last - 0 .. last |-> f]
  <2>1. From(0, r)
    <3> HIDE DEF Step
    <3> QED OBVIOUS
  <2>2. 0 \in 0 .. last - 1
    OBVIOUS
  <2> HIDE DEF From, r
  <2> QED BY <2>1, <2>2
<1>2. ASSUME NEW k \in 0 .. (last - 1) - 1, k \in T PROVE k + 1 \in T
  <2>1. PICK r : From(k, r)
    BY <1>2
  <2> DEFINE p == last - k
             o == last - (k + 1)
             v == Step(r[p], o)
             s == [i \in o .. last |-> IF i = o THEN v ELSE r[i]]
  <2>2. k + 1 \in 0 .. last - 1 /\ k \in Nat /\ p \in p .. last /\ o + 1 = p /\ o < last /\ o \in Nat
    OBVIOUS
  <2>3. p \in Nat
    BY <2>2
  <2> HIDE DEF T, Step
  <2>6. \A i \in p .. last : r[i] = IF i = last THEN f ELSE Step(r[i + 1], i)
    BY <2>1
  <2> HIDE DEF p, o
  <2>4. \A i \in p .. last : i \in o .. last /\ i # o
    BY <2>2, <2>3
  <2>5. \A i \in p .. last : s[i] = r[i]
    BY <2>4
  <2>7. s[o] = v
    BY <2>2
  <2>8. s = [i \in o .. last |-> s[i]]
    OBVIOUS
  <2> HIDE DEF s, v
  <2>9. ASSUME NEW i \in o .. last PROVE s[i] = IF i = last THEN f ELSE Step(s[i + 1], i)
    <3>1. CASE i = last
      <4>1. i \in p .. last
        BY <2>2, <2>3, <3>1
      <4> QED BY <2>5, <2>6, <3>1, <4>1
    <3>2. CASE i # last /\ i # o
      <4>1. i \in p .. last /\ i + 1 \in p .. last
        BY <2>2, <2>3, <3>2
      <4>2. s[i + 1] = r[i + 1] /\ s[i] = r[i]
        BY <2>5, <4>1
      <4> QED BY <2>6, <3>2, <4>1, <4>2
    <3>3. CASE i = o
      <4>1. i + 1 = p /\ i # last
        BY <2>2, <3>3
      <4>2. s[i + 1] = r[p]
        BY <2>2, <2>5, <4>1
      <4> QED BY <2>7, <3>3, <4>1, <4>2 DEF v
    <3> QED BY <3>1, <3>2, <3>3
  <2>10. From(k + 1, s)
    BY <2>8, <2>9 DEF o
  <2> HIDE DEF From
  <2> QED BY <2>2, <2>10 DEF T
<1> HIDE DEF T
<1>3. \A k \in 0 .. last - 1 : k \in T
  BY <1>1, <1>2, QfsInduction
<1>4. last - 1 \in T
  BY <1>3
<1>5. PICK r : From(last - 1, r)
  BY <1>4 DEF T
<1>6. last - (last - 1) = 1
  OBVIOUS
<1> QED BY <1>5, <1>6 DEF QfsRenaming

(* The parts of the log have names of their own. *)
LEMMA QfsParts ==
  /\ Len(QfsLog) \in Nat /\ Len(QfsLog) >= 2
  /\ \A i \in 1 .. Len(QfsLog) : QfsLog[i] \in QfsName /\ QfsLog[i] \in QfsLogNames
  /\ \A i, j \in 1 .. Len(QfsLog) : QfsLog[i] = QfsLog[j] => i = j
  /\ Syslog = QfsLog[1] /\ Syslog \in QfsName /\ Syslog \in QfsLogNames
  /\ \A n \in QfsLogNames : \E i \in 1 .. Len(QfsLog) : n = QfsLog[i]
<1> DEFINE log == QfsLog
<1>1. /\ log \in Seq(QfsName) /\ Len(log) >= 2
      /\ \A i, j \in DOMAIN log : log[i] = log[j] => i = j
  BY QfsAssumption, Zenon DEF QfsAssumption
<1> HIDE DEF log
<1>2. Len(log) \in Nat /\ DOMAIN log = 1 .. Len(log) /\ \A i \in 1 .. Len(log) : log[i] \in QfsName
  BY <1>1
<1>3. \A i \in 1 .. Len(log) : log[i] \in QfsLogNames
  BY <1>2 DEF QfsLogNames, log
<1>4. \A n \in QfsLogNames : \E i \in 1 .. Len(log) : n = log[i]
  BY <1>2 DEF QfsLogNames, log
<1>5. 1 \in 1 .. Len(log)
  BY <1>1, <1>2
<1>6. Syslog = log[1]
  BY DEF Syslog, log
<1> QED BY <1>1, <1>2, <1>3, <1>4, <1>5, <1>6 DEF log

(* In r the parts of the log from i on are renamed. *)
QfsRotatedTo(f, r, i) ==
  /\ QfsGood(r)
  /\ \A n \in QfsName : n \notin QfsLogNames => QfsSame(f, r, n)
  /\ \A j \in 1 .. Len(QfsLog) : j < i => QfsSame(f, r, QfsLog[j])
  /\ i < Len(QfsLog) => QfsAbsent(r, QfsLog[i])
  /\ \A j \in 1 .. Len(QfsLog) : j > i => QfsFile(r, QfsLog[j]) = QfsFile(f, QfsLog[j - 1])

(* Renaming one part overwrites the next older one only, which has been    *)
(* renamed already.                                                        *)
LEMMA QfsRotateStep ==
  ASSUME NEW f, QfsGood(f), NEW r, NEW i \in 1 .. Len(QfsLog) - 1, QfsRotatedTo(f, r, i + 1),
         NEW g, g = fs_rename(r, QfsLog[i], QfsLog[i + 1])
  PROVE  QfsRotatedTo(f, g, i)
<1> DEFINE last == Len(QfsLog)
           n  == QfsLog[i]
           to == QfsLog[i + 1]
<1>1. i \in 1 .. last /\ i + 1 \in 1 .. last /\ i < last /\ last \in Nat /\ i \in Nat
  BY QfsParts
<1>2. n \in QfsName /\ to \in QfsName /\ n # to /\ n \in QfsLogNames /\ to \in QfsLogNames
  <2>1. n = to => i = i + 1
    BY <1>1, QfsParts
  <2> QED BY <1>1, <2>1, QfsParts
<1> HIDE DEF last, n, to
<1>3. QfsGood(r)
  BY DEF QfsRotatedTo
<1>4. /\ QfsGood(g) /\ QfsAbsent(g, n) /\ QfsFile(g, to) = QfsFile(r, n)
      /\ \A m \in QfsName : m # n /\ m # to => QfsSame(r, g, m)
  BY <1>2, <1>3, QfsRenamed DEF n, to
<1>5. ASSUME NEW m \in QfsName, m \notin QfsLogNames PROVE QfsSame(f, g, m)
  <2>1. QfsSame(f, r, m) /\ QfsSame(r, g, m)
    BY <1>2, <1>4, <1>5, Zenon DEF QfsRotatedTo
  <2> QED BY <2>1, QfsSameTrans
<1>6. ASSUME NEW j \in 1 .. last, j < i PROVE QfsSame(f, g, QfsLog[j])
  <2>1. QfsLog[j] \in QfsName /\ QfsLog[j] # n /\ QfsLog[j] # to
    BY <1>1, <1>6, QfsParts DEF n, to, last
  <2>2. j < i + 1
    BY <1>1, <1>6
  <2>3. QfsSame(f, r, QfsLog[j]) /\ QfsSame(r, g, QfsLog[j])
    BY <1>4, <2>1, <2>2 DEF QfsRotatedTo, last
  <2> QED BY <2>3, QfsSameTrans
<1>7. ASSUME NEW j \in 1 .. last, j > i PROVE QfsFile(g, QfsLog[j]) = QfsFile(f, QfsLog[j - 1])
  <2>1. CASE j = i + 1
    <3>1. i < i + 1
      BY <1>1
    <3>2. QfsSame(f, r, n)
      BY <1>1, <3>1 DEF QfsRotatedTo, last, n
    <3>3. QfsFile(r, n) = QfsFile(f, n)
      BY <1>2, <1>3, <3>2, QfsSameFile
    <3>4. QfsLog[j] = to /\ QfsLog[j - 1] = n
      BY <1>1, <2>1 DEF n, to
    <3> QED BY <1>4, <3>3, <3>4
  <2>2. CASE j # i + 1
    <3>1. j > i + 1 /\ j # i
      BY <1>1, <1>7, <2>2
    <3>2. QfsLog[j] \in QfsName /\ QfsLog[j] # n /\ QfsLog[j] # to
      BY <1>1, <2>2, <3>1, QfsParts DEF n, to, last
    <3>3. QfsSame(r, g, QfsLog[j])
      BY <1>4, <3>2
    <3>4. QfsFile(g, QfsLog[j]) = QfsFile(r, QfsLog[j])
      BY <1>3, <1>4, <3>2, <3>3, QfsSameFile
    <3>5. QfsFile(r, QfsLog[j]) = QfsFile(f, QfsLog[j - 1])
      BY <3>1 DEF QfsRotatedTo, last
    <3> QED BY <3>4, <3>5
  <2> QED BY <2>1, <2>2
<1> QED BY <1>4, <1>5, <1>6, <1>7, Zenon DEF QfsRotatedTo, last, n

(* log_rotate moves each part to the next and begins a new one. *)
LEMMA QfsRotates ==
  ASSUME QfsRoom, NEW f, QfsGood(f), NEW l, l = log_rotate(f)
  PROVE  /\ QfsGood(l.fs) /\ l.fd \in QfsIndex /\ l.offset = 0
         /\ l.fs.root[l.fd] = [name |-> Syslog, len |-> 0]
         /\ QfsSafely(l.fs, QfsName)
         /\ \A n \in QfsName : n \notin QfsLogNames => QfsSame(f, l.fs, n)
         /\ \A j \in 1 .. Len(QfsLog) : j > 1 =>
              QfsFile(l.fs, QfsLog[j]) = QfsFile(f, QfsLog[j - 1])
<1> DEFINE last == Len(QfsLog)
           r == CHOOSE r : QfsRenaming(f, last, r)
<1>1. l = log_init(r[1])
  BY Zenon DEF log_rotate, QfsRenaming
<1>2. last \in Nat /\ last >= 2
  BY QfsParts
<1> HIDE DEF last
<1>3. QfsRenaming(f, last, r)
  <2> HIDE DEF r
  <2>1. \E s : QfsRenaming(f, last, s)
    BY <1>2, QfsRenamingExists
  <2> QED BY <2>1, Zenon DEF r
<1> HIDE DEF r
<1>4. /\ r[last] = f
      /\ \A i \in 1 .. last - 1 : r[i] = fs_rename(r[i + 1], QfsLog[i], QfsLog[i + 1])
  <2>1. \A i \in 1 .. last : r[i] =
          IF i = last THEN f ELSE fs_rename(r[i + 1], QfsLog[i], QfsLog[i + 1])
    BY <1>3, Zenon DEF QfsRenaming
  <2>2. last \in 1 .. last /\ \A i \in 1 .. last - 1 : i \in 1 .. last /\ i # last
    BY <1>2
  <2> QED BY <2>1, <2>2, Zenon
<1> DEFINE T == {k \in 0 .. last - 1 : QfsRotatedTo(f, r[last - k], last - k)}
<1>5. 0 \in T
  <2>1. last - 0 = last /\ 0 \in 0 .. last - 1 /\ ~(last < last)
    BY <1>2
  <2>2. \A n : QfsSame(f, f, n)
    BY QfsSameRefl
  <2>3. \A j \in 1 .. Len(QfsLog) : ~(j > last)
    BY <1>2 DEF last
  <2>4. QfsRotatedTo(f, f, last)
    BY <2>1, <2>2, <2>3 DEF QfsRotatedTo, last
  <2> QED BY <1>4, <2>1, <2>4
<1>6. ASSUME NEW k \in 0 .. (last - 1) - 1, k \in T PROVE k + 1 \in T
  <2> DEFINE i == last - (k + 1)
  <2>1. i \in 1 .. last - 1 /\ last - k = i + 1 /\ k + 1 \in 0 .. last - 1
    BY <1>2
  <2>2. QfsRotatedTo(f, r[i + 1], i + 1)
    BY <1>6, <2>1
  <2> HIDE DEF T, i
  <2>3. QfsRotatedTo(f, r[i], i)
    BY <1>4, <2>1, <2>2, QfsRotateStep DEF last
  <2> QED BY <2>1, <2>3 DEF T, i
<1> HIDE DEF T
<1>7. \A k \in 0 .. last - 1 : k \in T
  <2>1. last - 1 \in Nat
    BY <1>2
  <2> QED BY <2>1, <1>5, <1>6, QfsInduction
<1>8. QfsRotatedTo(f, r[1], 1)
  <2>1. last - 1 \in 0 .. last - 1 /\ last - (last - 1) = 1
    BY <1>2
  <2> QED BY <1>7, <2>1 DEF T
<1>9. /\ QfsGood(r[1]) /\ QfsAbsent(r[1], Syslog)
      /\ \A n \in QfsName : n \notin QfsLogNames => QfsSame(f, r[1], n)
      /\ \A j \in 1 .. Len(QfsLog) : j > 1 => QfsFile(r[1], QfsLog[j]) = QfsFile(f, QfsLog[j - 1])
  <2>1. 1 < Len(QfsLog)
    BY <1>2 DEF last
  <2> QED BY <1>8, <2>1, QfsParts DEF QfsRotatedTo
<1>10. /\ QfsGood(l.fs) /\ l.fd \in QfsIndex /\ l.offset \in Nat
       /\ l.fs.root[l.fd] = [name |-> Syslog, len |-> l.offset]
       /\ \A n \in QfsName : n # Syslog => QfsSame(r[1], l.fs, n)
       /\ QfsAbsent(r[1], Syslog) => l.offset = 0 /\ QfsSafely(l.fs, QfsName)
  BY <1>1, <1>9, QfsLogOpened
<1>11. ASSUME NEW n \in QfsName, n \notin QfsLogNames PROVE QfsSame(f, l.fs, n)
  <2>1. QfsSame(f, r[1], n) /\ QfsSame(r[1], l.fs, n)
    BY <1>9, <1>10, <1>11, QfsParts
  <2> QED BY <2>1, QfsSameTrans
<1>12. ASSUME NEW j \in 1 .. Len(QfsLog), j > 1
       PROVE  QfsFile(l.fs, QfsLog[j]) = QfsFile(f, QfsLog[j - 1])
  <2>1. QfsLog[j] \in QfsName /\ QfsLog[j] # Syslog
    <3>1. 1 \in 1 .. Len(QfsLog) /\ j # 1
      BY <1>2, <1>12 DEF last
    <3> QED BY <3>1, QfsParts
  <2>2. QfsFile(l.fs, QfsLog[j]) = QfsFile(r[1], QfsLog[j])
    BY <1>9, <1>10, <2>1, QfsSameFile
  <2> QED BY <1>9, <1>12, <2>2
<1> QED BY <1>9, <1>10, <1>11, <1>12

QfsUploadSet ==
  [inode : QfsIndex, name : QfsName, offset : 0 .. QfsPages * QfsBlock, size : QfsUploads]

(* The log's inode, and that of an upload, which writes nothing any more   *)
(* once the file is full.                                                  *)
QfsLogAt(f, fd, offset) == fd # QfsNone => f.root[fd] = [name |-> Syslog, len |-> offset]

QfsUploadAt(f, u) ==
  /\ f.root[u.inode].name = u.name
  /\ u.offset = f.root[u.inode].len \/ QfsLimit(u.inode) <= u.offset

QfsDiskInv == QfsGood(fs) /\ qfsSafe \subseteq QfsName /\ QfsSafely(fs, qfsSafe)

QfsLogInv ==
  /\ logfd \in QfsIndex /\ logoffset \in Nat /\ logEnabled \in BOOLEAN
  /\ logEnabled => QfsLogAt(fs, logfd, logoffset)

QfsUploadInv ==
  /\ upload \in {QfsNone} \union QfsUploadSet
  /\ upload # QfsNone =>
       QfsUploadAt(fs, upload) /\ (upload.name \in QfsLogNames => ~logEnabled)

QfsInv == QfsDiskInv /\ QfsLogInv /\ QfsUploadInv /\ qfsWear \in 0 .. QfsWear

(* What does not change the log leaves logfd and logoffset at its end, *)
LEMMA QfsLogKept ==
  ASSUME NEW f, NEW g, NEW fd \in QfsIndex, NEW offset, QfsLogAt(f, fd, offset),
         QfsSame(f, g, Syslog)
  PROVE  QfsLogAt(g, fd, offset)
<1> SUFFICES ASSUME fd # QfsNone PROVE g.root[fd] = [name |-> Syslog, len |-> offset]
  BY DEF QfsLogAt
<1>1. f.root[fd] = [name |-> Syslog, len |-> offset]
  BY DEF QfsLogAt
<1>2. f.root[fd].name = Syslog
  BY <1>1
<1> QED BY <1>1, <1>2, Zenon DEF QfsSame, QfsSameInode

(* and what does not change the uploaded file leaves the upload at its. *)
LEMMA QfsUploadKept ==
  ASSUME NEW f, NEW g, NEW u \in QfsUploadSet, QfsUploadAt(f, u), QfsSame(f, g, u.name)
  PROVE  QfsUploadAt(g, u)
<1>1. u.inode \in QfsIndex
  BY DEF QfsUploadSet
<1>2. g.root[u.inode] = f.root[u.inode]
  BY <1>1, Zenon DEF QfsUploadAt, QfsSame, QfsSameInode
<1> QED BY <1>2, Zenon DEF QfsUploadAt

(* The invariant gives the types. *)
LEMMA QfsInvTypes ==
  ASSUME QfsInv
  PROVE  QfsTypeOK
<1>1. fs \in QfsChips
  BY DEF QfsInv, QfsDiskInv, QfsGood
<1>2. fs \in [root : QfsRootSet, savedRoot : QfsRootSet, buf1 : QfsPageSet,
              saved : [QfsPage -> QfsPageSet], lastpage : {0} \union QfsPage,
              index : 0 .. QfsInodes \union {255},
              inode : QfsInodeSet, pageModified : BOOLEAN, rootModified : BOOLEAN]
  BY <1>1, Zenon DEF QfsChips
<1>3. /\ logfd \in QfsIndex \union {QfsNone} /\ logoffset \in Nat /\ logEnabled \in BOOLEAN
      /\ upload \in {QfsNone} \union QfsUploadSet
      /\ qfsSafe \subseteq QfsName /\ qfsWear \in 0 .. QfsWear
  BY Zenon DEF QfsInv, QfsDiskInv, QfsLogInv, QfsUploadInv
<1> QED BY <1>2, <1>3, Zenon DEF QfsTypeOK, QfsRootSet, QfsPageSet, QfsInodeSet, QfsContents,
       QfsUploadSet

-----------------------------------------------------------------------------

(* The chip as it is delivered. *)
LEMMA QfsErasedIsChip ==
  /\ QfsErasedChip \in QfsChips
  /\ QfsErasedChip.savedRoot[QfsInodes] # QfsFormatted[QfsInodes]
<1> DEFINE blank == [name |-> QfsEmpty, len |-> 0]
           root  == [i \in 0 .. QfsInodes |-> blank]
           pages == [p \in QfsPage |-> QfsBlank]
<1>1. blank \in QfsInodeSet
  <2> DEFINE last == QfsPages * QfsBlock - 1
  <2>1. last \in Nat
    <3>1. QfsPages * QfsBlock \in Nat /\ QfsPages * QfsBlock >= QfsPages
      <4> DEFINE a == QfsPages * QfsBlock
      <4>1. a \in Nat
        BY QfsConstants, SMT
      <4>2. QfsPages * 0 + QfsPages <= a
        BY QfsConstants, QfsMonotone
      <4>3. QfsPages * 0 = 0
        BY QfsConstants, SMT
      <4> HIDE DEF a
      <4>4. a >= QfsPages
        BY <4>1, <4>2, <4>3, QfsConstants
      <4> QED BY <4>1, <4>4 DEF a
    <3> DEFINE a == QfsPages * QfsBlock
    <3> HIDE DEF a
    <3>2. a \in Nat /\ a >= QfsPages
      BY <3>1 DEF a
    <3>3. a - 1 \in Nat
      BY <3>2, QfsConstants
    <3> QED BY <3>3 DEF a
  <2> HIDE DEF last
  <2>2. 0 \in 0 .. last
    BY <2>1
  <2> QED BY <2>2 DEF QfsInodeSet, last
<1>2. root[QfsInodes] = blank /\ root[0] = blank
  BY QfsConstants
<1>3. blank.name = QfsEmpty /\ QfsFormatted[QfsInodes].name = QfsMagic
  BY QfsConstants DEF QfsFormatted
<1> HIDE DEF blank
<1>4. root \in QfsRootSet
  BY <1>1 DEF QfsRootSet
<1>5. QfsBlank \in QfsPageSet
  BY DEF QfsBlank, QfsPageSet, QfsContents
<1>6. pages \in [QfsPage -> QfsPageSet]
  BY <1>5
<1> HIDE DEF root, pages
<1>7. QfsErasedChip =
        [root |-> root, savedRoot |-> root, buf1 |-> QfsBlank, saved |-> pages,
         lastpage |-> 0, index |-> 255, inode |-> blank, pageModified |-> FALSE,
         rootModified |-> FALSE]
  BY <1>2, Zenon DEF QfsErasedChip, root, pages, blank
<1>8. 0 \in {0} \union QfsPage /\ 255 \in (0 .. QfsInodes) \union {255} /\ FALSE \in BOOLEAN
  OBVIOUS
<1>9. QfsErasedChip \in QfsChips
  BY ONLY <1>1, <1>4, <1>5, <1>6, <1>7, <1>8, Zenon DEF QfsChips
<1>10. QfsErasedChip.savedRoot = root
  BY <1>7
<1> QED BY <1>2, <1>3, <1>9, <1>10, QfsNamesDiffer

(* The files of the abstract store. *)
QfsFilesOf(f) == [n \in QfsName |-> QfsFile(f, n)]

(* The files as the host reads them. *)
LEMMA QfsReadAll == QfsGood(fs) => [n \in QfsName |-> QfsRead(n)] = QfsFilesOf(fs)
  BY QfsReadIsFile, Zenon DEF QfsFilesOf

(* A new state in which only n may have another file c ... *)
LEMMA QfsOneChanged ==
  ASSUME NEW f, QfsGood(f), NEW g, QfsGood(g), NEW n \in QfsName,
         \A m \in QfsName : m # n => QfsSame(f, g, m)
  PROVE  QfsFilesOf(g) = [QfsFilesOf(f) EXCEPT ![n] = QfsFile(g, n)]
<1>1. \A m \in QfsName : m # n => QfsFile(g, m) = QfsFile(f, m)
  BY QfsSameFile
<1> QED BY <1>1 DEF QfsFilesOf

(* ... or none. *)
LEMMA QfsNoneChanged ==
  ASSUME NEW f, QfsGood(f), NEW g, QfsGood(g), \A m \in QfsName : QfsSame(f, g, m)
  PROVE  QfsFilesOf(g) = QfsFilesOf(f)
<1>1. \A m \in QfsName : QfsFile(g, m) = QfsFile(f, m)
  BY QfsSameFile
<1> QED BY <1>1, Zenon DEF QfsFilesOf

(* A step of the store of files, with the files and the safe names before  *)
(* and after it.                                                           *)
QfsMoves(F, S, G, T) ==
  \/ \E n \in QfsName :
       \/ /\ G = [F EXCEPT ![n] = QfsNone] \/ G = [F EXCEPT ![n] = << >>]
          /\ T = S \ {n}
       \/ /\ F[n] # QfsNone
          /\ \E c \in QfsData \union {QfsLine}, k \in 1 .. 2 :
               G = [F EXCEPT ![n] = F[n] \o QfsMore(k, c)]
          /\ T = S \ {n} \/ T = QfsName
       \/ G = [F EXCEPT ![n] = QfsNone] /\ T = QfsName
  \/ /\ \E c \in QfsData \union {QfsLine} : G[Syslog] = << c >>
     /\ \A j \in 2 .. Len(QfsLog) : G[QfsLog[j]] = F[QfsLog[j - 1]]
     /\ \A n \in QfsName : n \notin QfsLogNames => G[n] = F[n]
     /\ T = QfsName \ {Syslog}
  \/ (\A n \in QfsName : G[n] = QfsNone) /\ T = QfsName
  \/ G = F /\ (T = QfsName \/ T = S)
  \/ /\ \A n \in S : G[n] = IF n = Syslog /\ F[n] = QfsNone THEN << >> ELSE F[n]
     /\ T = QfsName

LEMMA QfsMovesStore ==
  ASSUME QfsMoves(QfsFilesOf(fs), qfsSafe, QfsFilesOf(fs)', qfsSafe'),
         [n \in QfsName |-> QfsRead(n)] = QfsFilesOf(fs),
         [n \in QfsName |-> QfsRead(n)]' = QfsFilesOf(fs)'
  PROVE  [QfsFiles!Next]_<<[n \in QfsName |-> QfsRead(n)], qfsSafe>>
<1> DEFINE F == QfsFilesOf(fs)
           store == [n \in QfsName |-> QfsRead(n)]
<1>0. store = F /\ store' = F' /\ QfsMoves(F, qfsSafe, F', qfsSafe')
  OBVIOUS
<1>1. /\ F = [n \in QfsName |-> F[n]] /\ F' = [n \in QfsName |-> F'[n]]
      /\ DOMAIN F = QfsName /\ DOMAIN F' = QfsName
  BY DEF QfsFilesOf
<1> HIDE DEF F
<1>2. CASE \E n \in QfsName :
             /\ F' = [F EXCEPT ![n] = QfsNone] \/ F' = [F EXCEPT ![n] = << >>]
             /\ qfsSafe' = qfsSafe \ {n}
  <2>1. PICK n \in QfsName :
             /\ F' = [F EXCEPT ![n] = QfsNone] \/ F' = [F EXCEPT ![n] = << >>]
             /\ qfsSafe' = qfsSafe \ {n}
    BY <1>2
  <2>2. QfsFiles!Replace(n)
    BY <1>0, <2>1, Zenon DEF QfsFiles!Replace
  <2> QED BY <2>2, Zenon DEF QfsFiles!Next
<1>3. CASE \E n \in QfsName :
             /\ F[n] # QfsNone
             /\ \E c \in QfsData \union {QfsLine}, k \in 1 .. 2 :
                  F' = [F EXCEPT ![n] = F[n] \o QfsMore(k, c)]
             /\ qfsSafe' = qfsSafe \ {n} \/ qfsSafe' = QfsName
  <2>1. PICK n \in QfsName :
             /\ F[n] # QfsNone
             /\ \E c \in QfsData \union {QfsLine}, k \in 1 .. 2 :
                  F' = [F EXCEPT ![n] = F[n] \o QfsMore(k, c)]
             /\ qfsSafe' = qfsSafe \ {n} \/ qfsSafe' = QfsName
    BY <1>3
  <2>2. QfsFiles!Extend(n)
    BY <1>0, <2>1, Zenon DEF QfsFiles!Extend, QfsMore
  <2> QED BY <2>2, Zenon DEF QfsFiles!Next
<1>4. CASE \E n \in QfsName : F' = [F EXCEPT ![n] = QfsNone] /\ qfsSafe' = QfsName
  <2>1. PICK n \in QfsName : F' = [F EXCEPT ![n] = QfsNone] /\ qfsSafe' = QfsName
    BY <1>4
  <2>2. QfsFiles!RemoveSafely(n)
    BY <1>0, <2>1, Zenon DEF QfsFiles!RemoveSafely
  <2> QED BY <2>2, Zenon DEF QfsFiles!Next
<1>5. CASE /\ \E c \in QfsData \union {QfsLine} : F'[Syslog] = << c >>
           /\ \A j \in 2 .. Len(QfsLog) : F'[QfsLog[j]] = F[QfsLog[j - 1]]
           /\ \A n \in QfsName : n \notin QfsLogNames => F'[n] = F[n]
           /\ qfsSafe' = QfsName \ {Syslog}
  <2>1. PICK c \in QfsData \union {QfsLine} : F'[Syslog] = << c >>
    BY <1>5
  <2> DEFINE Val(n) ==
         IF n = QfsLog[1] THEN << c >>
         ELSE IF \E i \in 2 .. Len(QfsLog) : n = QfsLog[i]
              THEN store[QfsLog[(CHOOSE i \in 2 .. Len(QfsLog) : n = QfsLog[i]) - 1]]
              ELSE store[n]
  <2> HIDE DEF store
  <2>2. ASSUME NEW n \in QfsName PROVE F'[n] = Val(n)
    <3>1. CASE n = QfsLog[1]
      BY <2>1, <3>1 DEF Syslog
    <3>2. CASE n # QfsLog[1] /\ \E i \in 2 .. Len(QfsLog) : n = QfsLog[i]
      <4> DEFINE j == CHOOSE i \in 2 .. Len(QfsLog) : n = QfsLog[i]
      <4>1. j \in 2 .. Len(QfsLog) /\ n = QfsLog[j]
        BY <3>2
      <4>2. Val(n) = F[QfsLog[j - 1]]
        BY <1>0, <3>2
      <4> HIDE DEF j, Val
      <4> QED BY <1>5, <4>1, <4>2
    <3>3. CASE n # QfsLog[1] /\ ~\E i \in 2 .. Len(QfsLog) : n = QfsLog[i]
      <4>1. n \notin QfsLogNames
        <5>1. \A i \in 1 .. Len(QfsLog) : i = 1 \/ i \in 2 .. Len(QfsLog)
          BY QfsParts
        <5> QED BY <3>3, <5>1, QfsParts
      <4>2. Val(n) = F[n]
        BY <1>0, <3>3
      <4> QED BY <1>5, <4>1, <4>2
    <3> QED BY <3>1, <3>2, <3>3
  <2>3. F' = [n \in QfsName |-> Val(n)]
    <3> HIDE DEF Val
    <3> QED BY <1>1, <2>2, Zenon
  <2>4. QfsFiles!Rotate
    <3>1. qfsSafe' = QfsName \ {QfsLog[1]}
      BY <1>5 DEF Syslog
    <3>2. store' = [n \in QfsName |-> Val(n)]
      BY <1>0, <2>3
    <3>3. c \in QfsData \union {QfsLine}
      OBVIOUS
    <3> QED BY ONLY <3>1, <3>2, <3>3, Zenon DEF QfsFiles!Rotate, store
  <2> QED BY <2>4, Zenon DEF QfsFiles!Next
<1>6. CASE (\A n \in QfsName : F'[n] = QfsNone) /\ qfsSafe' = QfsName
  <2>1. F' = [n \in QfsName |-> QfsNone]
    BY <1>1, <1>6, Zenon
  <2>2. QfsFiles!Forget
    BY <1>0, <1>6, <2>1, Zenon DEF QfsFiles!Forget
  <2> QED BY <2>2, Zenon DEF QfsFiles!Next
<1>7. CASE F' = F /\ (qfsSafe' = QfsName \/ qfsSafe' = qfsSafe)
  <2>1. CASE qfsSafe' = QfsName
    <3>1. QfsFiles!Sync
      BY <1>0, <1>7, <2>1, Zenon DEF QfsFiles!Sync
    <3> QED BY <3>1, Zenon DEF QfsFiles!Next
  <2>2. CASE qfsSafe' = qfsSafe
    BY <1>0, <1>7, <2>2
  <2> QED BY <1>7, <2>1, <2>2
<1>8. CASE /\ \A n \in qfsSafe :
                F'[n] = IF n = Syslog /\ F[n] = QfsNone THEN << >> ELSE F[n]
           /\ qfsSafe' = QfsName
  <2>1. \A n \in qfsSafe :
          F'[n] = IF n = QfsLog[1] /\ F[n] = QfsNone THEN << >> ELSE F[n]
    BY <1>8, Zenon DEF Syslog
  <2>2. QfsFiles!PowerFailure
    BY <1>0, <1>8, <2>1, Zenon DEF QfsFiles!PowerFailure
  <2> QED BY <2>2, Zenon DEF QfsFiles!Next
<1> QED BY <1>0, <1>2, <1>3, <1>4, <1>5, <1>6, <1>7, <1>8, Zenon DEF QfsMoves

(* The log and an upload go on when their files are not touched. *)
LEMMA QfsUsesKept ==
  ASSUME QfsLogInv, QfsUploadInv, UNCHANGED <<logfd, logoffset, logEnabled, upload>>,
         logEnabled => QfsSame(fs, fs', Syslog),
         upload # QfsNone => QfsSame(fs, fs', upload.name)
  PROVE  QfsLogInv' /\ QfsUploadInv'
<1>1. logEnabled => QfsLogAt(fs', logfd, logoffset)
  BY QfsLogKept DEF QfsLogInv
<1>2. upload # QfsNone => QfsUploadAt(fs', upload)
  BY QfsUploadKept DEF QfsUploadInv
<1>3. QfsLogInv'
  BY <1>1, Zenon DEF QfsLogInv
<1>4. QfsUploadInv'
  BY <1>2, Zenon DEF QfsUploadInv
<1> QED BY <1>3, <1>4

QfsStep == QfsInv' /\ QfsMoves(QfsFilesOf(fs), qfsSafe, QfsFilesOf(fs)', qfsSafe')

(* W removes the file and creates it again. *)
LEMMA QfsUploadStep ==
  ASSUME QfsRoom, QfsInv, NEW n \in QfsName, NEW size \in QfsUploads, QfsUpload(n, size)
  PROVE  QfsStep
<1> DEFINE removed == fs_remove(fs, n)
           created == fs_create(removed, n)
<1>1. /\ upload = QfsNone /\ (n \in QfsLogNames => ~logEnabled)
      /\ fs' = created
      /\ upload' = IF fs_created(removed) /\ size > 0
                   THEN [inode |-> created.index, name |-> n, offset |-> 0, size |-> size]
                   ELSE QfsNone
      /\ qfsSafe' = qfsSafe \ {n}
      /\ UNCHANGED <<logfd, logoffset, logEnabled, qfsWear>>
  BY Zenon DEF QfsUpload
<1>2. /\ QfsGood(fs) /\ qfsSafe \subseteq QfsName /\ QfsSafely(fs, qfsSafe)
      /\ QfsLogInv /\ QfsUploadInv
  BY Zenon DEF QfsInv, QfsDiskInv
<1>3. QfsEmpty \in QfsName \union {QfsEmpty} /\ QfsEmpty \notin QfsName /\ n # QfsEmpty
  BY QfsNamesDiffer
<1>4. removed = QfsSetName(fs, n, QfsEmpty)
  BY Zenon DEF fs_remove
<1>5. /\ QfsGood(removed) /\ QfsAbsent(removed, n)
      /\ \A m : m # n /\ m # QfsEmpty => QfsSame(fs, removed, m)
      /\ \A names, less : /\ QfsSafely(fs, names) /\ less \subseteq names
                          /\ n \notin less /\ QfsEmpty \notin less
                          => QfsSafely(removed, less)
  BY <1>2, <1>3, <1>4, QfsSetNamed
<1> HIDE DEF removed
<1>6. /\ fs_created(removed) /\ QfsGood(created) /\ created.index \in QfsIndex
      /\ created.root[created.index] = [name |-> n, len |-> 0]
      /\ \A m \in QfsName : m # n => QfsSame(removed, created, m)
      /\ \A names, less : /\ QfsSafely(removed, names) /\ less \subseteq names \intersect QfsName
                          /\ n \notin less
                          => QfsSafely(created, less)
  BY <1>5, QfsCreated
<1> HIDE DEF created
<1>7. \A m \in QfsName : m # n => QfsSame(fs, created, m)
  <2> SUFFICES ASSUME NEW m \in QfsName, m # n PROVE QfsSame(fs, created, m)
    OBVIOUS
  <2>1. QfsSame(fs, removed, m) /\ QfsSame(removed, created, m)
    BY <1>3, <1>5, <1>6
  <2> QED BY <2>1, QfsSameTrans
<1>8. QfsSafely(created, qfsSafe \ {n})
  <2> DEFINE less == qfsSafe \ {n}
  <2>1. /\ less \subseteq qfsSafe /\ n \notin less /\ QfsEmpty \notin less
        /\ less \subseteq less \intersect QfsName
    BY <1>2, <1>3
  <2> HIDE DEF less
  <2>2. QfsSafely(removed, less)
    BY <1>2, <1>5, <2>1
  <2> QED BY <1>6, <2>1, <2>2 DEF less
<1>9. QfsDiskInv'
  BY <1>1, <1>2, <1>6, <1>8 DEF QfsDiskInv
<1>10. QfsLogInv'
  <2>1. logEnabled => n # Syslog
    BY <1>1, QfsParts
  <2>2. logEnabled => QfsLogAt(created, logfd, logoffset)
    BY <1>2, <1>7, <2>1, QfsParts, QfsLogKept DEF QfsLogInv
  <2> QED BY <1>1, <1>2, <2>2, Zenon DEF QfsLogInv
<1>11. QfsUploadInv'
  <2> DEFINE u == [inode |-> created.index, name |-> n, offset |-> 0, size |-> size]
  <2>1. upload' = u \/ upload' = QfsNone
    BY <1>1
  <2>2. u \in QfsUploadSet
    <3>1. QfsPages * QfsBlock \in Nat
      BY QfsConstants, SMT
    <3>2. 0 \in 0 .. QfsPages * QfsBlock
      BY <3>1
    <3> QED BY <1>6, <3>2 DEF QfsUploadSet
  <2>3. u.inode = created.index /\ u.name = n /\ u.offset = 0
    OBVIOUS
  <2> HIDE DEF u
  <2>4. created.root[created.index].name = n /\ created.root[created.index].len = 0
    BY <1>6
  <2>5. QfsUploadAt(created, u)
    BY <2>3, <2>4 DEF QfsUploadAt
  <2> QED BY <1>1, <2>1, <2>2, <2>3, <2>5, Zenon DEF QfsUploadInv
<1>12. QfsInv'
  BY <1>1, <1>9, <1>10, <1>11 DEF QfsInv
<1>13. QfsFile(created, n) = << >>
  <2>1. created.root[created.index].name = n /\ created.root[created.index].len = 0
    BY <1>6
  <2> QED BY <1>6, <2>1, QfsFileContents
<1>14. QfsFilesOf(created) = [QfsFilesOf(fs) EXCEPT ![n] = << >>]
  BY <1>2, <1>6, <1>7, <1>13, QfsOneChanged
<1>15. QfsFilesOf(fs)' = QfsFilesOf(created)
  BY <1>1
<1> QED BY <1>1, <1>12, <1>14, <1>15, Zenon DEF QfsStep, QfsMoves

(* Deleting removes the file and saves the directory. *)
LEMMA QfsDeleteStep ==
  ASSUME QfsInv, NEW n \in QfsName, QfsDelete(n)
  PROVE  QfsStep
<1> DEFINE removed == fs_remove(fs, n)
           synced  == fs_sync(removed)
<1>1. /\ upload = QfsNone /\ (n = Syslog => ~logEnabled)
      /\ fs' = synced /\ qfsSafe' = QfsName
      /\ UNCHANGED <<logfd, logoffset, logEnabled, upload, qfsWear>>
  BY Zenon DEF QfsDelete
<1>2. QfsGood(fs) /\ QfsLogInv /\ QfsUploadInv
  BY Zenon DEF QfsInv, QfsDiskInv
<1>3. QfsEmpty \in QfsName \union {QfsEmpty} /\ QfsEmpty \notin QfsName /\ n # QfsEmpty
  BY QfsNamesDiffer
<1>4. removed = QfsSetName(fs, n, QfsEmpty)
  BY Zenon DEF fs_remove
<1>5. /\ QfsGood(removed) /\ QfsAbsent(removed, n)
      /\ \A m : m # n /\ m # QfsEmpty => QfsSame(fs, removed, m)
  BY <1>2, <1>3, <1>4, QfsSetNamed
<1> HIDE DEF removed
<1>6. QfsReady(removed)
  BY <1>5, Zenon DEF QfsGood, QfsReady
<1>7. /\ QfsGood(synced) /\ synced.root = removed.root
      /\ \A m \in QfsName : QfsSame(removed, synced, m)
      /\ \A names : QfsSafely(synced, names)
  BY <1>6, QfsSynced, QfsSyncKeeps
<1> HIDE DEF synced
<1>8. \A m \in QfsName : m # n => QfsSame(fs, synced, m)
  <2> SUFFICES ASSUME NEW m \in QfsName, m # n PROVE QfsSame(fs, synced, m)
    OBVIOUS
  <2>1. QfsSame(fs, removed, m) /\ QfsSame(removed, synced, m)
    BY <1>3, <1>5, <1>7
  <2> QED BY <2>1, QfsSameTrans
<1>9. QfsDiskInv'
  BY <1>1, <1>7 DEF QfsDiskInv
<1>10. QfsLogInv' /\ QfsUploadInv'
  <2>1. logEnabled => QfsSame(fs, fs', Syslog)
    BY <1>1, <1>8, QfsParts
  <2> QED BY <1>1, <1>2, <2>1, QfsUsesKept
<1>11. QfsInv'
  BY <1>1, <1>9, <1>10 DEF QfsInv
<1>12. QfsFile(synced, n) = QfsNone
  BY <1>5, <1>7, QfsFileNone DEF QfsAbsent
<1>13. QfsFilesOf(synced) = [QfsFilesOf(fs) EXCEPT ![n] = QfsNone]
  BY <1>2, <1>7, <1>8, <1>12, QfsOneChanged
<1>14. QfsFilesOf(fs)' = QfsFilesOf(synced)
  BY <1>1
<1> QED BY <1>1, <1>11, <1>13, <1>14, Zenon DEF QfsStep, QfsMoves

(* Formatting removes all files. *)
LEMMA QfsFormatStep ==
  ASSUME QfsInv, QfsFormat
  PROVE  QfsStep
<1> DEFINE new == fs_init(fs, TRUE)
<1>1. /\ upload = QfsNone /\ ~logEnabled
      /\ fs' = new /\ qfsSafe' = QfsName
      /\ UNCHANGED <<logfd, logoffset, logEnabled, upload, qfsWear>>
  BY Zenon DEF QfsFormat
<1>2. fs \in QfsChips /\ QfsLogInv /\ QfsUploadInv
  BY Zenon DEF QfsInv, QfsDiskInv, QfsGood
<1>3. /\ QfsGood(new) /\ \A n \in QfsName : QfsAbsent(new, n)
      /\ \A names : QfsSafely(new, names)
  <2> DEFINE force == TRUE
  <2>1. force \in BOOLEAN /\ force /\ new = fs_init(fs, force)
    OBVIOUS
  <2> HIDE DEF force, new
  <2> QED BY ONLY <1>2, <2>1, QfsFormats
<1> HIDE DEF new
<1>4. QfsDiskInv'
  BY <1>1, <1>3 DEF QfsDiskInv
<1>5. QfsLogInv' /\ QfsUploadInv'
  BY <1>1, <1>2, QfsUsesKept
<1>6. QfsInv'
  BY <1>1, <1>4, <1>5 DEF QfsInv
<1>7. \A n \in QfsName : QfsFile(new, n) = QfsNone
  BY <1>3, QfsFileContents
<1>8. \A n \in QfsName : QfsFilesOf(new)[n] = QfsNone
  BY <1>7 DEF QfsFilesOf
<1>9. QfsFilesOf(fs)' = QfsFilesOf(new)
  BY <1>1
<1> QED BY <1>1, <1>6, <1>8, <1>9, Zenon DEF QfsStep, QfsMoves

(* Steps that leave the files and the safe names alone. *)
QfsQuiet ==
  /\ QfsGood(fs') /\ \A n \in QfsName : QfsSame(fs, fs', n)
  /\ \/ QfsSafely(fs', qfsSafe) /\ qfsSafe' = qfsSafe
     \/ QfsSafely(fs', QfsName) /\ qfsSafe' = QfsName
  /\ UNCHANGED <<logfd, logoffset, logEnabled, upload, qfsWear>>

(* A command that changes no file only has to keep the safe ones. *)
LEMMA QfsQuietStep ==
  ASSUME QfsInv, QfsQuiet
  PROVE  QfsStep
<1>0. /\ QfsGood(fs') /\ \A n \in QfsName : QfsSame(fs, fs', n)
      /\ \/ QfsSafely(fs', qfsSafe) /\ qfsSafe' = qfsSafe
         \/ QfsSafely(fs', QfsName) /\ qfsSafe' = QfsName
      /\ UNCHANGED <<logfd, logoffset, logEnabled, upload, qfsWear>>
  BY Zenon DEF QfsQuiet
<1>1. QfsGood(fs) /\ QfsLogInv /\ QfsUploadInv /\ qfsSafe \subseteq QfsName
  BY Zenon DEF QfsInv, QfsDiskInv
<1>2. QfsDiskInv'
  BY <1>0, <1>1 DEF QfsDiskInv
<1>3. upload # QfsNone => upload.name \in QfsName
  BY <1>1 DEF QfsUploadInv, QfsUploadSet
<1>4. QfsLogInv' /\ QfsUploadInv'
  BY <1>0, <1>1, <1>3, QfsUsesKept, QfsParts
<1>5. QfsInv'
  BY <1>0, <1>2, <1>4 DEF QfsInv
<1>6. QfsFilesOf(fs') = QfsFilesOf(fs)
  BY <1>0, <1>1, QfsNoneChanged
<1>7. QfsFilesOf(fs)' = QfsFilesOf(fs')
  OBVIOUS
<1>8. qfsSafe' = qfsSafe \/ qfsSafe' = QfsName
  BY <1>0
<1> QED BY <1>5, <1>6, <1>7, <1>8, Zenon DEF QfsStep, QfsMoves

(* Reading a file or the directory changes what is cached only. *)
LEMMA QfsReadStep ==
  ASSUME QfsInv, NEW n \in QfsName, QfsReadFile(n)
  PROVE  QfsStep
<1> DEFINE g == fs_get_inode(fs, n)
           h == fs_read(g, g.index)
<1>1. /\ fs' = IF fs_found(fs, n) THEN h ELSE g
      /\ qfsSafe' = qfsSafe
      /\ UNCHANGED <<logfd, logoffset, logEnabled, upload, qfsWear>>
  BY Zenon DEF QfsReadFile
<1>2. QfsGood(fs) /\ QfsSafely(fs, qfsSafe)
  BY Zenon DEF QfsInv, QfsDiskInv
<1>3. /\ QfsGood(g) /\ QfsSameStore(fs, g)
      /\ fs_found(fs, n) => g.index \in QfsIndex /\ fs.root[g.index].name = n
  BY <1>2, QfsGot
<1>4. /\ \A m : QfsSame(fs, g, m)
      /\ \A names : QfsSafely(fs, names) => QfsSafely(g, names)
  BY <1>2, <1>3, QfsStored DEF QfsGood
<1> HIDE DEF g
<1>5. CASE fs_found(fs, n)
  <2>1. g.index \in QfsIndex /\ g.root[g.index].name \in QfsName
    BY <1>3, <1>5 DEF QfsSameStore
  <2>2. /\ QfsGood(h) /\ \A m \in QfsName : QfsSame(g, h, m)
        /\ \A names : QfsSafely(g, names) => QfsSafely(h, names)
    BY <1>3, <2>1, QfsReads
  <2> HIDE DEF h
  <2>3. \A m \in QfsName : QfsSame(fs, h, m)
    BY <1>4, <2>2, QfsSameTrans
  <2>4. fs' = h /\ QfsSafely(h, qfsSafe)
    BY <1>1, <1>2, <1>4, <1>5, <2>2
  <2>5. QfsQuiet
    BY <1>1, <2>2, <2>3, <2>4, Zenon DEF QfsQuiet
  <2> QED BY <2>5, QfsQuietStep
<1>6. CASE ~fs_found(fs, n)
  <2>1. fs' = g
    BY <1>1, <1>6
  <2>2. QfsQuiet
    BY <1>1, <1>2, <1>3, <1>4, <2>1, Zenon DEF QfsQuiet
  <2> QED BY <2>2, QfsQuietStep
<1> QED BY <1>5, <1>6

LEMMA QfsListStep ==
  ASSUME QfsInv, fs_list
  PROVE  QfsStep
<1>1. /\ fs' = QfsCaching(fs, QfsInodes, QfsInodes - 1) /\ qfsSafe' = qfsSafe
      /\ UNCHANGED <<logfd, logoffset, logEnabled, upload, qfsWear>>
  BY Zenon DEF fs_list, QfsCaching
<1>2. QfsGood(fs) /\ QfsSafely(fs, qfsSafe)
  BY Zenon DEF QfsInv, QfsDiskInv
<1>3. QfsMayCache(fs, QfsInodes, QfsInodes - 1)
  <2>1. /\ QfsInodes \in (0 .. QfsInodes) \union {255} /\ QfsInodes - 1 \in 0 .. QfsInodes
        /\ QfsInodes \notin QfsIndex
    BY QfsConstants DEF QfsIndex
  <2>2. fs.root[QfsInodes - 1].name \notin QfsName
    BY <1>2, QfsNamesDiffer DEF QfsGood, QfsDir
  <2> QED BY <2>1, <2>2, Zenon DEF QfsMayCache
<1> DEFINE i == QfsInodes
           j == QfsInodes - 1
<1> HIDE DEF i, j
<1>4. fs' = QfsCaching(fs, i, j) /\ QfsMayCache(fs, i, j)
  BY <1>1, <1>3 DEF i, j
<1>5. /\ fs' \in QfsChips /\ QfsSameStore(fs, fs') /\ QfsCache(fs')
  BY ONLY <1>2, <1>4, QfsRecached
<1>6. /\ QfsGood(fs')
      /\ \A n : QfsSame(fs, fs', n)
      /\ \A names : QfsSafely(fs, names) => QfsSafely(fs', names)
  BY <1>2, <1>5, QfsStored
<1>7. QfsQuiet
  BY <1>1, <1>2, <1>6, Zenon DEF QfsQuiet
<1> QED BY <1>7, QfsQuietStep

(* Saving makes all files safe. *)
LEMMA QfsBatteryStep ==
  ASSUME QfsInv, LogBatteryLow
  PROVE  QfsStep
<1>1. /\ fs' = fs_sync(fs) /\ qfsSafe' = QfsName
      /\ UNCHANGED <<logfd, logoffset, logEnabled, upload, qfsWear>>
  BY Zenon DEF LogBatteryLow
<1>2. QfsReady(fs)
  BY Zenon DEF QfsInv, QfsDiskInv, QfsGood, QfsReady
<1>3. /\ QfsGood(fs') /\ \A n \in QfsName : QfsSame(fs, fs', n)
      /\ \A names : QfsSafely(fs', names)
  BY <1>1, <1>2, QfsSynced, QfsSyncKeeps
<1>4. QfsQuiet
  BY <1>1, <1>3, Zenon DEF QfsQuiet
<1> QED BY <1>4, QfsQuietStep

(* Turning the log on or off. *)
LEMMA QfsEnableStep ==
  ASSUME QfsInv, QfsEnableLog
  PROVE  QfsStep
<1>1. /\ upload = QfsNone /\ (logEnabled \/ QfsLogIsCurrent) /\ logEnabled' = ~logEnabled
      /\ UNCHANGED <<fs, logfd, logoffset, upload, qfsSafe, qfsWear>>
  BY Zenon DEF QfsEnableLog
<1>2. QfsDiskInv /\ QfsLogInv /\ QfsUploadInv
  BY Zenon DEF QfsInv
<1>3. QfsDiskInv'
  BY <1>1, <1>2, Zenon DEF QfsDiskInv
<1>4. QfsLogInv'
  <2>1. logEnabled' => QfsLogAt(fs, logfd, logoffset)
    BY <1>1, Zenon DEF QfsLogIsCurrent, QfsLogAt
  <2>2. logEnabled' \in BOOLEAN
    BY <1>1
  <2> QED BY <1>1, <1>2, <2>1, <2>2, Zenon DEF QfsLogInv
<1>5. QfsUploadInv'
  BY <1>1, <1>2, Zenon DEF QfsUploadInv
<1>6. QfsInv'
  <2>1. qfsWear' \in 0 .. QfsWear
    BY <1>1 DEF QfsInv
  <2> QED BY <1>3, <1>4, <1>5, <2>1, Zenon DEF QfsInv
<1>7. QfsFilesOf(fs)' = QfsFilesOf(fs)
  BY <1>1
<1> QED BY <1>1, <1>6, <1>7, Zenon DEF QfsStep, QfsMoves

(* A chunk of an upload appends to its file, or is dropped if the file is  *)
(* full, and the last one makes all files safe.                            *)
LEMMA QfsChunkStep ==
  ASSUME QfsInv, NEW k \in 1 .. 2, NEW c \in QfsData, QfsChunk(k, c)
  PROVE  QfsStep
<1> DEFINE i    == upload.inode
           n    == upload.name
           off  == upload.offset
           new  == fs_write(fs, i, off, k, c)
           done == off + k = upload.size
<1>1. /\ upload # QfsNone
      /\ qfsWear + k <= QfsWear /\ qfsWear' = qfsWear + k
      /\ off + k <= QfsPages * QfsBlock
      /\ fs' = IF done THEN fs_sync(new) ELSE new
      /\ upload' = IF done THEN QfsNone ELSE [upload EXCEPT !.offset = @ + k]
      /\ qfsSafe' = IF done THEN QfsName ELSE IF new = fs THEN qfsSafe ELSE qfsSafe \ {n}
      /\ UNCHANGED <<logfd, logoffset, logEnabled>>
  BY Zenon DEF QfsChunk
<1>2. /\ QfsGood(fs) /\ qfsSafe \subseteq QfsName /\ QfsSafely(fs, qfsSafe)
      /\ QfsLogInv /\ QfsUploadInv
  BY Zenon DEF QfsInv, QfsDiskInv
<1>3. /\ upload \in QfsUploadSet /\ QfsUploadAt(fs, upload)
      /\ n \in QfsLogNames => ~logEnabled
  BY <1>1, <1>2, Zenon DEF QfsUploadInv
<1>4. i \in QfsIndex /\ n \in QfsName /\ off \in Nat
  BY <1>3 DEF QfsUploadSet
<1>5. /\ fs.root[i].name = n /\ (off = fs.root[i].len \/ QfsLimit(i) <= off)
      /\ i \in QfsUsable
  <2>1. fs.root[i].name = n /\ (off = fs.root[i].len \/ QfsLimit(i) <= off)
    BY <1>3, Zenon DEF QfsUploadAt
  <2>2. fs.root[i].name \in QfsName
    BY <1>4, <2>1
  <2> QED BY <1>2, <1>4, <2>1, <2>2, QfsContentSeq
<1>6. QfsLimit(i) \in Nat
  BY <1>5, QfsLimits
<1> DEFINE next == [upload EXCEPT !.offset = @ + k]
<1>7. next \in QfsUploadSet /\ next.inode = i /\ next.name = n /\ next.offset = off + k
  <2>1. off + k \in Nat /\ QfsPages * QfsBlock \in Nat
    BY <1>4, QfsConstants, SMT
  <2> DEFINE all == QfsPages * QfsBlock
  <2>2. off + k <= all /\ all \in Nat
    BY <1>1, <2>1
  <2> HIDE DEF all
  <2>3. off + k \in 0 .. all
    BY <2>1, <2>2
  <2> QED BY <1>3, <2>3 DEF QfsUploadSet, all
<1> HIDE DEF next, new, i, n, off

(* What was written, or not. *)
<1>8. /\ QfsGood(new) /\ QfsSafely(new, qfsSafe \ {n})
      /\ \A m \in QfsName : m # n => QfsSame(fs, new, m)
      /\ QfsUploadAt(new, next)
      /\ \/ new = fs
         \/ /\ new # fs /\ QfsFilesOf(fs)[n] # QfsNone
            /\ QfsFilesOf(new) = [QfsFilesOf(fs) EXCEPT ![n] = QfsFilesOf(fs)[n] \o QfsMore(k, c)]
  <2>1. CASE off + k > QfsLimit(i)
    <3>1. new = fs
      BY <2>1, Zenon DEF fs_write, new
    <3>2. QfsLimit(i) <= off + k
      BY <1>4, <1>6, <2>1
    <3>3. QfsUploadAt(new, next)
      BY <1>5, <1>7, <3>1, <3>2 DEF QfsUploadAt
    <3>4. QfsSafely(fs, qfsSafe \ {n})
      BY <1>2, Zenon DEF QfsSafely
    <3>5. \A m : QfsSame(fs, fs, m)
      BY QfsSameRefl
    <3> QED BY <1>2, <3>1, <3>3, <3>4, <3>5
  <2>2. CASE ~(off + k > QfsLimit(i))
    <3>1. off + k <= QfsLimit(i) /\ ~(QfsLimit(i) <= off) /\ off + k # off
      BY <1>4, <1>6, <2>2
    <3>2. off = fs.root[i].len
      BY <1>5, <3>1
    <3>3. fs.root[i] = [name |-> n, len |-> off]
      BY <1>2, <1>4, <1>5, <3>2, QfsFields, QfsChipFields DEF QfsGood
    <3>4. c \in QfsContents
      BY DEF QfsContents
    <3>a. QfsMayWrite(fs, i, n, off, k, c)
      <4>1. fs.root[i].len = off /\ k \in 1 .. 2
        BY <3>2
      <4> QED BY <1>2, <1>4, <1>5, <3>1, <3>4, <4>1, Zenon DEF QfsMayWrite
    <3>b. QfsWriteDone(fs, i, n, off, k, c, fs_write(fs, i, off, k, c))
      BY ONLY <3>a, QfsWrote
    <3>c. QfsWriteDone(fs, i, n, off, k, c, new)
      BY <3>b DEF new
    <3>5. /\ QfsGood(new) /\ new.root[i] = [name |-> n, len |-> off + k]
          /\ \A m \in QfsName : m # n => QfsSame(fs, new, m)
          /\ \A names, less : /\ QfsSafely(fs, names) /\ less \subseteq names /\ n \notin less
                              => QfsSafely(new, less)
          /\ QfsFile(new, n) = QfsFile(fs, n) \o QfsMore(k, c)
      BY <3>c, Zenon DEF QfsWriteDone
    <3>6. QfsSafely(new, qfsSafe \ {n})
      BY <1>2, <3>5
    <3>7. new.root[i].name = n /\ new.root[i].len = off + k
      BY <3>5
    <3>8. QfsUploadAt(new, next)
      BY <1>7, <3>7 DEF QfsUploadAt
    <3>9. new # fs
      <4> SUFFICES ASSUME new = fs PROVE FALSE
        OBVIOUS
      <4>1. new.root[i].len = fs.root[i].len
        BY Zenon
      <4> QED BY ONLY <3>1, <3>2, <3>7, <4>1, Zenon
    <3>10. QfsFilesOf(new) = [QfsFilesOf(fs) EXCEPT ![n] = QfsFile(new, n)]
      BY <1>2, <1>4, <3>5, QfsOneChanged
    <3>11. QfsFilesOf(fs)[n] = QfsFile(fs, n)
      BY <1>4, Zenon DEF QfsFilesOf
    <3>12. QfsFile(fs, n) # QfsNone
      BY <1>2, <1>4, <1>5, QfsFileContents DEF QfsAbsent
    <3>13. QfsFilesOf(new) = [QfsFilesOf(fs) EXCEPT ![n] = QfsFilesOf(fs)[n] \o QfsMore(k, c)]
      BY <3>5, <3>10, <3>11
    <3> QED BY <3>5, <3>6, <3>8, <3>9, <3>11, <3>12, <3>13
  <2> QED BY <2>1, <2>2
<1>9. qfsWear' \in 0 .. QfsWear
  BY <1>1, QfsAssumption DEF QfsInv, QfsAssumption
<1>10. logEnabled => QfsSame(fs, new, Syslog)
  BY <1>3, <1>8, QfsParts
<1>11. c \in QfsData \union {QfsLine}
  OBVIOUS
<1> DEFINE F == QfsFilesOf(fs)
<1>12. CASE ~done
  <2>1. fs' = new /\ upload' = next
        /\ qfsSafe' = IF new = fs THEN qfsSafe ELSE qfsSafe \ {n}
    BY <1>1, <1>12 DEF next, new, n
  <2>2. QfsSafely(new, qfsSafe') /\ qfsSafe' \subseteq QfsName
    <3>1. CASE new = fs
      BY <1>2, <2>1, <3>1
    <3>2. CASE new # fs
      BY <1>2, <1>8, <2>1, <3>2
    <3> QED BY <3>1, <3>2
  <2>3. QfsDiskInv'
    BY <1>8, <2>1, <2>2 DEF QfsDiskInv
  <2>4. QfsLogInv'
    <3>1. logEnabled => QfsLogAt(new, logfd, logoffset)
      BY <1>2, <1>10, QfsLogKept DEF QfsLogInv
    <3> QED BY <1>1, <1>2, <2>1, <3>1, Zenon DEF QfsLogInv
  <2>5. QfsUploadInv'
    BY <1>1, <1>3, <1>7, <1>8, <2>1, Zenon DEF QfsUploadInv
  <2>6. QfsInv'
    BY <1>9, <2>3, <2>4, <2>5 DEF QfsInv
  <2>7. QfsFilesOf(fs)' = QfsFilesOf(new)
    BY <2>1
  <2>8. QfsMoves(F, qfsSafe, QfsFilesOf(new), qfsSafe')
    <3>1. CASE new = fs
      BY <2>1, <3>1, Zenon DEF QfsMoves
    <3>2. CASE new # fs
      <4>1. /\ F[n] # QfsNone
            /\ QfsFilesOf(new) = [F EXCEPT ![n] = F[n] \o QfsMore(k, c)]
            /\ qfsSafe' = qfsSafe \ {n}
        BY <1>8, <2>1, <3>2
      <4> QED BY <1>4, <1>11, <4>1, Zenon DEF QfsMoves
    <3> QED BY <3>1, <3>2
  <2> QED BY <2>6, <2>7, <2>8, Zenon DEF QfsStep
<1>13. CASE done
  <2> DEFINE s == fs_sync(new)
  <2>1. fs' = s /\ upload' = QfsNone /\ qfsSafe' = QfsName
    BY <1>1, <1>13 DEF new
  <2>2. QfsReady(new)
    BY <1>8, Zenon DEF QfsGood, QfsReady
  <2>3. /\ QfsGood(s) /\ \A m \in QfsName : QfsSame(new, s, m)
        /\ \A names : QfsSafely(s, names)
    BY <2>2, QfsSynced, QfsSyncKeeps
  <2> HIDE DEF s
  <2>4. QfsDiskInv'
    BY <2>1, <2>3 DEF QfsDiskInv
  <2>5. QfsLogInv'
    <3>1. QfsSame(new, s, Syslog)
      BY <2>3, QfsParts
    <3>2. logEnabled => QfsLogAt(new, logfd, logoffset)
      BY <1>2, <1>10, QfsLogKept DEF QfsLogInv
    <3>3. logEnabled => QfsLogAt(s, logfd, logoffset)
      BY <1>2, <3>1, <3>2, QfsLogKept DEF QfsLogInv
    <3> QED BY <1>1, <1>2, <2>1, <3>3, Zenon DEF QfsLogInv
  <2>6. QfsUploadInv'
    BY <2>1, Zenon DEF QfsUploadInv
  <2>7. QfsInv'
    BY <1>9, <2>4, <2>5, <2>6 DEF QfsInv
  <2>8. QfsFilesOf(s) = QfsFilesOf(new) /\ QfsFilesOf(fs)' = QfsFilesOf(s)
    BY <1>8, <2>1, <2>3, QfsNoneChanged
  <2>9. QfsMoves(F, qfsSafe, QfsFilesOf(new), qfsSafe')
    <3>1. CASE new = fs
      BY <2>1, <3>1, Zenon DEF QfsMoves
    <3>2. CASE new # fs
      <4>1. /\ F[n] # QfsNone
            /\ QfsFilesOf(new) = [F EXCEPT ![n] = F[n] \o QfsMore(k, c)]
            /\ qfsSafe' = QfsName
        BY <1>8, <2>1, <3>2
      <4> QED BY <1>4, <1>11, <4>1, Zenon DEF QfsMoves
    <3> QED BY <3>1, <3>2
  <2> QED BY <2>7, <2>8, <2>9, Zenon DEF QfsStep
<1> QED BY <1>12, <1>13

(* log_init and log_rotate return the three fields of the log. *)
LEMMA QfsLogRecord ==
  ASSUME NEW f, NEW l, l = log_init(f)
  PROVE  l = [fs |-> l.fs, fd |-> l.fd, offset |-> l.offset]
<1> DEFINE g == fs_get_inode(f, Syslog)
           h == fs_create(g, Syslog)
<1>1. l = IF fs_found(f, Syslog) THEN [fs |-> g, fd |-> g.index, offset |-> g.inode.len]
          ELSE IF fs_created(g)  THEN [fs |-> fs_sync(h), fd |-> h.index, offset |-> 0]
          ELSE [fs |-> h, fd |-> QfsNone, offset |-> 0]
  BY Zenon DEF log_init
<1> HIDE DEF g, h
<1>2. \E a, b, c : l = [fs |-> a, fd |-> b, offset |-> c]
  <2>1. CASE fs_found(f, Syslog)
    BY <1>1, <2>1
  <2>2. CASE ~fs_found(f, Syslog) /\ fs_created(g)
    BY <1>1, <2>2
  <2>3. CASE ~fs_found(f, Syslog) /\ ~fs_created(g)
    BY <1>1, <2>3
  <2> QED BY <2>1, <2>2, <2>3
<1> QED BY <1>2

(* And so does log_rotate. *)
LEMMA QfsRotateRecord ==
  ASSUME NEW f, NEW l, l = log_rotate(f)
  PROVE  l = [fs |-> l.fs, fd |-> l.fd, offset |-> l.offset]
<1>1. \E r : l = log_init(r)
  BY Zenon DEF log_rotate
<1> QED BY <1>1, QfsLogRecord

(* What Log appends to, the current part of the log or a new one ... *)
QfsLogTo(l) ==
  /\ QfsGood(l.fs) /\ l.fd \in QfsIndex /\ l.offset \in Nat /\ l.offset + 1 <= QfsLimit(l.fd)
  /\ l.fs.root[l.fd] = [name |-> Syslog, len |-> l.offset]
  /\ l = [fs |-> l.fs, fd |-> l.fd, offset |-> l.offset]
  /\ \A n \in QfsName : n \notin QfsLogNames => QfsSame(fs, l.fs, n)

(* ... and what it does. *)
QfsLogged(l) ==
  /\ LogFrom([l EXCEPT !.fs = fs_write(l.fs, l.fd, l.offset, 1, QfsLine), !.offset = @ + 1])
  /\ UNCHANGED <<logEnabled, upload>> /\ qfsWear' \in 0 .. QfsWear
  /\ logEnabled

(* A line is added to the log; an upload in progress, which is not one of  *)
(* the log, goes on where it was.                                          *)
LEMMA QfsLoggedDone ==
  ASSUME QfsInv, NEW l, QfsLogTo(l), QfsLogged(l)
  PROVE  /\ QfsGood(fs') /\ QfsLogInv' /\ QfsUploadInv'
         /\ \A m \in QfsName : m # Syslog => QfsSame(l.fs, fs', m)
         /\ \A names, less : /\ QfsSafely(l.fs, names) /\ less \subseteq names
                             /\ Syslog \notin less
                             => QfsSafely(fs', less)
         /\ QfsFile(fs', Syslog) = QfsFile(l.fs, Syslog) \o QfsMore(1, QfsLine)
<1> DEFINE f   == l.fs
           fd  == l.fd
           off == l.offset
           new == fs_write(f, fd, off, 1, QfsLine)
<1>1. /\ QfsGood(f) /\ fd \in QfsIndex /\ off \in Nat /\ off + 1 <= QfsLimit(fd)
      /\ f.root[fd] = [name |-> Syslog, len |-> off]
      /\ l = [fs |-> f, fd |-> fd, offset |-> off]
      /\ \A n \in QfsName : n \notin QfsLogNames => QfsSame(fs, f, n)
  BY Zenon DEF QfsLogTo
<1>2. LogFrom([l EXCEPT !.fs = new, !.offset = @ + 1])
  BY Zenon DEF QfsLogged
<1> HIDE DEF new, f, fd, off
<1>3. fs' = new /\ logfd' = fd /\ logoffset' = off + 1
  <2> DEFINE w == [l EXCEPT !.fs = new, !.offset = @ + 1]
  <2>1. l = [fs |-> f, fd |-> fd, offset |-> off] /\ off \in Nat
    BY <1>1
  <2>2. w.fs = new
    BY ONLY <2>1
  <2>3. w.fd = fd
    BY ONLY <2>1
  <2>4. w.offset = off + 1
    BY ONLY <2>1
  <2> HIDE DEF w
  <2>5. LogFrom(w)
    BY <1>2 DEF w
  <2> QED BY ONLY <2>2, <2>3, <2>4, <2>5 DEF LogFrom
<1>4. f.root[fd].name = Syslog /\ f.root[fd].len = off
  BY ONLY <1>1
<1>5. Syslog \in QfsName /\ Syslog \in QfsLogNames
  BY QfsParts
<1>6. QfsMayWrite(f, fd, Syslog, off, 1, QfsLine)
  <2>1. 1 \in 1 .. 2 /\ QfsLine \in QfsContents
    BY DEF QfsContents
  <2> QED BY <1>1, <1>4, <1>5, <2>1, Zenon DEF QfsMayWrite
<1>7. QfsWriteDone(f, fd, Syslog, off, 1, QfsLine, new)
  <2>1. QfsWriteDone(f, fd, Syslog, off, 1, QfsLine, fs_write(f, fd, off, 1, QfsLine))
    BY ONLY <1>6, QfsWrote
  <2> QED BY <2>1 DEF new, f, fd, off
<1>8. /\ QfsGood(new) /\ new.root[fd] = [name |-> Syslog, len |-> off + 1]
      /\ \A m \in QfsName : m # Syslog => QfsSame(f, new, m)
      /\ \A names, less : /\ QfsSafely(f, names) /\ less \subseteq names /\ Syslog \notin less
                          => QfsSafely(new, less)
      /\ QfsFile(new, Syslog) = QfsFile(f, Syslog) \o QfsMore(1, QfsLine)
  BY <1>7, Zenon DEF QfsWriteDone
<1>9. QfsGood(fs')
  BY <1>3, <1>8
<1>10. /\ logEnabled' = logEnabled /\ upload' = upload /\ logEnabled
  BY Zenon DEF QfsLogged
<1>11. QfsLogInv'
  <2>1. off + 1 \in Nat
    BY <1>1
  <2>2. QfsLogAt(new, fd, off + 1)
    BY <1>8, Zenon DEF QfsLogAt
  <2>3. logEnabled \in BOOLEAN
    BY Zenon DEF QfsInv, QfsLogInv
  <2> QED BY <1>1, <1>3, <1>10, <2>1, <2>2, <2>3, Zenon DEF QfsLogInv
<1>12. QfsUploadInv'
  <2>1. /\ upload \in {QfsNone} \union QfsUploadSet
        /\ upload # QfsNone =>
             QfsUploadAt(fs, upload) /\ (upload.name \in QfsLogNames => ~logEnabled)
    BY Zenon DEF QfsInv, QfsUploadInv
  <2>2. CASE upload = QfsNone
    BY <1>10, <2>1, <2>2, Zenon DEF QfsUploadInv
  <2>3. CASE upload # QfsNone
    <3>1. upload \in QfsUploadSet /\ QfsUploadAt(fs, upload) /\ upload.name \notin QfsLogNames
      BY <1>10, <2>1, <2>3
    <3>2. upload.name \in QfsName
      BY <3>1 DEF QfsUploadSet
    <3>3. QfsSame(fs, f, upload.name) /\ QfsSame(f, new, upload.name)
      BY <1>1, <1>5, <1>8, <3>1, <3>2
    <3>4. QfsUploadAt(f, upload)
      BY <3>1, <3>3, QfsUploadKept
    <3>5. QfsUploadAt(new, upload)
      BY <3>1, <3>3, <3>4, QfsUploadKept
    <3>6. QfsUploadAt(fs', upload')
      BY <1>3, <1>10, <3>5
    <3> QED BY <1>10, <2>1, <3>1, <3>6, Zenon DEF QfsUploadInv
  <2> QED BY <2>2, <2>3
<1> QED BY <1>3, <1>8, <1>9, <1>11, <1>12 DEF f

(* A line of the log, after a rotation if the part is full. *)
LEMMA QfsLogStep ==
  ASSUME QfsRoom, QfsInv, Log
  PROVE  QfsStep
<1> DEFINE full == logoffset >= QfsRotate
           l    == IF full THEN log_rotate(fs)
                   ELSE [fs |-> fs, fd |-> logfd, offset |-> logoffset]
           F    == QfsFilesOf(fs)
           G    == QfsFilesOf(fs')
<1>1. /\ logEnabled /\ logfd # QfsNone
      /\ qfsWear < QfsWear /\ qfsWear' = qfsWear + 1
      /\ LogFrom([l EXCEPT !.fs = fs_write(l.fs, l.fd, l.offset, 1, QfsLine), !.offset = @ + 1])
      /\ qfsSafe' = (IF full THEN QfsName ELSE qfsSafe) \ {Syslog}
      /\ UNCHANGED <<logEnabled, upload>>
  BY Zenon DEF Log
<1>2. /\ QfsGood(fs) /\ qfsSafe \subseteq QfsName /\ QfsSafely(fs, qfsSafe)
      /\ QfsLogInv /\ QfsUploadInv
  BY Zenon DEF QfsInv, QfsDiskInv
<1>3. /\ logfd \in QfsIndex /\ logoffset \in Nat
      /\ fs.root[logfd] = [name |-> Syslog, len |-> logoffset]
  BY <1>1, <1>2, Zenon DEF QfsLogInv, QfsLogAt
<1>4. qfsWear' \in 0 .. QfsWear
  <2>1. qfsWear \in 0 .. QfsWear /\ QfsWear \in Nat
    BY QfsAssumption DEF QfsInv, QfsAssumption
  <2> QED BY <1>1, <2>1
<1>5. QfsRotate \in Nat /\ QfsRotate <= QfsPages * QfsBlock - 1
  BY QfsAssumption, QfsConstants, SMT DEF QfsAssumption
<1>6. Syslog \in QfsName /\ Syslog \in QfsLogNames /\ Len(QfsLog) \in Nat
  BY QfsParts
<1>7. QfsLine \in QfsData \union {QfsLine} /\ 1 \in 1 .. 2
  OBVIOUS
<1> HIDE DEF l
<1>8. QfsLogged(l)
  BY <1>1, <1>4, Zenon DEF QfsLogged
<1>9. CASE ~full
  <2>1. l = [fs |-> fs, fd |-> logfd, offset |-> logoffset]
    BY <1>9, Zenon DEF l
  <2>2. l.fs = fs /\ l.fd = logfd /\ l.offset = logoffset
    BY ONLY <2>1
  <2>3. logfd \in QfsUsable /\ fs.root[logfd].name = Syslog /\ fs.root[logfd].len = logoffset
    <3>1. fs.root[logfd].name = Syslog /\ fs.root[logfd].len = logoffset
      BY ONLY <1>3
    <3>2. fs.root[logfd].name \in QfsName /\ QfsDir(fs.root)
      BY <1>2, <1>6, <3>1 DEF QfsGood
    <3> QED BY <1>3, <3>1, <3>2, QfsNamed
  <2>4. logoffset + 1 <= QfsLimit(logfd)
    <3>1. QfsLimit(logfd) = QfsPages * QfsBlock - 1
      BY <2>3, QfsLimits
    <3> DEFINE last == QfsPages * QfsBlock - 1
    <3>2. QfsRotate <= last /\ last \in Nat /\ QfsLimit(logfd) = last
      BY <1>5, <2>3, <3>1, QfsLimits
    <3> HIDE DEF last
    <3> QED BY <1>3, <1>5, <1>9, <3>2
  <2>5. \A m \in QfsName : QfsSame(fs, fs, m)
    BY QfsSameRefl
  <2>6. QfsLogTo(l)
    BY <1>2, <1>3, <2>1, <2>2, <2>4, <2>5, Zenon DEF QfsLogTo
  <2>7. /\ QfsGood(fs') /\ QfsLogInv' /\ QfsUploadInv'
        /\ \A m \in QfsName : m # Syslog => QfsSame(fs, fs', m)
        /\ \A names, less : /\ QfsSafely(fs, names) /\ less \subseteq names
                            /\ Syslog \notin less
                            => QfsSafely(fs', less)
        /\ QfsFile(fs', Syslog) = QfsFile(fs, Syslog) \o QfsMore(1, QfsLine)
    <3> HIDE DEF l
    <3>1. /\ QfsGood(fs') /\ QfsLogInv' /\ QfsUploadInv'
          /\ \A m \in QfsName : m # Syslog => QfsSame(l.fs, fs', m)
          /\ \A names, less : /\ QfsSafely(l.fs, names) /\ less \subseteq names
                              /\ Syslog \notin less
                              => QfsSafely(fs', less)
          /\ QfsFile(fs', Syslog) = QfsFile(l.fs, Syslog) \o QfsMore(1, QfsLine)
      BY ONLY QfsInv, <1>8, <2>6, QfsLoggedDone
    <3> QED BY <2>2, <3>1
  <2>8. qfsSafe' = qfsSafe \ {Syslog}
    BY <1>1, <1>9
  <2>9. QfsDiskInv'
    <3>1. qfsSafe' \subseteq QfsName /\ qfsSafe' \subseteq qfsSafe /\ Syslog \notin qfsSafe'
      BY <1>2, <2>8
    <3>2. QfsSafely(fs', qfsSafe')
      BY <1>2, <2>7, <3>1
    <3> QED BY <2>7, <3>1, <3>2, Zenon DEF QfsDiskInv
  <2>10. QfsInv'
    BY <1>4, <2>7, <2>9 DEF QfsInv
  <2>11. G = [F EXCEPT ![Syslog] = F[Syslog] \o QfsMore(1, QfsLine)]
    <3>1. G = [F EXCEPT ![Syslog] = QfsFile(fs', Syslog)]
      BY <1>2, <1>6, <2>7, QfsOneChanged
    <3>2. F[Syslog] = QfsFile(fs, Syslog)
      BY <1>6, Zenon DEF QfsFilesOf
    <3> QED BY <2>7, <3>1, <3>2
  <2>12. F[Syslog] # QfsNone
    <3>1. F[Syslog] = QfsFile(fs, Syslog)
      BY <1>6, Zenon DEF QfsFilesOf
    <3>2. ~QfsAbsent(fs, Syslog)
      BY <1>3, <2>3 DEF QfsAbsent
    <3> QED BY <1>2, <1>6, <3>1, <3>2, QfsFileContents
  <2> HIDE DEF F, G
  <2>13. QfsMoves(F, qfsSafe, G, qfsSafe')
    BY <1>6, <1>7, <2>8, <2>11, <2>12, Zenon DEF QfsMoves
  <2> QED BY <2>10, <2>13, Zenon DEF QfsStep, F, G
<1>10. CASE full
  <2>1. l = log_rotate(fs)
    BY <1>10, Zenon DEF l
  <2>2. /\ QfsGood(l.fs) /\ l.fd \in QfsIndex /\ l.offset = 0
        /\ l.fs.root[l.fd] = [name |-> Syslog, len |-> 0]
        /\ QfsSafely(l.fs, QfsName)
        /\ \A n \in QfsName : n \notin QfsLogNames => QfsSame(fs, l.fs, n)
        /\ \A j \in 1 .. Len(QfsLog) : j > 1 =>
             QfsFile(l.fs, QfsLog[j]) = QfsFile(fs, QfsLog[j - 1])
    BY <1>2, <2>1, QfsRotates
  <2>3. l = [fs |-> l.fs, fd |-> l.fd, offset |-> l.offset]
    BY <2>1, QfsRotateRecord
  <2>4. l.fs.root[l.fd].name = Syslog /\ l.fs.root[l.fd].len = 0
    BY <2>2
  <2>5. 0 + 1 <= QfsLimit(l.fd)
    <3>1. l.fs.root[l.fd].name \in QfsName /\ QfsDir(l.fs.root)
      BY <1>6, <2>2, <2>4 DEF QfsGood
    <3>2. l.fd \in QfsUsable
      BY <2>2, <3>1, QfsNamed
    <3>3. QfsLimit(l.fd) = QfsPages * QfsBlock - 1
      BY <3>2, QfsLimits
    <3>4. QfsPages * QfsBlock >= 2
      <4>1. QfsPages \in Nat /\ QfsBlock \in Nat /\ QfsPages >= 2 /\ QfsBlock >= 2
        BY QfsAssumption DEF QfsAssumption
      <4> QED BY <4>1, SMT
    <3>5. QfsPages * QfsBlock \in Nat
      BY QfsConstants, SMT
    <3> DEFINE all == QfsPages * QfsBlock
    <3>6. QfsLimit(l.fd) = all - 1 /\ all >= 2 /\ all \in Nat
      BY <3>3, <3>4, <3>5
    <3> HIDE DEF all
    <3> QED BY <3>6
  <2>6. QfsLogTo(l)
    <3>1. l.offset \in Nat /\ l.offset + 1 <= QfsLimit(l.fd)
      BY <2>2, <2>5
    <3>2. l.fs.root[l.fd] = [name |-> Syslog, len |-> l.offset]
      BY <2>2
    <3> QED BY <2>2, <2>3, <3>1, <3>2, Zenon DEF QfsLogTo
  <2>7. /\ QfsGood(fs') /\ QfsLogInv' /\ QfsUploadInv'
        /\ \A m \in QfsName : m # Syslog => QfsSame(l.fs, fs', m)
        /\ \A names, less : /\ QfsSafely(l.fs, names) /\ less \subseteq names
                            /\ Syslog \notin less
                            => QfsSafely(fs', less)
        /\ QfsFile(fs', Syslog) = QfsFile(l.fs, Syslog) \o QfsMore(1, QfsLine)
    BY ONLY QfsInv, <1>8, <2>6, QfsLoggedDone
  <2>8. qfsSafe' = QfsName \ {Syslog}
    BY <1>1, <1>10
  <2>9. QfsDiskInv'
    <3>1. qfsSafe' \subseteq QfsName /\ Syslog \notin qfsSafe'
      BY <2>8
    <3>2. QfsSafely(fs', qfsSafe')
      BY <2>2, <2>7, <3>1
    <3> QED BY <2>7, <3>1, <3>2, Zenon DEF QfsDiskInv
  <2>10. QfsInv'
    BY <1>4, <2>7, <2>9 DEF QfsInv
  <2>11. G[Syslog] = << QfsLine >>
    <3>1. QfsFile(l.fs, Syslog) = << >>
      BY <1>6, <2>2, <2>4, QfsFileContents
    <3>2. G[Syslog] = QfsFile(fs', Syslog)
      BY <1>6, Zenon DEF QfsFilesOf
    <3>3. << >> \o QfsMore(1, QfsLine) = << QfsLine >>
      <4>1. QfsMore(1, QfsLine) = << QfsLine >>
        BY DEF QfsMore
      <4> QED BY <4>1
    <3> QED BY <2>7, <3>1, <3>2, <3>3
  <2>12. \A n \in QfsName : n # Syslog => G[n] = QfsFile(l.fs, n)
    <3>1. \A n \in QfsName : n # Syslog => QfsFile(fs', n) = QfsFile(l.fs, n)
      BY <2>2, <2>7, QfsSameFile
    <3> QED BY <3>1, Zenon DEF QfsFilesOf
  <2>13. \A n \in QfsName : F[n] = QfsFile(fs, n)
    BY Zenon DEF QfsFilesOf
  <2>14. \A j \in 2 .. Len(QfsLog) : G[QfsLog[j]] = F[QfsLog[j - 1]]
    <3> SUFFICES ASSUME NEW j \in 2 .. Len(QfsLog) PROVE G[QfsLog[j]] = F[QfsLog[j - 1]]
      OBVIOUS
    <3>1. /\ j \in 1 .. Len(QfsLog) /\ j - 1 \in 1 .. Len(QfsLog) /\ 1 \in 1 .. Len(QfsLog)
          /\ j > 1 /\ j # 1
      BY <1>6
    <3>2. QfsLog[j] \in QfsName /\ QfsLog[j - 1] \in QfsName /\ QfsLog[j] # Syslog
      BY <3>1, QfsParts
    <3> HIDE DEF F, G
    <3> QED BY <2>2, <2>12, <2>13, <3>1, <3>2
  <2>15. \A n \in QfsName : n \notin QfsLogNames => G[n] = F[n]
    <3> SUFFICES ASSUME NEW n \in QfsName, n \notin QfsLogNames PROVE G[n] = F[n]
      OBVIOUS
    <3>1. n # Syslog
      BY <1>6
    <3>2. QfsFile(l.fs, n) = QfsFile(fs, n)
      BY <1>2, <2>2, QfsSameFile
    <3> HIDE DEF F, G
    <3> QED BY <2>12, <2>13, <3>1, <3>2
  <2> HIDE DEF F, G
  <2>16. QfsMoves(F, qfsSafe, G, qfsSafe')
    BY <1>7, <2>8, <2>11, <2>14, <2>15, Zenon DEF QfsMoves
  <2> QED BY <2>10, <2>16, Zenon DEF QfsStep, F, G
<1> QED BY <1>9, <1>10

(* The chip that fs_init finds after a power failure. *)
QfsFound(f, c) ==
  /\ c \in QfsChips /\ c.savedRoot = f.savedRoot
  /\ c.saved = f.saved \/ \A q \in QfsPage : c.saved[q] = QfsAt(f, q)

(* fs_sync saves the page of BUF1. *)
LEMMA QfsSyncSaves ==
  ASSUME NEW f, QfsReady(f)
  PROVE  /\ QfsGood(fs_sync(f))
         /\ \A q \in QfsPage : fs_sync(f).saved[q] = QfsAt(f, q)
<1> SUFFICES ASSUME NEW g, g = fs_sync(f)
             PROVE  QfsGood(g) /\ \A q \in QfsPage : g.saved[q] = QfsAt(f, q)
  BY Zenon
<1> QED BY QfsSynced

(* Both chips a power failure may leave are of that kind. *)
LEMMA QfsFoundChip ==
  ASSUME NEW f, QfsGood(f), NEW chip \in {f, [fs_sync(f) EXCEPT !.savedRoot = f.savedRoot]},
         NEW c, c = [chip EXCEPT !.buf1 = QfsBlank]
  PROVE  QfsFound(f, c)
<1>1. f \in QfsChips /\ f.savedRoot \in QfsRootSet
  BY QfsChipFields DEF QfsGood
<1>2. chip \in QfsChips /\ chip.savedRoot = f.savedRoot
      /\ (chip.saved = f.saved \/ \A q \in QfsPage : chip.saved[q] = QfsAt(f, q))
  <2>1. CASE chip = f
    BY <1>1, <2>1
  <2>2. CASE chip # f
    <3> DEFINE s == fs_sync(f)
               r == f.savedRoot
    <3>1. chip = [s EXCEPT !.savedRoot = r]
      BY <2>2
    <3>2. QfsReady(f)
      BY Zenon DEF QfsGood, QfsReady
    <3>3. QfsGood(s) /\ \A q \in QfsPage : s.saved[q] = QfsAt(f, q)
      BY ONLY <3>2, QfsSyncSaves
    <3>4. s \in QfsChips /\ r \in QfsRootSet
      BY <1>1, <3>3, Zenon DEF QfsGood
    <3> HIDE DEF s, r
    <3>5. chip \in QfsChips
      BY ONLY <3>1, <3>4, Zenon DEF QfsChips
    <3>6. chip.savedRoot = r /\ chip.saved = s.saved
      BY ONLY <3>1, <3>4, SMT DEF QfsChips
    <3> QED BY <3>3, <3>5, <3>6 DEF r
  <2> QED BY <2>1, <2>2
<1>3. QfsBlank \in QfsPageSet
  BY DEF QfsBlank, QfsPageSet, QfsContents
<1> DEFINE b == QfsBlank
<1>4. b \in QfsPageSet /\ c = [chip EXCEPT !.buf1 = b]
  BY <1>3
<1> HIDE DEF b
<1>5. c \in QfsChips
  BY ONLY <1>2, <1>4, Zenon DEF QfsChips
<1>6. c.savedRoot = chip.savedRoot /\ c.saved = chip.saved
  <2>1. chip \in QfsChips
    BY <1>2
  <2> QED BY ONLY <1>4, <2>1, SMT DEF QfsChips
<1> QED BY <1>2, <1>5, <1>6 DEF QfsFound

(* After a power failure the files that were safe are found again. *)
LEMMA QfsRestartStep ==
  ASSUME QfsRoom, QfsInv, QfsRestart
  PROVE  QfsStep
<1>1. PICK chip \in {fs, [fs_sync(fs) EXCEPT !.savedRoot = fs.savedRoot]} :
        LogFrom(log_init(fs_init([chip EXCEPT !.buf1 = QfsBlank], FALSE)))
  BY Zenon DEF QfsRestart
<1>2. upload' = QfsNone /\ qfsSafe' = QfsName /\ UNCHANGED <<logEnabled, qfsWear>>
  BY Zenon DEF QfsRestart
<1> DEFINE c == [chip EXCEPT !.buf1 = QfsBlank]
           g == fs_init(c, FALSE)
           l == log_init(g)
           F == QfsFilesOf(fs)
           G == QfsFilesOf(fs')
<1>3. fs' = l.fs /\ logfd' = l.fd /\ logoffset' = l.offset
  BY <1>1, Zenon DEF LogFrom
<1>4. /\ QfsGood(fs) /\ qfsSafe \subseteq QfsName /\ QfsSafely(fs, qfsSafe)
      /\ QfsLogInv /\ QfsUploadInv
  BY Zenon DEF QfsInv, QfsDiskInv
<1>5. QfsFound(fs, c)
  BY <1>4, QfsFoundChip
<1> HIDE DEF c
<1>6. /\ c \in QfsChips /\ c.savedRoot = fs.savedRoot /\ QfsDir(c.savedRoot)
      /\ (c.saved = fs.saved \/ \A q \in QfsPage : c.saved[q] = QfsAt(fs, q))
  BY <1>4, <1>5, Zenon DEF QfsFound, QfsGood
<1>7. QfsGood(g) /\ \A n \in qfsSafe : QfsSame(fs, g, n)
  BY <1>4, <1>6, QfsPowerFails
<1>8. g.root = g.savedRoot /\ g.pageModified = FALSE
  BY <1>6, QfsLoaded
<1> HIDE DEF g
<1>9. \A names : QfsSafely(g, names)
  BY <1>8, Zenon DEF QfsSafely
<1>10. /\ QfsGood(l.fs) /\ l.fd \in QfsIndex /\ l.offset \in Nat
       /\ l.fs.root[l.fd] = [name |-> Syslog, len |-> l.offset]
       /\ \A n \in QfsName : n # Syslog => QfsSame(g, l.fs, n)
       /\ \A names : QfsSafely(g, names) => QfsSafely(l.fs, names)
       /\ ~QfsAbsent(g, Syslog) => QfsSame(g, l.fs, Syslog)
       /\ QfsAbsent(g, Syslog) => l.offset = 0 /\ QfsSafely(l.fs, QfsName)
  BY <1>7, QfsLogOpened
<1> HIDE DEF l
<1>11. QfsDiskInv'
  <2>1. QfsGood(fs') /\ QfsSafely(fs', QfsName) /\ qfsSafe' = QfsName
    BY <1>2, <1>3, <1>9, <1>10
  <2> QED BY <2>1, Zenon DEF QfsDiskInv
<1>12. QfsLogInv'
  <2>1. QfsLogAt(l.fs, l.fd, l.offset)
    BY <1>10, Zenon DEF QfsLogAt
  <2>2. logEnabled' = logEnabled /\ logEnabled \in BOOLEAN
    BY <1>2, <1>4, Zenon DEF QfsLogInv
  <2> QED BY <1>3, <1>10, <2>1, <2>2, Zenon DEF QfsLogInv
<1>13. QfsUploadInv'
  BY <1>2, Zenon DEF QfsUploadInv
<1>14. QfsInv'
  <2>1. qfsWear' \in 0 .. QfsWear
    BY <1>2, Zenon DEF QfsInv
  <2> QED BY <1>11, <1>12, <1>13, <2>1 DEF QfsInv
<1>15. Syslog \in QfsName
  BY QfsParts
<1>16. \A n \in QfsName : F[n] = QfsFile(fs, n) /\ G[n] = QfsFile(l.fs, n)
  BY <1>3, Zenon DEF QfsFilesOf
<1> HIDE DEF F, G
<1>17. ASSUME NEW n \in qfsSafe
       PROVE  G[n] = IF n = Syslog /\ F[n] = QfsNone THEN << >> ELSE F[n]
  <2>1. n \in QfsName /\ QfsFile(g, n) = QfsFile(fs, n)
    BY <1>4, <1>7, QfsSameFile
  <2>2. CASE n # Syslog
    <3>1. QfsFile(l.fs, n) = QfsFile(g, n)
      BY <1>7, <1>10, <2>1, <2>2, QfsSameFile
    <3> QED BY <1>16, <2>1, <2>2, <3>1
  <2>3. CASE n = Syslog /\ ~QfsAbsent(g, Syslog)
    <3>1. QfsFile(l.fs, n) = QfsFile(g, n)
      BY <1>7, <1>10, <2>1, <2>3, QfsSameFile
    <3>2. QfsFile(g, n) # QfsNone
      BY <1>7, <2>1, <2>3, QfsFileContents
    <3> QED BY <1>16, <2>1, <3>1, <3>2
  <2>4. CASE n = Syslog /\ QfsAbsent(g, Syslog)
    <3>1. QfsFile(g, n) = QfsNone
      BY <1>7, <2>1, <2>4, QfsFileContents
    <3>2. l.fs.root[l.fd].name = Syslog /\ l.fs.root[l.fd].len = 0
      BY <1>10, <2>4
    <3>3. QfsFile(l.fs, n) = << >>
      BY <1>10, <1>15, <2>4, <3>2, QfsFileContents
    <3> QED BY <1>16, <2>1, <2>4, <3>1, <3>3
  <2> QED BY <2>2, <2>3, <2>4
<1>18. QfsMoves(F, qfsSafe, G, qfsSafe')
  BY <1>2, <1>17, Zenon DEF QfsMoves
<1> QED BY <1>14, <1>18, Zenon DEF QfsStep, F, G

(* A new chip is formatted, and its log is created, *)
LEMMA QfsStarts ==
  ASSUME QfsRoom, QfsInit
  PROVE  /\ QfsInv
         /\ QfsFilesOf(fs) = [n \in QfsName |-> IF n = QfsLog[1] THEN << >> ELSE QfsNone]
         /\ qfsSafe = QfsName
<1> DEFINE c     == QfsErasedChip
           force == FALSE
           g     == fs_init(c, force)
           l     == log_init(g)
<1>1. /\ fs = l.fs /\ logfd = l.fd /\ logoffset = l.offset
      /\ logEnabled = FALSE /\ upload = QfsNone /\ qfsSafe = QfsName /\ qfsWear = 0
  BY Zenon DEF QfsInit
<1>2. c \in QfsChips /\ c.savedRoot[QfsInodes] # QfsFormatted[QfsInodes]
  BY QfsErasedIsChip
<1>3. force \in BOOLEAN
  OBVIOUS
<1> HIDE DEF c, force
<1>4. QfsGood(g) /\ (\A n \in QfsName : QfsAbsent(g, n)) /\ \A names : QfsSafely(g, names)
  BY <1>2, <1>3, QfsFormats
<1> HIDE DEF g
<1>5. Syslog \in QfsName /\ Syslog = QfsLog[1]
  BY QfsParts
<1>6. /\ QfsGood(l.fs) /\ l.fd \in QfsIndex /\ l.offset \in Nat
      /\ l.fs.root[l.fd] = [name |-> Syslog, len |-> l.offset]
      /\ \A n \in QfsName : n # Syslog => QfsSame(g, l.fs, n)
      /\ \A names : QfsSafely(g, names) => QfsSafely(l.fs, names)
      /\ ~QfsAbsent(g, Syslog) => QfsSame(g, l.fs, Syslog)
      /\ QfsAbsent(g, Syslog) => l.offset = 0 /\ QfsSafely(l.fs, QfsName)
  BY <1>4, QfsLogOpened
<1>7. l.fs.root[l.fd].name = Syslog /\ l.fs.root[l.fd].len = 0
  BY <1>4, <1>5, <1>6
<1> HIDE DEF l
<1>8. QfsDiskInv
  BY <1>1, <1>4, <1>6, Zenon DEF QfsDiskInv
<1>9. QfsLogInv
  BY <1>1, <1>6, Zenon DEF QfsLogInv
<1>10. QfsUploadInv
  BY <1>1, Zenon DEF QfsUploadInv
<1>11. qfsWear \in 0 .. QfsWear
  BY <1>1, QfsAssumption DEF QfsAssumption
<1>12. ASSUME NEW n \in QfsName
       PROVE  QfsFile(l.fs, n) = IF n = QfsLog[1] THEN << >> ELSE QfsNone
  <2>1. CASE n = Syslog
    BY <1>5, <1>6, <1>7, <2>1, QfsFileContents
  <2>2. CASE n # Syslog
    <3>1. QfsFile(l.fs, n) = QfsFile(g, n)
      BY <1>4, <1>6, <2>2, QfsSameFile
    <3>2. QfsFile(g, n) = QfsNone
      BY <1>4, QfsFileContents
    <3> QED BY <1>5, <2>2, <3>1, <3>2
  <2> QED BY <2>1, <2>2
<1>13. QfsFilesOf(fs) = [n \in QfsName |-> IF n = QfsLog[1] THEN << >> ELSE QfsNone]
  BY <1>1, <1>12, Zenon DEF QfsFilesOf
<1> QED BY <1>1, <1>8, <1>9, <1>10, <1>11, <1>13, Zenon DEF QfsInv

(* which is the initial state of the store of files. *)
LEMMA QfsInitStore ==
  ASSUME QfsRoom, QfsInit
  PROVE  QfsFiles!Init
<1>1. [n \in QfsName |-> QfsRead(n)] = QfsFilesOf(fs)
  <2>1. QfsGood(fs)
    BY QfsStarts, Zenon DEF QfsInv, QfsDiskInv
  <2> QED BY <2>1, QfsReadAll
<1> QED BY <1>1, QfsStarts DEF QfsFiles!Init

(* Every step keeps the invariant and is one of the store of files. *)
LEMMA QfsSteps ==
  ASSUME QfsRoom, QfsInv, [QfsNext]_qfsVars
  PROVE  QfsStep
<1>1. CASE QfsNext
  <2>1. ASSUME NEW n \in QfsHostName, NEW size \in QfsUploads, QfsUpload(n, size) PROVE QfsStep
    <3>1. n \in QfsName
      BY DEF QfsName
    <3> QED BY <2>1, <3>1, QfsUploadStep
  <2>2. ASSUME NEW n \in QfsHostName, QfsDelete(n) PROVE QfsStep
    <3>1. n \in QfsName
      BY DEF QfsName
    <3> QED BY <2>2, <3>1, QfsDeleteStep
  <2>3. ASSUME NEW n \in QfsHostName, QfsReadFile(n) PROVE QfsStep
    <3>1. n \in QfsName
      BY DEF QfsName
    <3> QED BY <2>3, <3>1, QfsReadStep
  <2>4. ASSUME NEW k \in 1 .. 2, NEW c \in QfsData, QfsChunk(k, c) PROVE QfsStep
    BY <2>4, QfsChunkStep
  <2> QED BY <1>1, <2>1, <2>2, <2>3, <2>4, QfsFormatStep, QfsEnableStep, QfsListStep,
             QfsLogStep, QfsBatteryStep, QfsRestartStep, Zenon DEF QfsNext
<1>2. CASE UNCHANGED qfsVars
  <2>1. /\ fs' = fs /\ logfd' = logfd /\ logoffset' = logoffset /\ logEnabled' = logEnabled
        /\ upload' = upload /\ qfsSafe' = qfsSafe /\ qfsWear' = qfsWear
    BY <1>2, Zenon DEF qfsVars
  <2>2. QfsInv'
    BY <2>1, Zenon DEF QfsInv, QfsDiskInv, QfsLogInv, QfsUploadInv
  <2>3. QfsFilesOf(fs)' = QfsFilesOf(fs)
    BY <2>1, Zenon
  <2> QED BY <2>1, <2>2, <2>3, Zenon DEF QfsStep, QfsMoves
<1> QED BY <1>1, <1>2

(* QfsInv is an inductive invariant. *)
LEMMA QfsInvariant == ASSUME QfsRoom PROVE QfsSpec => []QfsInv
<1>1. QfsInit => QfsInv
  BY QfsStarts
<1>2. QfsInv /\ [QfsNext]_qfsVars => QfsInv'
  BY QfsSteps, Zenon DEF QfsStep
<1> QED BY <1>1, <1>2, PTL DEF QfsSpec

(* Type correctness of the file system and the log, for a directory that   *)
(* never fills up (QfsRoom).                                               *)
THEOREM QfsTypeCorrect == ASSUME QfsRoom PROVE QfsSpec => []QfsTypeOK
<1>1. QfsInv => QfsTypeOK
  BY QfsInvTypes
<1> QED BY <1>1, QfsInvariant, PTL

(* The file system with its caches, its buffers and the recycling of       *)
(* inodes is a store of named files: qfs.c, fswrapper.c and log.c never    *)
(* mix up, lose or change a file that a command did not name, and a power  *)
(* failure loses only what changed since the last fs_sync.                 *)
THEOREM QfsRefines == ASSUME QfsRoom PROVE QfsSpec => QfsIsAFileStore
<1> DEFINE now == [n \in QfsName |-> QfsRead(n)] = QfsFilesOf(fs)
<1>1. QfsInit => QfsFiles!Init
  BY QfsInitStore
<1>2. QfsInv => now
  BY QfsReadAll, Zenon DEF QfsInv, QfsDiskInv
<1>3. QfsInv /\ now /\ now' /\ [QfsNext]_qfsVars
        => [QfsFiles!Next]_<<[n \in QfsName |-> QfsRead(n)], qfsSafe>>
  <2> SUFFICES ASSUME QfsInv, now, now', [QfsNext]_qfsVars
               PROVE  [QfsFiles!Next]_<<[n \in QfsName |-> QfsRead(n)], qfsSafe>>
    OBVIOUS
  <2>1. QfsMoves(QfsFilesOf(fs), qfsSafe, QfsFilesOf(fs)', qfsSafe')
    BY QfsSteps, Zenon DEF QfsStep
  <2>2. [n \in QfsName |-> QfsRead(n)]' = QfsFilesOf(fs)'
    OBVIOUS
  <2> QED BY <2>1, <2>2, QfsMovesStore
<1> HIDE DEF now
<1> QED BY <1>1, <1>2, <1>3, QfsInvariant, PTL DEF QfsSpec, QfsIsAFileStore, QfsFiles!Spec
=============================================================================
