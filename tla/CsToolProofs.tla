---------------------------- MODULE CsToolProofs ----------------------------
(***************************************************************************)
(* Proofs about modules Packets and CsTool, for every value of their       *)
(* constants.                                                              *)
(*                                                                         *)
(* Packets: what the handlers make of the one frame buffer, byte by byte,  *)
(* for any frames whose headers are those of their protocol, any buffer    *)
(* that is large enough and any factory settings.  The sums of the         *)
(* checksums are recursive; what is said of them is proved by the least    *)
(* number principle: if it failed of some prefix, it would fail of a       *)
(* shortest one.                                                           *)
(*                                                                         *)
(* CsTool: the invariant follows a request from the tool to the hub,       *)
(* through CULServer, and as a reply back to the tool's socket: its port,  *)
(* its operation, its token and its operand; and then what its operation   *)
(* left in the hub's settings.                                             *)
(***************************************************************************)
EXTENDS CsTool, SequenceTheorems, WellFoundedInduction, TLAPS

(* Every nonempty set of natural numbers has a least one.                  *)
Less == {ss \in Nat \X Nat : ss[1] < ss[2]}

LEMMA LessIsWellFounded == IsWellFoundedOn(Less, Nat)
<1>1. OpToRel(<, Nat) = Less
  BY DEF OpToRel, Less
<1> QED
  BY <1>1, NatLessThanWellFounded

LEMMA LeastNumber ==
  ASSUME NEW T, T \subseteq Nat, T # {}
  PROVE  \E x \in T : \A y \in T : x <= y
<1>1. PICK x \in T : \A y \in T : ~ (<<y, x>> \in Less)
  BY LessIsWellFounded, WFMin, Zenon
<1>2. ASSUME NEW y \in T PROVE x <= y
  <2>1. <<y, x>> \in Nat \X Nat /\ ~(<<y, x>> \in Less)
    BY <1>1
  <2>2. ~(y < x)
    BY <2>1 DEF Less
  <2> QED
    BY <2>1, <2>2
<1> QED
  BY <1>2

(* What holds of 0 and is passed on up to n holds of every number up to n. *)
LEMMA UpTo ==
  ASSUME NEW n \in Nat, NEW T, 0 \in T, \A k \in 1 .. n : k - 1 \in T => k \in T
  PROVE  \A k \in 0 .. n : k \in T
<1> DEFINE bad == {k \in 0 .. n : k \notin T}
<1> SUFFICES ASSUME bad # {} PROVE FALSE
  OBVIOUS
<1>1. bad \subseteq Nat
  OBVIOUS
<1>2. PICK x \in bad : \A y \in bad : x <= y
  BY <1>1, LeastNumber
<1>3. x \in 1 .. n /\ x - 1 \in 0 .. n
  OBVIOUS
<1>4. x - 1 \in T
  <2>1. ~(x <= x - 1)
    BY <1>3
  <2> QED
    BY <1>2, <1>3, <2>1
<1> QED
  BY <1>3, <1>4

-----------------------------------------------------------------------------
(* Sums.  The function s adds up the first n values of w.                  *)
Adds(s, w, n) ==
  /\ s \in [0 .. n -> Int] /\ s[0] = 0
  /\ \A i \in 1 .. n : s[i] = s[i - 1] + w[i]

(* There is such a function.                                               *)
LEMMA SumExists ==
  ASSUME NEW n \in Nat, NEW w \in [1 .. n -> Int]
  PROVE  \E s : Adds(s, w, n)
<1> DEFINE T == {k \in 0 .. n : \E s : Adds(s, w, k)}
<1>1. 0 \in T
  <2>1. Adds([i \in 0 .. 0 |-> 0], w, 0)
    BY DEF Adds
  <2> QED
    BY <2>1
<1>2. ASSUME NEW k \in 1 .. n, k - 1 \in T PROVE k \in T
  <2>1. PICK s : Adds(s, w, k - 1)
    BY <1>2
  <2> DEFINE t == [i \in 0 .. k |-> IF i = k THEN s[k - 1] + w[k] ELSE s[i]]
  <2>2. \A i \in 0 .. k - 1 : s[i] \in Int
    BY <2>1 DEF Adds
  <2>3. t \in [0 .. k -> Int]
    BY <2>2
  <2>4. \A i \in 1 .. k : t[i] = t[i - 1] + w[i]
    BY <2>1 DEF Adds
  <2>5. t[0] = 0
    BY <2>1 DEF Adds
  <2>6. Adds(t, w, k)
    BY <2>3, <2>4, <2>5 DEF Adds
  <2> QED
    BY <2>6
<1>3. n \in T
  <2> HIDE DEF T
  <2>1. \A k \in 0 .. n : k \in T
    BY <1>1, <1>2, UpTo
  <2> QED
    BY <2>1
<1> QED
  BY <1>3

(* A value that is greater by d makes the sum greater by d.                *)
Raised(v, w, n, j, d) == \A i \in 1 .. n : v[i] = w[i] + (IF i = j THEN d ELSE 0)

Terms(w, n) == w \in [1 .. n -> Int]

LEMMA SumsDiffer ==
  ASSUME NEW n \in Nat, NEW w, NEW v, Terms(w, n), Terms(v, n),
         NEW s, NEW t, Adds(s, w, n), Adds(t, v, n), NEW j \in Nat, NEW d \in Int,
         Raised(v, w, n, j, d)
  PROVE  t[n] = s[n] + (IF j \in 1 .. n THEN d ELSE 0)
<1> DEFINE T == {k \in 0 .. n : t[k] = s[k] + (IF j \in 1 .. k THEN d ELSE 0)}
<1>1. 0 \in T
  BY DEF Adds
<1>2. ASSUME NEW k \in 1 .. n, k - 1 \in T PROVE k \in T
  <2>1. /\ s[k] = s[k - 1] + w[k] /\ t[k] = t[k - 1] + v[k]
        /\ s[k - 1] \in Int /\ t[k - 1] \in Int /\ w[k] \in Int
    BY DEF Adds, Terms
  <2>2. t[k - 1] = s[k - 1] + (IF j \in 1 .. k - 1 THEN d ELSE 0)
    BY <1>2
  <2>3. v[k] = w[k] + (IF k = j THEN d ELSE 0) /\ v[k] \in Int
    BY DEF Raised, Terms
  <2>4. j \in 1 .. k <=> j \in 1 .. k - 1 \/ k = j
    OBVIOUS
  <2>5. k = j => j \notin 1 .. k - 1
    OBVIOUS
  <2>6. t[k] = s[k] + (IF j \in 1 .. k THEN d ELSE 0)
    <3>1. CASE k = j
      BY <2>1, <2>2, <2>3, <2>4, <2>5, <3>1
    <3>2. CASE k # j
      <4> DEFINE e == IF j \in 1 .. k - 1 THEN d ELSE 0
      <4>1. e = (IF j \in 1 .. k THEN d ELSE 0) /\ e \in Int
        BY <2>4, <3>2
      <4>2. v[k] = w[k]
        BY <2>1, <2>3, <3>2
      <4>3. t[k - 1] = s[k - 1] + e
        BY <2>2
      <4> HIDE DEF e
      <4>4. t[k] = s[k] + e
        BY <2>1, <4>1, <4>2, <4>3
      <4> QED
        BY <4>1, <4>4
    <3> QED
      BY <3>1, <3>2
  <2> QED
    BY <2>6
<1>3. n \in T
  <2> HIDE DEF T
  <2>1. \A k \in 0 .. n : k \in T
    BY <1>1, <1>2, UpTo
  <2> QED
    BY <2>1
<1> QED
  BY <1>3

(* The sum of n values is at most n times the greatest.                    *)
LEMMA SumBounded ==
  ASSUME NEW n \in Nat, NEW m \in Nat, NEW s, NEW w, Adds(s, w, n), \A i \in 1 .. n : w[i] \in 0 .. m
  PROVE  s[n] \in 0 .. m * n
<1> DEFINE T == {k \in 0 .. n : s[k] \in 0 .. m * k}
<1>1. 0 \in T
  BY DEF Adds
<1>2. ASSUME NEW k \in 1 .. n, k - 1 \in T PROVE k \in T
  <2>1. s[k] = s[k - 1] + w[k] /\ w[k] \in 0 .. m /\ s[k - 1] \in 0 .. m * (k - 1)
    BY <1>2 DEF Adds
  <2>2. m * k = m * (k - 1) + m
    OBVIOUS
  <2> QED
    BY <2>1, <2>2
<1>3. n \in T
  <2> HIDE DEF T
  <2>1. \A k \in 0 .. n : k \in T
    BY <1>1, <1>2, UpTo
  <2> QED
    BY <2>1
<1> QED
  BY <1>3

(* The words of a frame, as a function.                                    *)
WordsOf(b, at, n) == [i \in 1 .. n |-> U16(b, at + 2 * (i - 1))]

(* Words is the sum of them.                                               *)
LEMMA WordsAdds ==
  ASSUME NEW b, NEW at, NEW n \in Nat, WordsOf(b, at, n) \in [1 .. n -> Int]
  PROVE  \E s : Adds(s, WordsOf(b, at, n), n) /\ Words(b, at, n) = s[n]
<1> DEFINE w == WordsOf(b, at, n)
           Rule(s) == s = [i \in 0 .. n |-> IF i = 0 THEN 0 ELSE s[i - 1] + U16(b, at + 2 * (i - 1))]
           sum == CHOOSE s : Rule(s)
<1>1. PICK s : Adds(s, w, n)
  BY SumExists
<1>2. \A i \in 1 .. n : w[i] = U16(b, at + 2 * (i - 1))
  BY DEF WordsOf
<1>3. Rule(s)
  <2>1. s = [i \in 0 .. n |-> s[i]]
    BY <1>1 DEF Adds
  <2>2. \A i \in 0 .. n : s[i] = IF i = 0 THEN 0 ELSE s[i - 1] + U16(b, at + 2 * (i - 1))
    BY <1>1, <1>2 DEF Adds
  <2> HIDE DEF w
  <2> QED
    BY <2>1, <2>2
<1>4. Rule(sum)
  BY <1>3
<1>5. Words(b, at, n) = sum[n]
  BY DEF Words
<1> HIDE DEF sum
<1>6. sum \in [0 .. n -> Int]
  <2> DEFINE T == {k \in 0 .. n : sum[k] \in Int}
  <2>1. 0 \in T
    BY <1>4
  <2>2. ASSUME NEW k \in 1 .. n, k - 1 \in T PROVE k \in T
    <3>1. sum[k] = sum[k - 1] + w[k]
      BY <1>4, <1>2
    <3>2. w[k] \in Int
      OBVIOUS
    <3> HIDE DEF w
    <3> QED
      BY <2>2, <3>1, <3>2
  <2>3. \A k \in 0 .. n : k \in T
    <3> HIDE DEF T
    <3> QED
      BY <2>1, <2>2, UpTo
  <2>4. DOMAIN sum = 0 .. n /\ sum = [i \in 0 .. n |-> sum[i]]
    BY <1>4
  <2> HIDE DEF Rule, w
  <2> QED
    BY <2>3, <2>4
<1>7. sum[0] = 0 /\ \A i \in 1 .. n : sum[i] = sum[i - 1] + w[i]
  BY <1>2, <1>4
<1>8. Adds(sum, w, n)
  BY <1>6, <1>7 DEF Adds
<1> QED
  BY <1>5, <1>8

-----------------------------------------------------------------------------
(* Bytes: what Put, Field and the conversions to bytes return.             *)

(* A field of a frame that reaches so far.                                 *)
LEMMA FieldBytes ==
  ASSUME NEW b \in Seq(Byte), NEW at \in Nat, NEW n \in Nat, at + n <= Len(b)
  PROVE  /\ Field(b, at, n) \in Seq(Byte) /\ Len(Field(b, at, n)) = n
         /\ \A i \in 1 .. n : Field(b, at, n)[i] = b[at + i] /\ b[at + i] \in Byte
<1>1. \A i \in 1 .. n : b[at + i] \in Byte
  <2>1. \A i \in 1 .. n : at + i \in 1 .. Len(b)
    BY LenProperties
  <2> QED
    BY <2>1, ElementOfSeq
<1> DEFINE f == [i \in 1 .. n |-> b[at + i]]
<1>2. f \in Seq(Byte) /\ Len(f) = n /\ \A i \in 1 .. n : f[i] = b[at + i]
  BY <1>1
<1> HIDE DEF f
<1>3. Field(b, at, n) = f
  <2>1. at + n - (at + 1) + 1 = n /\ 1 + (at + n) - (at + 1) = n
    OBVIOUS
  <2>2. \A i \in 1 .. n : i + (at + 1) - 1 = at + i
    OBVIOUS
  <2> QED
    BY <2>1, <2>2 DEF Field, SubSeq, f
<1> QED
  BY <1>1, <1>2, <1>3

(* Two fields of the same bytes are equal.                                 *)
Agree(a, i, b, j, n) == \A k \in 1 .. n : a[i + k] = b[j + k]

LEMMA SameField ==
  ASSUME NEW a, NEW b, NEW i \in Nat, NEW j \in Nat, NEW n \in Nat, Agree(a, i, b, j, n)
  PROVE  Field(a, i, n) = Field(b, j, n)
<1>1. Field(a, i, n) = [k \in 1 .. n |-> a[i + k]]
  <2>1. i + n - (i + 1) + 1 = n /\ 1 + (i + n) - (i + 1) = n /\ (i + n) - (i + 1) + 1 = n
    OBVIOUS
  <2>2. \A k \in 1 .. n : k + (i + 1) - 1 = i + k
    OBVIOUS
  <2> QED
    BY <2>1, <2>2 DEF Field, SubSeq
<1>2. Field(b, j, n) = [k \in 1 .. n |-> b[j + k]]
  <2>1. j + n - (j + 1) + 1 = n /\ 1 + (j + n) - (j + 1) = n /\ (j + n) - (j + 1) + 1 = n
    OBVIOUS
  <2>2. \A k \in 1 .. n : k + (j + 1) - 1 = j + k
    OBVIOUS
  <2> QED
    BY <2>1, <2>2 DEF Field, SubSeq
<1>3. [k \in 1 .. n |-> a[i + k]] = [k \in 1 .. n |-> b[j + k]]
  BY DEF Agree
<1> QED
  BY <1>1, <1>2, <1>3, Zenon

(* One sequence after another.                                             *)
LEMMA Cat ==
  ASSUME NEW s \in Seq(Byte), NEW t \in Seq(Byte)
  PROVE  /\ s \o t \in Seq(Byte) /\ Len(s \o t) = Len(s) + Len(t)
         /\ \A i \in 1 .. Len(s) : (s \o t)[i] = s[i]
         /\ \A i \in 1 .. Len(t) : (s \o t)[Len(s) + i] = t[i]
         /\ Len(s) \in Nat /\ Len(t) \in Nat
<1>1. Len(s) \in Nat /\ Len(t) \in Nat
  BY LenProperties
<1>2. /\ s \o t \in Seq(Byte) /\ Len(s \o t) = Len(s) + Len(t)
      /\ \A i \in 1 .. Len(s) + Len(t) :
           (s \o t)[i] = IF i <= Len(s) THEN s[i] ELSE t[i - Len(s)]
  BY ConcatProperties
<1>3. \A i \in 1 .. Len(t) : /\ Len(s) + i \in 1 .. Len(s) + Len(t) /\ ~(Len(s) + i <= Len(s))
                             /\ Len(s) + i - Len(s) = i
  BY <1>1
<1>4. \A i \in 1 .. Len(s) : i \in 1 .. Len(s) + Len(t) /\ i <= Len(s)
  BY <1>1
<1> QED
  BY <1>1, <1>2, <1>3, <1>4

(* Putting bytes into a frame changes these and no others.                 *)
LEMMA PutBytes ==
  ASSUME NEW b \in Seq(Byte), NEW at \in Nat, NEW s \in Seq(Byte), at + Len(s) <= Len(b)
  PROVE  /\ Put(b, at, s) \in Seq(Byte) /\ Len(Put(b, at, s)) = Len(b)
         /\ \A i \in 1 .. Len(s) : Put(b, at, s)[at + i] = s[i]
         /\ \A i \in 1 .. Len(b) : i <= at \/ i > at + Len(s) => Put(b, at, s)[i] = b[i]
<1> DEFINE l == Len(b)
           k == Len(s)
           head == SubSeq(b, 1, at)
           tail == SubSeq(b, at + k + 1, l)
<1>1. l \in Nat /\ k \in Nat /\ \A i \in 1 .. l : b[i] \in Byte
  BY LenProperties, ElementOfSeq
<1>2. head \in Seq(Byte) /\ Len(head) = at /\ \A i \in 1 .. at : head[i] = b[i]
  <2>1. \A i \in 1 .. at : b[i] \in Byte
    BY <1>1
  <2> QED
    BY <2>1, <1>1, SubSeqProperties
<1>3. /\ tail \in Seq(Byte) /\ Len(tail) = l - (at + k)
      /\ \A i \in 1 .. l - (at + k) : tail[i] = b[at + k + i]
  <2> DEFINE t == Field(b, at + k, l - (at + k))
  <2>1. at + k \in Nat /\ l - (at + k) \in Nat /\ at + k + (l - (at + k)) = l
    BY <1>1
  <2>2. t = tail
    BY <2>1 DEF Field
  <2>3. /\ t \in Seq(Byte) /\ Len(t) = l - (at + k)
        /\ \A i \in 1 .. l - (at + k) : t[i] = b[at + k + i]
    <3> HIDE DEF k
    <3>1. at + k + (l - (at + k)) <= Len(b)
      BY <2>1
    <3> HIDE DEF l
    <3> QED
      BY <2>1, <3>1, FieldBytes
  <2> QED
    BY <2>2, <2>3
<1>4. Put(b, at, s) = (head \o s) \o tail
  BY DEF Put
<1> HIDE DEF head, tail
<1> DEFINE hs == head \o s
<1>5. /\ hs \in Seq(Byte) /\ Len(hs) = at + k
      /\ \A i \in 1 .. at : hs[i] = b[i]
  BY <1>2, Cat
<1>6. \A j \in 1 .. k : hs[at + j] = s[j]
  BY <1>2, Cat
<1>7. /\ Put(b, at, s) \in Seq(Byte) /\ Len(Put(b, at, s)) = at + k + (l - (at + k))
      /\ \A i \in 1 .. at + k : Put(b, at, s)[i] = hs[i]
      /\ \A i \in 1 .. l - (at + k) : Put(b, at, s)[at + k + i] = tail[i]
  <2> HIDE DEF hs
  <2>1. Put(b, at, s) = hs \o tail
    BY <1>4 DEF hs
  <2>2. /\ hs \o tail \in Seq(Byte) /\ Len(hs \o tail) = Len(hs) + Len(tail)
        /\ \A i \in 1 .. Len(hs) : (hs \o tail)[i] = hs[i]
        /\ \A i \in 1 .. Len(tail) : (hs \o tail)[Len(hs) + i] = tail[i]
    BY <1>3, <1>5, Cat
  <2> HIDE DEF l, k
  <2> QED
    BY <1>3, <1>5, <2>1, <2>2, Zenon
<1> HIDE DEF hs
<1>8. \A i \in 1 .. k : Put(b, at, s)[at + i] = s[i]
  <2>1. \A i \in 1 .. k : at + i \in 1 .. at + k
    BY <1>1
  <2> QED
    BY <1>6, <1>7, <2>1
<1>9. \A i \in 1 .. l : i > at + k => Put(b, at, s)[i] = b[i]
  <2> SUFFICES ASSUME NEW i \in 1 .. l, i > at + k PROVE Put(b, at, s)[i] = b[i]
    OBVIOUS
  <2>1. i - (at + k) \in 1 .. l - (at + k) /\ at + k + (i - (at + k)) = i
    BY <1>1
  <2> QED
    BY <1>3, <1>7, <2>1
<1>10. \A i \in 1 .. l : i <= at => Put(b, at, s)[i] = b[i]
  <2>1. \A i \in 1 .. l : i <= at => i \in 1 .. at /\ i \in 1 .. at + k
    BY <1>1
  <2> HIDE DEF l, k
  <2> QED
    BY <1>5, <1>7, <2>1
<1> QED
  BY <1>1, <1>7, <1>8, <1>9, <1>10

(* The bytes of words and double words.                                    *)
LEMMA WordBytes ==
  ASSUME NEW n \in Int
  PROVE  /\ BE16(n) \in Seq(Byte) /\ Len(BE16(n)) = 2
         /\ LE16(n) \in Seq(Byte) /\ Len(LE16(n)) = 2
         /\ BE16(n)[1] = (n \div 256) % 256 /\ BE16(n)[2] = n % 256
<1>1. n \div 256 \in Int
  OBVIOUS
<1>2. (n \div 256) % 256 \in Byte /\ n % 256 \in Byte
  BY <1>1 DEF Byte
<1> QED
  BY <1>2 DEF BE16, LE16

(* A double word, low byte first.                                          *)
LEMMA DoubleWord ==
  ASSUME NEW n \in Nat
  PROVE  LE32(n) \in Seq(Byte) /\ Len(LE32(n)) = 4
<1>1. n % 65536 \in Int /\ n \div 65536 \in Int
  BY SMT
<1> DEFINE x == LE16(n % 65536)
           y == LE16(n \div 65536)
<1>2. x \in Seq(Byte) /\ Len(x) = 2 /\ y \in Seq(Byte) /\ Len(y) = 2
  BY <1>1, WordBytes, SMT
<1>3. LE32(n) = x \o y
  BY DEF LE32
<1> HIDE DEF x, y
<1>4. x \o y \in Seq(Byte) /\ Len(x \o y) = Len(x) + Len(y)
  BY ONLY <1>2, Cat, Zenon
<1> QED
  BY <1>2, <1>3, <1>4

(* A string of n bytes.                                                    *)
Bytes(s, n) == s \in Seq(Byte) /\ Len(s) = n

LEMMA BytesField ==
  ASSUME NEW b, NEW l \in Nat, Bytes(b, l), NEW at \in Nat, NEW n \in Nat, at + n <= l
  PROVE  Bytes(Field(b, at, n), n)
<1>1. b \in Seq(Byte) /\ at + n <= Len(b)
  BY DEF Bytes
<1> QED
  BY <1>1, FieldBytes, Zenon DEF Bytes

(* What its bytes are.                                                     *)
FromField(b, at, n) == \A x \in 1 .. n : Field(b, at, n)[x] = b[at + x]

LEMMA FieldAt ==
  ASSUME NEW b, NEW l \in Nat, Bytes(b, l), NEW at \in Nat, NEW n \in Nat, at + n <= l
  PROVE  FromField(b, at, n)
<1>1. b \in Seq(Byte) /\ at + n <= Len(b)
  BY DEF Bytes
<1>2. \A x \in 1 .. n : Field(b, at, n)[x] = b[at + x] /\ b[at + x] \in Byte
  BY ONLY <1>1, at \in Nat, n \in Nat, FieldBytes, ZenonT(60)
<1> QED
  BY <1>2 DEF FromField

(* Every byte of it is one.                                                *)
LEMMA BytesAt ==
  ASSUME NEW b, NEW l \in Nat, Bytes(b, l), NEW i \in 1 .. l
  PROVE  b[i] \in Byte
BY ElementOfSeq DEF Bytes

(* The whole is a field of itself.                                         *)
LEMMA WholeField ==
  ASSUME NEW b, NEW l \in Nat, Bytes(b, l)
  PROVE  Field(b, 0, l) = b
<1> DEFINE f == Field(b, 0, l)
<1>1. f \in Seq(Byte) /\ Len(f) = l /\ \A i \in 1 .. l : f[i] = b[0 + i]
  <2>1. b \in Seq(Byte) /\ 0 \in Nat /\ 0 + l <= Len(b)
    BY DEF Bytes
  <2> QED
    BY <2>1, FieldBytes, Zenon
<1>2. b \in Seq(Byte) /\ Len(b) = l
  BY DEF Bytes
<1> HIDE DEF f
<1>3. \A i \in 1 .. Len(f) : f[i] = b[i]
  BY <1>1
<1>4. f = b
  BY <1>1, <1>2, <1>3, SeqEqual
<1> QED
  BY <1>4 DEF f

(* A field of a field.                                                     *)
LEMMA FieldOfField ==
  ASSUME NEW b, NEW l \in Nat, Bytes(b, l), NEW at \in Nat, NEW n \in Nat, at + n <= l,
         NEW i \in Nat, NEW k \in Nat, i + k <= n, NEW j \in Nat, j = at + i
  PROVE  Field(Field(b, at, n), i, k) = Field(b, j, k)
<1> DEFINE f == Field(b, at, n)
<1>1. \A x \in 1 .. n : f[x] = b[at + x]
  BY FieldAt DEF FromField
<1> HIDE DEF f
<1>2. \A x \in 1 .. k : i + x \in 1 .. n /\ at + (i + x) = j + x
  OBVIOUS
<1>3. Agree(f, i, b, j, k)
  BY <1>1, <1>2 DEF Agree
<1>4. Field(f, i, k) = Field(b, j, k)
  BY <1>3, SameField
<1> QED
  BY <1>4 DEF f

(* Equal fields have equal fields in them.                                 *)
LEMMA FieldWithin ==
  ASSUME NEW a, NEW l \in Nat, Bytes(a, l), NEW c, NEW k \in Nat, Bytes(c, k), NEW at \in Nat, NEW n \in Nat,
         at + n <= l, at + n <= k, Field(c, at, n) = Field(a, at, n),
         NEW i \in Nat, NEW j \in Nat, at <= i, i + j <= at + n
  PROVE  Field(c, i, j) = Field(a, i, j)
<1> DEFINE x == i - at
<1>1. x \in Nat /\ x + j <= n /\ i = at + x
  OBVIOUS
<1> HIDE DEF x
<1>2. Field(Field(c, at, n), x, j) = Field(c, i, j)
  BY <1>1, FieldOfField
<1>3. Field(Field(a, at, n), x, j) = Field(a, i, j)
  BY <1>1, FieldOfField
<1> QED
  BY <1>2, <1>3

(* One string after another.                                               *)
LEMMA BytesCat ==
  ASSUME NEW m \in Nat, NEW n \in Nat, NEW s, NEW t, Bytes(s, m), Bytes(t, n), NEW l, l = m + n
  PROVE  Bytes(s \o t, l)
BY Cat DEF Bytes

LEMMA CatLeft ==
  ASSUME NEW m \in Nat, NEW n \in Nat, NEW s, NEW t, Bytes(s, m), Bytes(t, n),
         NEW i \in Nat, NEW k \in Nat, i + k <= m
  PROVE  Field(s \o t, i, k) = Field(s, i, k)
<1>1. \A x \in 1 .. m : (s \o t)[x] = s[x]
  BY Cat DEF Bytes
<1>2. \A x \in 1 .. k : i + x \in 1 .. m
  OBVIOUS
<1>3. Agree(s \o t, i, s, i, k)
  BY <1>1, <1>2 DEF Agree
<1> QED
  BY <1>3, SameField

LEMMA CatRight ==
  ASSUME NEW m \in Nat, NEW n \in Nat, NEW s, NEW t, Bytes(s, m), Bytes(t, n),
         NEW i \in Nat, NEW k \in Nat, i + k <= n, NEW j \in Nat, j = m + i
  PROVE  Field(s \o t, j, k) = Field(t, i, k)
<1>1. \A x \in 1 .. n : (s \o t)[m + x] = t[x]
  BY Cat DEF Bytes
<1>2. \A x \in 1 .. k : i + x \in 1 .. n /\ j + x = m + (i + x)
  OBVIOUS
<1>3. Agree(s \o t, j, t, i, k)
  BY <1>1, <1>2 DEF Agree
<1> QED
  BY <1>3, SameField

(* The front of a string, and what is put behind it.                       *)
Keeps(x, y, m) == \A i, k \in Nat : i + k <= m => Field(x, i, k) = Field(y, i, k)

LEMMA CatLast ==
  ASSUME NEW m \in Nat, NEW n \in Nat, NEW s, NEW t, Bytes(s, m), Bytes(t, n)
  PROVE  Field(s \o t, m, n) = t /\ Keeps(s \o t, s, m)
<1>1. Field(s \o t, m, n) = t
  <2>1. 0 + n <= n /\ m = m + 0
    OBVIOUS
  <2>2. Field(s \o t, m, n) = Field(t, 0, n)
    BY <2>1, CatRight
  <2> QED
    BY <2>2, WholeField
<1>2. ASSUME NEW i \in Nat, NEW k \in Nat, i + k <= m PROVE Field(s \o t, i, k) = Field(s, i, k)
  BY <1>2, CatLeft
<1> QED
  BY <1>1, <1>2 DEF Keeps

(* A string put into another.                                              *)
LEMMA BytesPut ==
  ASSUME NEW b, NEW l \in Nat, Bytes(b, l), NEW at \in Nat, NEW n \in Nat, NEW s, Bytes(s, n),
         at + n <= l
  PROVE  Bytes(Put(b, at, s), l)
<1>1. b \in Seq(Byte) /\ s \in Seq(Byte) /\ at + Len(s) <= Len(b) /\ Len(b) = l
  BY DEF Bytes
<1>2. Put(b, at, s) \in Seq(Byte) /\ Len(Put(b, at, s)) = Len(b)
  BY <1>1, PutBytes, Zenon
<1> QED
  BY <1>1, <1>2 DEF Bytes

LEMMA PutInside ==
  ASSUME NEW b, NEW l \in Nat, Bytes(b, l), NEW at \in Nat, NEW n \in Nat, NEW s, Bytes(s, n),
         at + n <= l, NEW i \in Nat, NEW k \in Nat, i + k <= n, NEW j \in Nat, j = at + i
  PROVE  Field(Put(b, at, s), j, k) = Field(s, i, k)
<1>1. b \in Seq(Byte) /\ s \in Seq(Byte) /\ at + Len(s) <= Len(b) /\ Len(s) = n
  BY DEF Bytes
<1>2. \A x \in 1 .. Len(s) : Put(b, at, s)[at + x] = s[x]
  BY <1>1, PutBytes, Zenon
<1>3. \A x \in 1 .. k : i + x \in 1 .. n /\ j + x = at + (i + x)
  OBVIOUS
<1>4. Agree(Put(b, at, s), j, s, i, k)
  BY <1>1, <1>2, <1>3 DEF Agree
<1> QED
  BY <1>4, SameField

LEMMA PutOutside ==
  ASSUME NEW b, NEW l \in Nat, Bytes(b, l), NEW at \in Nat, NEW n \in Nat, NEW s, Bytes(s, n),
         at + n <= l, NEW i \in Nat, NEW k \in Nat, i + k <= l, i + k <= at \/ at + n <= i
  PROVE  Field(Put(b, at, s), i, k) = Field(b, i, k)
<1>1. b \in Seq(Byte) /\ s \in Seq(Byte) /\ at + Len(s) <= Len(b) /\ Len(s) = n /\ Len(b) = l
  BY DEF Bytes
<1>2. \A x \in 1 .. Len(b) : x <= at \/ x > at + Len(s) => Put(b, at, s)[x] = b[x]
  BY <1>1, PutBytes, Zenon
<1>3. \A x \in 1 .. k : i + x \in 1 .. l /\ (i + x <= at \/ i + x > at + n)
  OBVIOUS
<1>4. Agree(Put(b, at, s), i, b, i, k)
  BY <1>1, <1>2, <1>3 DEF Agree
<1> QED
  BY <1>4, SameField

(* The bytes and words of equal fields.                                    *)
LEMMA SameByte ==
  ASSUME NEW a, NEW b, NEW l \in Nat, NEW n \in Nat, Bytes(a, l), Bytes(b, n),
         NEW i \in Nat, NEW j \in Nat, i + 1 <= l, j + 1 <= n, Field(a, i, 1) = Field(b, j, 1)
  PROVE  At(a, i) = At(b, j)
<1>1. \A x \in 1 .. 1 : Field(a, i, 1)[x] = a[i + x]
  BY FieldAt DEF FromField
<1>2. \A x \in 1 .. 1 : Field(b, j, 1)[x] = b[j + x]
  BY FieldAt DEF FromField
<1> QED
  BY <1>1, <1>2 DEF At

LEMMA SameWord ==
  ASSUME NEW a, NEW b, NEW l \in Nat, NEW n \in Nat, Bytes(a, l), Bytes(b, n),
         NEW i \in Nat, NEW j \in Nat, i + 2 <= l, j + 2 <= n, Field(a, i, 2) = Field(b, j, 2)
  PROVE  U16(a, i) = U16(b, j)
<1>1. \A x \in 1 .. 2 : Field(a, i, 2)[x] = a[i + x]
  BY FieldAt DEF FromField
<1>2. \A x \in 1 .. 2 : Field(b, j, 2)[x] = b[j + x]
  BY FieldAt DEF FromField
<1>3. a[i + 1] = b[j + 1] /\ a[i + 2] = b[j + 2]
  BY <1>1, <1>2
<1> QED
  BY <1>3 DEF U16

(* Short strings, and words as strings.                                    *)
LEMMA ShortBytes ==
  /\ \A x \in Byte : Bytes(<<x>>, 1)
  /\ \A x, y \in Byte : Bytes(<<x, y>>, 2)
  /\ \A x, y, z, w \in Byte : Bytes(<<x, y, z, w>>, 4)
<1>1. ASSUME NEW x \in Byte PROVE Bytes(<<x>>, 1)
  BY DEF Bytes
<1>2. ASSUME NEW x \in Byte, NEW y \in Byte PROVE Bytes(<<x, y>>, 2)
  BY DEF Bytes
<1>3. ASSUME NEW x \in Byte, NEW y \in Byte, NEW z \in Byte, NEW w \in Byte
      PROVE  Bytes(<<x, y, z, w>>, 4)
  BY DEF Bytes
<1> QED
  BY <1>1, <1>2, <1>3

LEMMA BytesBE16 ==
  ASSUME NEW n \in Int
  PROVE  Bytes(BE16(n), 2)
BY WordBytes DEF Bytes

(* The greatest word.                                                     *)
WordMax == 65535

LEMMA WordHalves ==
  ASSUME NEW n \in Nat
  PROVE  n = 256 * (n \div 256) + (n % 256)
BY SMT

LEMMA LowHalf ==
  ASSUME NEW n \in Nat
  PROVE  n % 256 \in 0 .. 255
OBVIOUS

LEMMA HighHalf ==
  ASSUME NEW n \in Nat, n <= WordMax
  PROVE  n \div 256 \in 0 .. 255
BY SMT DEF WordMax

(* A word is what was written there.                                       *)
LEMMA ReadBE16 ==
  ASSUME NEW b, NEW l \in Nat, Bytes(b, l), NEW i \in Nat, i + 2 <= l, NEW n \in Nat, n <= WordMax,
         Field(b, i, 2) = BE16(n)
  PROVE  U16(b, i) = n
<1>2. \A x \in 1 .. 2 : Field(b, i, 2)[x] = b[i + x]
  BY FieldAt DEF FromField
<1>3. b[i + 1] = BE16(n)[1] /\ b[i + 2] = BE16(n)[2]
  BY <1>2
<1>5. BE16(n)[1] = (n \div 256) % 256 /\ BE16(n)[2] = n % 256
  BY DEF BE16
<1>6. ((n \div 256) % 256) * 256 + (n % 256) = n
  <2>1. n \div 256 \in 0 .. 255 /\ n = 256 * (n \div 256) + (n % 256) /\ n % 256 \in 0 .. 255
    BY WordHalves, LowHalf, HighHalf
  <2>2. ASSUME NEW q \in 0 .. 255, NEW r \in 0 .. 255 PROVE (q % 256) * 256 + r = 256 * q + r
    OBVIOUS
  <2> QED
    BY <2>1, <2>2
<1> HIDE DEF BE16
<1> QED
  BY <1>3, <1>5, <1>6 DEF U16

(* A word of a string of bytes.                                            *)
LEMMA WordTyped ==
  ASSUME NEW b, NEW l \in Nat, Bytes(b, l), NEW i \in Nat, i + 2 <= l
  PROVE  U16(b, i) \in Nat /\ U16(b, i) <= WordMax
<1>1. i + 1 \in 1 .. l /\ i + 2 \in 1 .. l
  OBVIOUS
<1>2. b[i + 1] \in Byte /\ b[i + 2] \in Byte
  BY <1>1, BytesAt
<1> DEFINE x == b[i + 1]
           y == b[i + 2]
<1>3. x \in 0 .. 255 /\ y \in 0 .. 255
  BY <1>2 DEF Byte
<1> HIDE DEF x, y
<1>4. x * 256 + y \in Nat /\ x * 256 + y <= WordMax
  BY ONLY <1>3, SMT DEF WordMax
<1> QED
  BY <1>4 DEF U16, x, y

(* The sum of words is that of a function s, and at most WordMax for each. *)
LEMMA WordsTyped ==
  ASSUME NEW b, NEW l \in Nat, Bytes(b, l), NEW at \in Nat, NEW n \in Nat, at + 2 * n <= l
  PROVE  /\ WordsOf(b, at, n) \in [1 .. n -> Int]
         /\ \E s : Adds(s, WordsOf(b, at, n), n) /\ Words(b, at, n) = s[n]
         /\ Words(b, at, n) \in 0 .. WordMax * n
<1> DEFINE w == WordsOf(b, at, n)
<1>0. WordMax \in Nat
  BY SMT DEF WordMax
<1>1. \A i \in 1 .. n : U16(b, at + 2 * (i - 1)) \in 0 .. WordMax
  <2> SUFFICES ASSUME NEW i \in 1 .. n PROVE U16(b, at + 2 * (i - 1)) \in 0 .. WordMax
    OBVIOUS
  <2> DEFINE o == at + 2 * (i - 1)
  <2>1. o \in Nat /\ o + 2 <= l
    OBVIOUS
  <2> HIDE DEF o
  <2>2. U16(b, o) \in 0 .. WordMax
    BY <1>0, <2>1, WordTyped
  <2> QED
    BY <2>2 DEF o
<1>2. w \in [1 .. n -> Int] /\ \A i \in 1 .. n : w[i] \in 0 .. WordMax
  BY <1>1 DEF WordsOf
<1> HIDE DEF w
<1>3. PICK s : Adds(s, w, n) /\ Words(b, at, n) = s[n]
  BY <1>2, WordsAdds DEF w
<1>4. s[n] \in 0 .. WordMax * n
  BY <1>0, <1>2, <1>3, SumBounded
<1> QED
  BY <1>2, <1>3, <1>4 DEF w

(* The words are integers, and their sum adds them.                        *)
SumOf(b, at, n) ==
  /\ WordsOf(b, at, n) \in [1 .. n -> Int]
  /\ \E s : Adds(s, WordsOf(b, at, n), n) /\ Words(b, at, n) = s[n]

LEMMA WordsSummed ==
  ASSUME NEW b, NEW l \in Nat, Bytes(b, l), NEW at \in Nat, NEW n \in Nat, at + 2 * n <= l
  PROVE  SumOf(b, at, n)
<1>1. /\ WordsOf(b, at, n) \in [1 .. n -> Int]
      /\ \E s : Adds(s, WordsOf(b, at, n), n) /\ Words(b, at, n) = s[n]
  BY WordsTyped, ZenonT(60)
<1> QED
  BY <1>1 DEF SumOf

(* Equal fields have equal sums.                                           *)
LEMMA SameWords ==
  ASSUME NEW a, NEW b, NEW l \in Nat, NEW k \in Nat, Bytes(a, l), Bytes(b, k),
         NEW i \in Nat, NEW j \in Nat, NEW n \in Nat, i + 2 * n <= l, j + 2 * n <= k,
         Field(a, i, 2 * n) = Field(b, j, 2 * n)
  PROVE  Words(a, i, n) = Words(b, j, n)
<1> DEFINE m == 2 * n
<1>1. m \in Nat /\ i + m <= l /\ j + m <= k
  OBVIOUS
<1>2. \A x \in 1 .. m : a[i + x] = b[j + x]
  <2> HIDE DEF m
  <2>1. a \in Seq(Byte) /\ b \in Seq(Byte) /\ i + m <= Len(a) /\ j + m <= Len(b)
    BY <1>1 DEF Bytes
  <2>2. \A x \in 1 .. m : Field(a, i, m)[x] = a[i + x]
    BY <1>1, <2>1, FieldBytes
  <2>3. \A x \in 1 .. m : Field(b, j, m)[x] = b[j + x]
    BY <1>1, <2>1, FieldBytes
  <2>4. Field(a, i, m) = Field(b, j, m)
    BY DEF m
  <2> QED
    BY <2>2, <2>3, <2>4
<1>3. \A x \in 1 .. n : U16(a, i + 2 * (x - 1)) = U16(b, j + 2 * (x - 1))
  <2> SUFFICES ASSUME NEW x \in 1 .. n PROVE U16(a, i + 2 * (x - 1)) = U16(b, j + 2 * (x - 1))
    OBVIOUS
  <2> DEFINE y == 2 * (x - 1)
  <2>1. y + 1 \in 1 .. m /\ y + 2 \in 1 .. m /\ y \in Int
    OBVIOUS
  <2> HIDE DEF y, m
  <2>2. i + (y + 1) = (i + y) + 1 /\ j + (y + 1) = (j + y) + 1
    BY <2>1
  <2>3. i + (y + 2) = (i + y) + 2 /\ j + (y + 2) = (j + y) + 2
    BY <2>1
  <2>4. a[i + (y + 1)] = b[j + (y + 1)] /\ a[i + (y + 2)] = b[j + (y + 2)]
    BY <1>2, <2>1
  <2>5. U16(a, i + y) = U16(b, j + y)
    BY <2>2, <2>3, <2>4 DEF U16
  <2> QED
    BY <2>5 DEF y
<1>4. WordsOf(a, i, n) = WordsOf(b, j, n)
  BY <1>3 DEF WordsOf
<1> DEFINE w == WordsOf(a, i, n)
<1>5. SumOf(a, i, n) /\ SumOf(b, j, n)
  BY WordsSummed, Zenon
<1>6. /\ w \in [1 .. n -> Int] /\ \E s : Adds(s, w, n) /\ Words(a, i, n) = s[n]
      /\ \E s : Adds(s, w, n) /\ Words(b, j, n) = s[n]
  BY <1>4, <1>5, Zenon DEF SumOf
<1> HIDE DEF w
<1>7. PICK s : Adds(s, w, n) /\ Words(a, i, n) = s[n]
  BY <1>6
<1>8. PICK t : Adds(t, w, n) /\ Words(b, j, n) = t[n]
  BY <1>6
<1>9. t[n] = s[n]
  <2>1. Raised(w, w, n, 0, 0)
    BY <1>6 DEF Raised
  <2>2. t[n] = s[n] + (IF 0 \in 1 .. n THEN 0 ELSE 0)
    BY <1>6, <1>7, <1>8, <2>1, SumsDiffer DEF Terms
  <2>3. s[n] \in Int
    BY <1>7 DEF Adds
  <2> QED
    BY <2>2, <2>3
<1> QED
  BY <1>7, <1>8, <1>9

(* The complement of a sum with its carries fills the sum up to a multiple *)
(* of the greatest word, and is a word.                                    *)
LEMMA CarryIs ==
  ASSUME NEW w \in Nat
  PROVE  /\ Carry(w) = w - 65535 * (w \div 65536) /\ w \div 65536 \in Nat
         /\ Carry(w) \in Nat
<1>1. w = 65536 * (w \div 65536) + (w % 65536)
  BY SMT
<1>2. w \div 65536 \in Nat
  BY SMT
<1>3. w % 65536 \in Nat
  BY SMT
<1> QED
  BY <1>1, <1>2, <1>3, SMT DEF Carry

LEMMA CarryBounds ==
  ASSUME NEW w \in Nat
  PROVE  /\ w <= 65535 * 65535 => Carry(w) <= 131069
         /\ w <= 131069 => Carry(w) <= 65535
<1>1. ASSUME w <= 65535 * 65535 PROVE Carry(w) <= 131069
  <2>1. w \div 65536 <= 65534
    BY <1>1, SMT
  <2>2. w % 65536 <= 65535
    BY SMT
  <2>3. w \div 65536 \in Nat /\ w % 65536 \in Nat
    BY SMT
  <2> QED
    BY <2>1, <2>2, <2>3, SMT DEF Carry
<1>2. ASSUME w <= 131069 PROVE Carry(w) <= 65535
  <2>1. CASE w <= 65535
    <3>1. w \div 65536 = 0
      BY <2>1, SMT
    <3>2. w % 65536 = w
      BY <2>1, SMT
    <3> QED
      BY <2>1, <3>1, <3>2, SMT DEF Carry
  <2>2. CASE w >= 65536
    <3>1. w \div 65536 = 1
      BY <1>2, <2>2, SMT
    <3>2. w % 65536 = w - 65536
      BY <1>2, <2>2, SMT
    <3> QED
      BY <1>2, <2>2, <3>1, <3>2, SMT DEF Carry
  <2> QED
    BY <2>1, <2>2, SMT
<1> QED
  BY <1>1, <1>2, SMT

LEMMA ComplementIs ==
  ASSUME NEW w \in Nat, w <= WordMax * WordMax, NEW c, c = WordMax - Carry(Carry(w))
  PROVE  c \in Nat /\ c <= WordMax /\ (w + c) % WordMax = 0
<1> DEFINE a == Carry(w)
           q == w \div 65536
           p == a \div 65536
<1>1. a = w - 65535 * q /\ q \in Nat /\ a \in Nat
  BY CarryIs, SMT
<1>2. a <= 131069
  BY CarryBounds, SMT DEF WordMax
<1> HIDE DEF a, q
<1>3. Carry(a) = a - 65535 * p /\ p \in Nat /\ Carry(a) \in Nat
  BY <1>1, CarryIs, SMT
<1>4. Carry(a) <= 65535
  BY <1>1, <1>2, CarryBounds, SMT
<1>5. c = 65535 - Carry(a)
  BY SMT DEF a, WordMax
<1> HIDE DEF p
<1> DEFINE k == 1 + q + p
<1>6. k \in Nat /\ w + c = 65535 * k
  BY <1>1, <1>3, <1>5, SMT
<1> HIDE DEF k
<1>7. (65535 * k) % 65535 = 0
  BY <1>6, SMT
<1>8. (w + c) % WordMax = 0
  BY <1>6, <1>7, SMT DEF WordMax
<1>9. c \in Nat
  BY <1>3, <1>4, <1>5, SMT
<1>10. c <= WordMax
  BY <1>3, <1>4, <1>5, SMT DEF WordMax
<1> QED
  BY <1>8, <1>9, <1>10, SMT

(* A checksum written over a word that was 0 makes the sum a multiple of   *)
(* the greatest word.                                                      *)
SumIsRight(b, at, n) == Words(b, at, n) % WordMax = 0

WordAt(o, at, j) == o = at + 2 * (j - 1)

Summed(r, b, o, at, n) == r = Put(b, o, BE16(WordMax - Carry(Carry(Words(b, at, n)))))

LEMMA ChecksumWritten ==
  ASSUME NEW b, NEW l \in Nat, Bytes(b, l), l <= WordMax, NEW at \in Nat, NEW n \in Nat,
         at + 2 * n <= l, NEW j \in 1 .. n, NEW o, WordAt(o, at, j), U16(b, o) = 0,
         NEW r, Summed(r, b, o, at, n)
  PROVE  SumIsRight(r, at, n)
<1> DEFINE c == WordMax - Carry(Carry(Words(b, at, n)))
<1>a. o = at + 2 * (j - 1) /\ r = Put(b, o, BE16(c))
  BY Zenon DEF WordAt, Summed
<1>b. c = WordMax - Carry(Carry(Words(b, at, n)))
  BY Zenon
<1> HIDE DEF c
<1> DEFINE w == WordsOf(b, at, n)
           v == WordsOf(r, at, n)
<1>1. /\ w \in [1 .. n -> Int] /\ Words(b, at, n) \in 0 .. WordMax * n
      /\ \E s : Adds(s, w, n) /\ Words(b, at, n) = s[n]
  BY WordsTyped, ZenonT(60)
<1>2. WordMax \in Nat
  BY SMT DEF WordMax
<1>3. Words(b, at, n) \in Nat /\ Words(b, at, n) <= WordMax * WordMax
  <2> DEFINE x == Words(b, at, n)
  <2> HIDE DEF x
  <2>1. x \in 0 .. WordMax * n
    BY <1>1 DEF x
  <2>2. n <= WordMax
    BY <1>2
  <2>3. WordMax * n <= WordMax * WordMax
    BY <1>2, <2>2
  <2>4. x \in Nat /\ x <= WordMax * WordMax
    BY <1>2, <2>1, <2>3
  <2> QED
    BY <2>4 DEF x
<1>4. c \in Nat /\ c <= WordMax /\ (Words(b, at, n) + c) % WordMax = 0
  <2> DEFINE x == Words(b, at, n)
             d == WordMax - Carry(Carry(x))
  <2>1. x \in Nat /\ x <= WordMax * WordMax
    BY <1>3, SMT
  <2>2. c = d
    BY <1>b, SMT
  <2> HIDE DEF x
  <2>3. d \in Nat /\ d <= WordMax /\ (x + d) % WordMax = 0
    BY <2>1, ComplementIs, SMT
  <2> QED
    BY <2>2, <2>3, SMT DEF x
<1>5. o \in Nat /\ o + 2 <= l
  BY <1>a
<1> DEFINE s2 == BE16(c)
<1>6. Bytes(s2, 2)
  BY <1>4, BytesBE16
<1> HIDE DEF s2
<1>7. Bytes(r, l) /\ Field(r, o, 2) = s2
  <2>1. r = Put(b, o, s2)
    BY <1>a, Zenon DEF s2
  <2>2. Bytes(r, l)
    BY <1>5, <1>6, <2>1, BytesPut
  <2>3. Field(r, o, 2) = Field(s2, 0, 2)
    BY <1>5, <1>6, <2>1, PutInside
  <2>4. Field(s2, 0, 2) = s2
    BY <1>6, WholeField
  <2> QED
    BY <2>2, <2>3, <2>4
<1>8. U16(r, o) = c
  BY <1>4, <1>5, <1>7, ReadBE16 DEF s2
<1>9. ASSUME NEW x \in 1 .. n, x # j
      PROVE  U16(r, at + 2 * (x - 1)) = U16(b, at + 2 * (x - 1))
  <2> DEFINE y == at + 2 * (x - 1)
  <2>1. y \in Nat /\ y + 2 <= l /\ (y + 2 <= o \/ o + 2 <= y)
    <3>1. x < j \/ x > j
      BY <1>9
    <3> QED
      BY <1>a, <3>1
  <2> HIDE DEF y
  <2>2. r = Put(b, o, s2)
    BY <1>a, Zenon DEF s2
  <2>3. Field(r, y, 2) = Field(b, y, 2)
    BY <1>5, <1>6, <2>1, <2>2, PutOutside
  <2>4. U16(r, y) = U16(b, y)
    BY <1>7, <2>1, <2>3, SameWord
  <2> QED
    BY <2>4 DEF y
<1>10. Raised(v, w, n, j, c)
  <2>1. \A x \in 1 .. n : w[x] = U16(b, at + 2 * (x - 1)) /\ v[x] = U16(r, at + 2 * (x - 1))
    BY Zenon DEF WordsOf
  <2>2. \A x \in 1 .. n : w[x] \in Int
    BY <1>1
  <2>3. w[j] = 0 /\ v[j] = c
    BY <1>8, <1>a, <2>1
  <2>4. ASSUME NEW x \in 1 .. n, x # j PROVE v[x] = w[x] /\ w[x] \in Int
    BY <1>9, <2>1, <2>2, <2>4
  <2>5. c \in Int
    BY <1>4
  <2> HIDE DEF v, w
  <2> QED
    BY <2>3, <2>4, <2>5 DEF Raised
<1>11. v \in [1 .. n -> Int] /\ \E t : Adds(t, v, n) /\ Words(r, at, n) = t[n]
  <2>1. at + 2 * n <= l
    OBVIOUS
  <2> QED
    BY ONLY at \in Nat, n \in Nat, l \in Nat, <1>7, <2>1, WordsTyped
<1> HIDE DEF v, w
<1>12. PICK s : Adds(s, w, n) /\ Words(b, at, n) = s[n]
  BY <1>1
<1>13. PICK t : Adds(t, v, n) /\ Words(r, at, n) = t[n]
  BY <1>11
<1>14. t[n] = s[n] + c
  <2>1. j \in Nat /\ c \in Int
    BY <1>4
  <2>2. t[n] = s[n] + (IF j \in 1 .. n THEN c ELSE 0)
    <3>1. n \in Nat /\ Terms(w, n) /\ Terms(v, n)
      BY <1>1, <1>11 DEF Terms
    <3>2. Adds(s, w, n) /\ Adds(t, v, n)
      BY <1>12, <1>13
    <3> QED
      BY ONLY <1>10, <2>1, <3>1, <3>2, SumsDiffer
  <2> QED
    BY <2>2
<1> QED
  BY <1>4, <1>12, <1>13, <1>14, SMT DEF SumIsRight

(* The header of an answer, and what it says.                              *)
LEMMA HeaderBytes ==
  ASSUME NEW p \in Byte, NEW size \in Nat, NEW src, NEW dst, Bytes(src, 4), Bytes(dst, 4),
         NEW h, h = IPHeader(p, size, src, dst)
  PROVE  /\ Bytes(h, 20) /\ Field(h, 2, 2) = BE16(IP + size)
         /\ Field(h, 12, 4) = src /\ Field(h, 16, 4) = dst
         /\ At(h, 0) = 69 /\ At(h, 9) = p /\ U16(h, 10) = 0
<1> DEFINE p1 == <<69, 0>>
           p2 == BE16(IP + size)
           p3 == <<0, 0, 0, 0, 128, p, 0, 0>>
           h2 == p1 \o p2
           h3 == h2 \o p3
           h4 == h3 \o src
<1>1. h = h4 \o dst
  BY Zenon DEF IPHeader
<1>2. Bytes(p1, 2) /\ At(p1, 0) = 69
  BY DEF Bytes, Byte, At
<1>3. Bytes(p2, 2)
  <2>1. IP + size \in Int
    BY DEF IP
  <2> QED
    BY <2>1, BytesBE16
<1>4. Bytes(p3, 8) /\ At(p3, 5) = p /\ U16(p3, 6) = 0
  <2>1. 0 \in Byte /\ 128 \in Byte
    BY DEF Byte
  <2>2. p3 \in Seq(Byte) /\ Len(p3) = 8
    BY <2>1
  <2>3. p3[6] = p /\ p3[7] = 0 /\ p3[8] = 0
    OBVIOUS
  <2> HIDE DEF p3
  <2> QED
    BY <2>2, <2>3 DEF Bytes, At, U16
<1> HIDE DEF p1, p2, p3
<1>5. Bytes(h2, 4)
  BY <1>2, <1>3, BytesCat
<1>6. Field(h2, 2, 2) = p2 /\ Field(h2, 0, 1) = Field(p1, 0, 1)
  <2>1. Field(h2, 2, 2) = Field(p2, 0, 2)
    BY <1>2, <1>3, CatRight
  <2>2. Field(p2, 0, 2) = p2
    BY <1>3, WholeField
  <2>3. Field(h2, 0, 1) = Field(p1, 0, 1)
    BY <1>2, <1>3, CatLeft
  <2> QED
    BY <2>1, <2>2, <2>3
<1> HIDE DEF h2
<1>7. Bytes(h3, 12)
  BY <1>4, <1>5, BytesCat
<1>8. Field(h3, 0, 1) = Field(h2, 0, 1) /\ Field(h3, 2, 2) = Field(h2, 2, 2)
  BY <1>4, <1>5, CatLeft
<1>9. Field(h3, 9, 1) = Field(p3, 5, 1) /\ Field(h3, 10, 2) = Field(p3, 6, 2)
  BY <1>4, <1>5, CatRight
<1> HIDE DEF h3
<1>10. Bytes(h4, 16)
  BY <1>7, BytesCat
<1>11. /\ Field(h4, 0, 1) = Field(h3, 0, 1) /\ Field(h4, 2, 2) = Field(h3, 2, 2)
       /\ Field(h4, 9, 1) = Field(h3, 9, 1) /\ Field(h4, 10, 2) = Field(h3, 10, 2)
  BY <1>7, CatLeft
<1>12. Field(h4, 12, 4) = src
  <2>1. Field(h4, 12, 4) = Field(src, 0, 4)
    BY <1>7, CatRight
  <2>2. Field(src, 0, 4) = src
    BY WholeField
  <2> QED
    BY <2>1, <2>2
<1> HIDE DEF h4
<1>13. Bytes(h, 20)
  BY <1>1, <1>10, BytesCat
<1>14. /\ Field(h, 0, 1) = Field(h4, 0, 1) /\ Field(h, 2, 2) = Field(h4, 2, 2)
       /\ Field(h, 9, 1) = Field(h4, 9, 1) /\ Field(h, 10, 2) = Field(h4, 10, 2)
       /\ Field(h, 12, 4) = Field(h4, 12, 4)
  BY <1>1, <1>10, CatLeft
<1>15. Field(h, 16, 4) = dst
  <2>1. Field(h, 16, 4) = Field(dst, 0, 4)
    BY <1>1, <1>10, CatRight
  <2>2. Field(dst, 0, 4) = dst
    BY WholeField
  <2> QED
    BY <2>1, <2>2
<1>16. Field(h, 0, 1) = Field(p1, 0, 1) /\ Field(h, 9, 1) = Field(p3, 5, 1) /\ Field(h, 10, 2) = Field(p3, 6, 2)
  BY <1>6, <1>8, <1>9, <1>11, <1>14
<1>17. At(h, 0) = At(p1, 0) /\ At(h, 9) = At(p3, 5)
  BY <1>2, <1>4, <1>13, <1>16, SameByte
<1>18. U16(h, 10) = U16(p3, 6)
  BY <1>4, <1>13, <1>16, SameWord
<1>19. Field(h, 2, 2) = p2 /\ Field(h, 12, 4) = src
  BY <1>6, <1>8, <1>11, <1>12, <1>14
<1> QED
  BY <1>2, <1>4, <1>13, <1>15, <1>17, <1>18, <1>19 DEF p2

(* The IP header in a frame, with its checksum.                            *)
LEMMA ChecksumBytes ==
  ASSUME NEW b, NEW l \in Nat, Bytes(b, l), 34 <= l, NEW r, r = WithChecksum(b)
  PROVE  /\ Bytes(r, l)
         /\ \E s : Bytes(s, 2) /\ r = Put(b, 24, s) /\ s = BE16(WordMax - Carry(Carry(Words(b, 14, 10))))
<1> DEFINE c == WordMax - Carry(Carry(Words(b, 14, 10)))
           s == BE16(c)
<1>1. ETH + 10 = 24 /\ ETH = 14 /\ IP \div 2 = 10
  BY DEF ETH, IP
<1>2. r = Put(b, 24, s)
  BY <1>1, SMT DEF WithChecksum, Checksum16, WordMax
<1>3. c \in Int
  <2> DEFINE x == Words(b, 14, 10)
  <2>1. 14 + 2 * 10 <= l
    OBVIOUS
  <2>2. Words(b, 14, 10) \in 0 .. WordMax * 10
    BY <2>1, WordsTyped
  <2>3. WordMax \in Nat
    BY SMT DEF WordMax
  <2>4. x \in Nat
    BY <2>2, <2>3
  <2> HIDE DEF x
  <2>5. Carry(x) \in Nat
    BY <2>4, CarryIs
  <2>6. Carry(Carry(x)) \in Nat
    BY <2>5, CarryIs
  <2> QED
    BY <2>3, <2>6 DEF x
<1>4. Bytes(s, 2)
  BY <1>3, BytesBE16
<1> HIDE DEF c
<1>5. Bytes(r, l)
  <2> HIDE DEF s
  <2>1. 24 + 2 <= l
    OBVIOUS
  <2> QED
    BY <1>2, <1>4, <2>1, BytesPut
<1> QED
  BY <1>2, <1>4, <1>5, Zenon DEF c

(* It changes nothing but the word of the checksum.                        *)
LEMMA ChecksumOutside ==
  ASSUME NEW b, NEW l \in Nat, Bytes(b, l), 34 <= l, NEW i \in Nat, NEW k \in Nat, i + k <= l,
         i + k <= 24 \/ 26 <= i
  PROVE  Field(WithChecksum(b), i, k) = Field(b, i, k)
<1> DEFINE r == WithChecksum(b)
<1>1. PICK s : Bytes(s, 2) /\ r = Put(b, 24, s)
  BY ChecksumBytes
<1> HIDE DEF r
<1>2. Field(r, i, k) = Field(b, i, k)
  <2>1. 24 + 2 <= l /\ (i + k <= 24 \/ 24 + 2 <= i)
    OBVIOUS
  <2> QED
    BY <1>1, <2>1, PutOutside
<1> QED
  BY <1>2 DEF r

LEMMA Checksummed ==
  ASSUME NEW b, NEW l \in Nat, Bytes(b, l), 34 <= l, l <= WordMax,
         NEW p \in Byte, NEW size \in Nat, NEW src, NEW dst, Bytes(src, 4), Bytes(dst, 4),
         Field(b, 14, 20) = IPHeader(p, size, src, dst), NEW r, r = WithChecksum(b)
  PROVE  /\ Bytes(r, l) /\ SumIsRight(r, 14, 10)
         /\ At(r, 14) = 69 /\ At(r, 23) = p /\ Field(r, 16, 2) = BE16(IP + size)
         /\ Field(r, 26, 4) = src /\ Field(r, 30, 4) = dst
<1> DEFINE h == IPHeader(p, size, src, dst)
<1>1. /\ Bytes(h, 20) /\ Field(h, 2, 2) = BE16(IP + size)
      /\ Field(h, 12, 4) = src /\ Field(h, 16, 4) = dst
      /\ At(h, 0) = 69 /\ At(h, 9) = p /\ U16(h, 10) = 0
  BY HeaderBytes
<1>2. h = Field(b, 14, 20)
  OBVIOUS
<1> HIDE DEF h
<1>3. PICK s : Bytes(s, 2) /\ r = Put(b, 24, s) /\ s = BE16(WordMax - Carry(Carry(Words(b, 14, 10))))
  BY ChecksumBytes
<1>4. Bytes(r, l)
  BY ChecksumBytes
<1>5. 14 + 20 <= l
  OBVIOUS
<1>6. /\ Field(h, 0, 1) = Field(b, 14, 1) /\ Field(h, 9, 1) = Field(b, 23, 1)
      /\ Field(h, 10, 2) = Field(b, 24, 2) /\ Field(h, 2, 2) = Field(b, 16, 2)
      /\ Field(h, 12, 4) = Field(b, 26, 4) /\ Field(h, 16, 4) = Field(b, 30, 4)
  BY <1>2, <1>5, FieldOfField
<1>7. /\ Field(r, 14, 1) = Field(b, 14, 1) /\ Field(r, 23, 1) = Field(b, 23, 1)
      /\ Field(r, 16, 2) = Field(b, 16, 2)
      /\ Field(r, 26, 4) = Field(b, 26, 4) /\ Field(r, 30, 4) = Field(b, 30, 4)
  <2> DEFINE Same(i, k) == Field(r, i, k) = Field(b, i, k)
  <2>1. ASSUME NEW i \in Nat, NEW k \in Nat, i + k <= l, i + k <= 24 \/ 26 <= i PROVE Same(i, k)
    BY <2>1, ChecksumOutside
  <2> HIDE DEF Same
  <2>2. Same(14, 1) /\ Same(23, 1) /\ Same(16, 2) /\ Same(26, 4) /\ Same(30, 4)
    BY <2>1
  <2> QED
    BY <2>2 DEF Same
<1>8. At(r, 14) = 69
  <2>1. At(r, 14) = At(h, 0)
    BY <1>1, <1>4, <1>6, <1>7, SameByte
  <2> QED
    BY <1>1, <2>1
<1>9. At(r, 23) = p
  <2>1. At(r, 23) = At(h, 9)
    BY <1>1, <1>4, <1>6, <1>7, SameByte
  <2> QED
    BY <1>1, <2>1
<1>10. U16(b, 24) = 0
  <2>1. U16(b, 24) = U16(h, 10)
    BY <1>1, <1>6, SameWord
  <2> QED
    BY <1>1, <2>1
<1>11. SumIsRight(r, 14, 10)
  <2>1. 14 + 2 * 10 <= l
    OBVIOUS
  <2>2. WordAt(24, 14, 6)
    BY DEF WordAt
  <2>3. Summed(r, b, 24, 14, 10)
    BY <1>3, Zenon DEF Summed
  <2>4. 6 \in 1 .. 10
    OBVIOUS
  <2> QED
    BY <1>10, <2>1, <2>2, <2>3, <2>4, ChecksumWritten
<1> QED
  BY <1>1, <1>4, <1>6, <1>7, <1>8, <1>9, <1>11

-----------------------------------------------------------------------------
(* The machine that the handlers work on.                                  *)
Buffers  == {b \in Seq(Byte) : Len(b) = BufferSize}
Configs  == {c \in Seq(Byte) : Len(c) = ConfigLength}
ExtraSet == [flag : Extras, arg : Byte]
Machines == [buffer : Buffers, config : Configs, extra : ExtraSet, size : 0 .. BufferSize]

(* What the notice that is pending says stays true: another extra takes    *)
(* its place when an operation changes the server's MAC address.           *)
NoticeStays(m, r) ==
  r.extra.flag = "PACKET" => r.extra = m.extra /\ ServerMAC(r.config) = ServerMAC(m.config)

(* The sizes of the buffer.                                                *)
LEMMA Room == BufferSize \in Nat /\ BufferSize >= 92 /\ BufferSize <= WordMax
BY BufferAssumption, SMT DEF ETH, UDP, WordMax

LEMMA MachineParts ==
  ASSUME NEW m \in Machines
  PROVE  /\ Bytes(m.buffer, BufferSize) /\ m.config \in Configs /\ m.extra \in ExtraSet
         /\ m.size \in 0 .. BufferSize
BY DEF Machines, Buffers, Bytes

LEMMA BufferOf ==
  ASSUME NEW b, Bytes(b, BufferSize)
  PROVE  b \in Buffers
BY DEF Buffers, Bytes

(* Settings that are put into the configuration leave a configuration.     *)
LEMMA ConfigPut ==
  ASSUME NEW c \in Configs, NEW at \in Nat, NEW s \in Seq(Byte), at + Len(s) <= ConfigLength
  PROVE  /\ Put(c, at, s) \in Configs
         /\ at + Len(s) <= SMAC \/ at >= SMAC + 6 => ServerMAC(Put(c, at, s)) = ServerMAC(c)
<1>1. /\ Put(c, at, s) \in Seq(Byte) /\ Len(Put(c, at, s)) = Len(c)
      /\ \A i \in 1 .. Len(c) : i <= at \/ i > at + Len(s) => Put(c, at, s)[i] = c[i]
  <2>1. c \in Seq(Byte) /\ at + Len(s) <= Len(c)
    BY DEF Configs
  <2> QED
    BY <2>1, PutBytes, Zenon
<1>2. ASSUME at + Len(s) <= SMAC \/ at >= SMAC + 6
      PROVE  ServerMAC(Put(c, at, s)) = ServerMAC(c)
  <2>1. \A k \in 1 .. 6 : Put(c, at, s)[SMAC + k] = c[SMAC + k]
    <3> SUFFICES ASSUME NEW k \in 1 .. 6 PROVE Put(c, at, s)[SMAC + k] = c[SMAC + k]
      OBVIOUS
    <3>1. SMAC + k \in 1 .. Len(c) /\ (SMAC + k <= at \/ SMAC + k > at + Len(s))
      <4>1. Len(c) = 30 /\ Len(s) \in Nat
        BY LenProperties DEF Configs, ConfigLength
      <4> QED
        BY <1>2, <4>1 DEF SMAC
    <3> QED
      BY <1>1, <3>1
  <2>2. SMAC \in Nat /\ 6 \in Nat
    BY DEF SMAC
  <2> DEFINE p == Put(c, at, s)
  <2> HIDE DEF p
  <2>3. Field(p, SMAC, 6) = Field(c, SMAC, 6)
    <3>1. Agree(p, SMAC, c, SMAC, 6)
      BY <2>1 DEF p, Agree
    <3> QED
      BY <2>2, <3>1, SameField
  <2> QED
    BY <2>3 DEF p, ServerMAC
<1> QED
  BY <1>1, <1>2 DEF Configs

(* So do the factory settings.                                             *)
LEMMA FactoryResetTyped ==
  ASSUME NEW c \in Configs, NEW n \in 1 .. 2
  PROVE  FactoryReset(c, n) \in Configs
<1>1. /\ Defaults[n].fields \in Seq(Byte) /\ Len(Defaults[n].fields) = 24
      /\ Defaults[n].header \in Seq(Byte) /\ Len(Defaults[n].header) = 4
  BY DefaultsAssumption DEF AMAC, ConfigLength, REQBL
<1> DEFINE fields == Defaults[n].fields
           header == Defaults[n].header
<1> HIDE DEF fields, header
<1>2. Put(c, TIP, fields) \in Configs
  <2>1. TIP \in Nat /\ TIP + Len(fields) <= ConfigLength
    BY <1>1 DEF TIP, ConfigLength, fields
  <2> QED
    BY <1>1, <2>1, ConfigPut, Zenon DEF fields
<1>3. <<0>> \in Seq(Byte) /\ Len(<<0>>) = 1
  BY DEF Byte
<1> DEFINE zero == <<0>>
<1> HIDE DEF zero
<1>4. zero \o header \in Seq(Byte) /\ Len(zero \o header) = 5
  <2>1. zero \in Seq(Byte) /\ Len(zero) = 1 /\ header \in Seq(Byte) /\ Len(header) = 4
    BY <1>1, <1>3 DEF zero, header
  <2>2. zero \o header \in Seq(Byte) /\ Len(zero \o header) = Len(zero) + Len(header)
    BY <2>1, Cat, Zenon
  <2> QED
    BY <2>1, <2>2
<1>5. Put(Put(c, TIP, fields), REQBL, zero \o header) \in Configs
  <2>1. REQBL \in Nat /\ REQBL + Len(zero \o header) <= ConfigLength
    BY <1>4 DEF REQBL, ConfigLength
  <2> QED
    BY <1>2, <1>4, <2>1, ConfigPut, Zenon
<1> QED
  BY <1>5 DEF FactoryReset, fields, header, zero

(* The fields of a configuration.                                          *)
LEMMA ConfigFields ==
  ASSUME NEW c \in Configs
  PROVE  /\ ServerIP(c) \in Seq(Byte) /\ Len(ServerIP(c)) = 4
         /\ TargetIP(c) \in Seq(Byte) /\ Len(TargetIP(c)) = 4
         /\ ServerMAC(c) \in Seq(Byte) /\ Len(ServerMAC(c)) = 6
         /\ AdapterMAC(c) \in Seq(Byte) /\ Len(AdapterMAC(c)) = 6
         /\ \A i \in 1 .. ConfigLength : c[i] \in Byte
<1>1. c \in Seq(Byte) /\ Len(c) = 30
  BY DEF Configs, ConfigLength
<1>2. ASSUME NEW at \in Nat, NEW n \in Nat, at + n <= 30 PROVE Bytes(Field(c, at, n), n)
  <2>1. at + n <= Len(c)
    BY <1>1, <1>2
  <2> QED
    BY <1>1, <2>1, FieldBytes DEF Bytes
<1>3. Bytes(Field(c, 6, 4), 4) /\ Bytes(Field(c, 0, 4), 4)
  BY <1>2
<1>4. Bytes(Field(c, 12, 6), 6) /\ Bytes(Field(c, 18, 6), 6)
  BY <1>2
<1>5. Bytes(ServerIP(c), 4) /\ Bytes(TargetIP(c), 4) /\ Bytes(ServerMAC(c), 6) /\ Bytes(AdapterMAC(c), 6)
  BY <1>3, <1>4 DEF ServerIP, TargetIP, ServerMAC, AdapterMAC, SIP, TIP, SMAC, AMAC
<1>6. \A i \in 1 .. ConfigLength : c[i] \in Byte
  BY <1>1, ElementOfSeq DEF ConfigLength
<1> QED
  BY <1>5, <1>6 DEF Bytes

LEMMA WholeConfig ==
  ASSUME NEW c \in Configs
  PROVE  Field(c, 0, ConfigLength) \in Seq(Byte) /\ Len(Field(c, 0, ConfigLength)) <= 41
<1>1. c \in Seq(Byte) /\ 0 \in Nat /\ ConfigLength \in Nat /\ 0 + ConfigLength <= Len(c)
  <2>1. c \in Seq(Byte) /\ Len(c) = ConfigLength
    BY DEF Configs
  <2> QED
    BY <2>1 DEF ConfigLength
<1>2. Field(c, 0, ConfigLength) \in Seq(Byte) /\ Len(Field(c, 0, ConfigLength)) = ConfigLength
  BY <1>1, FieldBytes, Zenon
<1>3. ConfigLength <= 41
  BY DEF ConfigLength
<1> QED
  BY <1>2, <1>3

(* What an operation of the server returns.                                *)
Done(m, done) ==
  /\ done.machine \in Machines /\ done.machine.buffer = m.buffer /\ done.machine.size = m.size
  /\ done.result \in Seq(Byte) /\ Len(done.result) <= CC1100_CONFIG_SIZE_R
  /\ done.code \in Byte /\ NoticeStays(m, done.machine)

LEMMA OperateDone ==
  ASSUME NEW m \in Machines, NEW op,
         NEW operand \in Seq(Byte), Len(operand) = OperandLength(op), clock \in Nat
  PROVE  Done(m, Operate(m, op, operand))
<1> DEFINE c == m.config
           Answers(n, r) == [machine |-> n, result |-> r, code |-> ACK]
<1>1. c \in Configs /\ m.extra \in ExtraSet /\ m.buffer \in Buffers /\ m.size \in 0 .. BufferSize
  BY DEF Machines
<1>2. ASSUME NEW n, n = m \/ n.extra.flag # "PACKET",
             n \in Machines, n.buffer = m.buffer, n.size = m.size,
             NEW r, r \in Seq(Byte), Len(r) <= 41
      PROVE  Done(m, Answers(n, r))
  BY <1>2 DEF Done, NoticeStays, ACK, CC1100_CONFIG_SIZE_R, Byte
<1>3. Answers(m, <<>>) = [machine |-> m, result |-> <<>>, code |-> ACK]
  OBVIOUS
<1> DEFINE Set(k) == [m EXCEPT !.config = k]
<1>4. ASSUME NEW k, k \in Configs
      PROVE  /\ Set(k) \in Machines /\ Set(k).buffer = m.buffer /\ Set(k).size = m.size
             /\ Set(k).extra = m.extra /\ Set(k).config = k
             /\ Reboot(Set(k)) \in Machines /\ Reboot(Set(k)).extra.flag = "REBOOT"
             /\ Reboot(Set(k)).buffer = m.buffer /\ Reboot(Set(k)).size = m.size
  BY <1>4 DEF Machines, ExtraSet, Extras, Reboot
<1>5. /\ Reboot(m) \in Machines /\ Reboot(m).extra.flag = "REBOOT"
      /\ Reboot(m).buffer = m.buffer /\ Reboot(m).size = m.size
  BY DEF Machines, ExtraSet, Extras, Reboot
<1> DEFINE boot == [m EXCEPT !.extra.flag = "BOOTLOADER"]
           test == [m EXCEPT !.extra = [flag |-> "TEST", arg |-> 255]]
<1>6. boot \in Machines /\ boot.extra.flag # "PACKET" /\ boot.buffer = m.buffer /\ boot.size = m.size
  BY DEF Machines, ExtraSet, Extras
<1>7. test \in Machines /\ test.extra.flag # "PACKET" /\ test.buffer = m.buffer /\ test.size = m.size
  BY DEF Machines, ExtraSet, Extras, Byte
<1> HIDE DEF boot, test
<1>8. /\ <<>> \in Seq(Byte) /\ Len(<<>>) <= 41
      /\ \A x \in Byte : <<x>> \in Seq(Byte) /\ Len(<<x>>) <= 41
      /\ \A x, y \in Byte : <<x, y>> \in Seq(Byte) /\ Len(<<x, y>>) <= 41
  OBVIOUS
<1>9. <<0, 0, 0, 0>> \in Seq(Byte) /\ Len(<<0, 0, 0, 0>>) <= 41
  BY DEF Byte
<1>10. \A n \in 0 .. 41 : Registers(n) \in Seq(Byte) /\ Len(Registers(n)) <= 41
  BY DEF Registers, Byte
<1>11. Field(c, 0, ConfigLength) \in Seq(Byte) /\ Len(Field(c, 0, ConfigLength)) <= 41
  <2> HIDE DEF c
  <2> QED
    BY <1>1, WholeConfig, Zenon
<1>12. LE32(clock) \in Seq(Byte) /\ Len(LE32(clock)) <= 41
  <2>1. LE32(clock) \in Seq(Byte) /\ Len(LE32(clock)) = 4
    BY DoubleWord
  <2> QED
    BY <2>1
<1>13. FactoryReset(c, 1) \in Configs /\ FactoryReset(c, 2) \in Configs
  BY <1>1, FactoryResetTyped
<1>14. ASSUME op \in {Letter(k) : k \in {"T", "I", "M", "A"}}
       PROVE  /\ Len(operand) = 6
              /\ SubSeq(operand, 1, 4) \in Seq(Byte) /\ Len(SubSeq(operand, 1, 4)) <= 41
              /\ Put(c, TIP, operand) \in Configs /\ Put(c, SIP, operand) \in Configs
              /\ Put(c, SMAC, operand) \in Configs /\ Put(c, AMAC, operand) \in Configs
              /\ ServerMAC(Put(c, TIP, operand)) = ServerMAC(c)
              /\ ServerMAC(Put(c, SIP, operand)) = ServerMAC(c)
  <2>1. Len(operand) = 6
    BY <1>14 DEF OperandLength
  <2>2. Field(operand, 0, 4) \in Seq(Byte) /\ Len(Field(operand, 0, 4)) = 4
    <3>1. 0 \in Nat /\ 4 \in Nat /\ 0 + 4 <= Len(operand)
      BY <2>1
    <3> QED
      BY <3>1, FieldBytes, Zenon
  <2>3. Field(operand, 0, 4) = SubSeq(operand, 1, 4)
    BY DEF Field
  <2>4. ASSUME NEW at \in Nat, at + 6 <= ConfigLength
        PROVE  /\ Put(c, at, operand) \in Configs
               /\ at + 6 <= SMAC => ServerMAC(Put(c, at, operand)) = ServerMAC(c)
    <3>1. at + Len(operand) <= ConfigLength /\ (at + 6 <= SMAC => at + Len(operand) <= SMAC)
      BY <2>1, <2>4
    <3> HIDE DEF c
    <3> QED
      BY <1>1, <3>1, ConfigPut, Zenon
  <2>5. /\ TIP \in Nat /\ TIP + 6 <= ConfigLength /\ TIP + 6 <= SMAC
        /\ SIP \in Nat /\ SIP + 6 <= ConfigLength /\ SIP + 6 <= SMAC
        /\ SMAC \in Nat /\ SMAC + 6 <= ConfigLength /\ AMAC \in Nat /\ AMAC + 6 <= ConfigLength
    BY DEF TIP, SIP, SMAC, AMAC, ConfigLength
  <2>6. SubSeq(operand, 1, 4) \in Seq(Byte) /\ Len(SubSeq(operand, 1, 4)) <= 41
    BY <2>2, <2>3
  <2> HIDE DEF c
  <2> QED
    BY <2>1, <2>4, <2>5, <2>6
<1> DEFINE Goal(r) == Done(m, r)
<1>15. /\ Goal(Answers(m, GetVersion)) /\ Goal(Answers(m, LE32(clock)))
       /\ Goal(Answers(m, Field(c, 0, ConfigLength))) /\ Goal(Answers(m, <<0, 0, 0, 0>>))
       /\ Goal(Answers(m, Registers(CC1100_STATUS_SIZE_R)))
       /\ Goal(Answers(m, Registers(CC1100_CONFIG_SIZE_R))) /\ Goal(Answers(m, <<0>>))
  <2>1. 0 \in Byte /\ 1 \in Byte /\ GetVersion = <<1, 1>>
    BY DEF Byte, GetVersion
  <2>2. CC1100_STATUS_SIZE_R \in 0 .. 41 /\ CC1100_CONFIG_SIZE_R \in 0 .. 41
    BY DEF CC1100_STATUS_SIZE_R, CC1100_CONFIG_SIZE_R
  <2> HIDE DEF Answers, c
  <2> QED
    BY <1>2, <1>8, <1>9, <1>10, <1>11, <1>12, <2>1, <2>2
<1>16. Goal(Answers(test, <<>>)) /\ Goal(Answers(boot, <<176>>)) /\ Goal(Answers(Reboot(m), <<0>>))
  <2>1. 0 \in Byte /\ 176 \in Byte
    BY DEF Byte
  <2> HIDE DEF Answers
  <2> QED
    BY <1>2, <1>5, <1>6, <1>7, <1>8, <2>1
<1>17. /\ Goal(Answers(Reboot(Set(FactoryReset(c, 1))), <<>>))
       /\ Goal(Answers(Reboot(Set(FactoryReset(c, 2))), <<>>))
  <2> HIDE DEF Answers, Set, c
  <2> QED
    BY <1>2, <1>4, <1>8, <1>13
<1>18. ASSUME op \in {Letter(k) : k \in {"T", "I", "M", "A"}}
       PROVE  /\ Goal(Answers(Set(SetAddress(c, TIP, operand)), SubSeq(operand, 1, 4)))
              /\ Goal(Answers(Set(SetAddress(c, SIP, operand)), SubSeq(operand, 1, 4)))
              /\ Goal(Answers(Reboot(Set(Put(c, SMAC, operand))), operand))
              /\ Goal(Answers(Reboot(Set(Put(c, AMAC, operand))), operand))
  <2>1. ASSUME NEW k, k \in Configs, ServerMAC(k) = ServerMAC(c), NEW r, r \in Seq(Byte), Len(r) <= 41
        PROVE  Goal(Answers(Set(k), r))
    <3>1. /\ Set(k) \in Machines /\ Set(k).buffer = m.buffer /\ Set(k).size = m.size
          /\ Set(k).extra = m.extra /\ Set(k).config = k
      BY <1>4, <2>1
    <3> HIDE DEF Set
    <3> QED
      BY <2>1, <3>1 DEF Done, NoticeStays, ACK, CC1100_CONFIG_SIZE_R, Byte
  <2>2. Len(operand) <= 41
    BY <1>14, <1>18
  <2> HIDE DEF Answers, Set, c, Goal
  <2>3. /\ Goal(Answers(Set(Put(c, TIP, operand)), SubSeq(operand, 1, 4)))
        /\ Goal(Answers(Set(Put(c, SIP, operand)), SubSeq(operand, 1, 4)))
    BY <1>14, <1>18, <2>1
  <2>4. /\ Goal(Answers(Reboot(Set(Put(c, SMAC, operand))), operand))
        /\ Goal(Answers(Reboot(Set(Put(c, AMAC, operand))), operand))
    BY <1>2, <1>4, <1>14, <1>18, <2>2 DEF Goal
  <2> QED
    BY <2>3, <2>4 DEF SetAddress
<1>19. Goal([machine |-> m, result |-> <<>>, code |-> NAK])
  <2>1. <<>> \in Seq(Byte) /\ Len(<<>>) <= 41
    BY <1>8
  <2>2. 21 \in Byte
    BY DEF Byte
  <2> HIDE DEF Answers, Set, c
  <2> QED
    BY <2>1, <2>2 DEF Done, NoticeStays, NAK, CC1100_CONFIG_SIZE_R
<1>20. \A k \in {"T", "I", "M", "A"} : op = Letter(k) => op \in {Letter(l) : l \in {"T", "I", "M", "A"}}
  OBVIOUS
<1>21. Goal(Operate(m, op, operand))
  <2> HIDE DEF Goal
  <2> QED
    BY <1>15, <1>16, <1>17, <1>18, <1>19, <1>20 DEF Operate, boot, test
<1> QED
  BY <1>21

(* What it says of it: acknowledged or not, and an operand that was stored *)
(* comes back, the port of an address left out.                            *)
LEMMA Letters ==
  /\ Letter("v") = 118 /\ Letter("t") = 116 /\ Letter("p") = 112 /\ Letter("e") = 101
  /\ Letter("E") = 69 /\ Letter("F") = 70 /\ Letter("T") = 84 /\ Letter("I") = 73
  /\ Letter("M") = 77 /\ Letter("A") = 65 /\ Letter("0") = 48 /\ Letter(">") = 62
  /\ Letter("s") = 115 /\ Letter("a") = 97 /\ Letter("u") = 117 /\ Letter("c") = 99
  /\ Letter("b") = 98
BY DEF Letter

LEMMA OperandIs ==
  ASSUME NEW op
  PROVE  /\ OperandLength(op) \in {0, 6}
         /\ OperandLength(op) = 6 <=> op \in {84, 73, 77, 65}
BY Letters DEF OperandLength

LEMMA OperateTells ==
  ASSUME NEW m, NEW op, NEW operand, Bytes(operand, OperandLength(op)), NEW done, done = Operate(m, op, operand)
  PROVE  /\ done.code \in {ACK, NAK}
         /\ OperandLength(op) = 6 => /\ Len(done.result) \in {4, 6}
                                     /\ done.result = Field(operand, 0, Len(done.result))
         /\ op = 101 => done.result = Field(m.config, 0, ConfigLength)
         /\ op = 116 => done.result = LE32(clock)
<1>1. done.code \in {ACK, NAK}
  BY DEF Operate
<1>4. CASE op = 101
  BY <1>1, <1>4, Letters, OperandIs DEF Operate
<1>5. CASE op = 116
  BY <1>1, <1>5, Letters, OperandIs DEF Operate
<1>2. ASSUME OperandLength(op) = 6 PROVE done.result \in {SubSeq(operand, 1, 4), operand}
  <2>1. op \in {84, 73, 77, 65}
    BY <1>2, OperandIs
  <2>2. CASE op = 84
    BY <2>2, Letters DEF Operate
  <2>3. CASE op = 73
    BY <2>3, Letters DEF Operate
  <2>4. CASE op = 77
    BY <2>4, Letters DEF Operate
  <2>5. CASE op = 65
    BY <2>5, Letters DEF Operate
  <2> QED
    BY <2>1, <2>2, <2>3, <2>4, <2>5
<1>3. ASSUME OperandLength(op) = 6
      PROVE  /\ Len(SubSeq(operand, 1, 4)) = 4 /\ SubSeq(operand, 1, 4) = Field(operand, 0, 4)
             /\ Len(operand) = 6 /\ operand = Field(operand, 0, 6)
  <2>1. Bytes(operand, 6) /\ 0 + 4 <= 6
    BY <1>3
  <2>2. Field(operand, 0, 4) = SubSeq(operand, 1, 4)
    BY DEF Field
  <2>3. Bytes(Field(operand, 0, 4), 4)
    BY <2>1, BytesField
  <2>4. operand = Field(operand, 0, 6)
    BY <2>1, WholeField
  <2> QED
    BY <2>1, <2>2, <2>3, <2>4 DEF Bytes
<1> QED
  BY <1>1, <1>2, <1>3, <1>4, <1>5

(* What it leaves: an address is where it was set, the other operations    *)
(* but a factory reset leave the configuration alone, and only some of     *)
(* them restart the hub.                                                   *)
Sets(op, operand, k) ==
  /\ op = 84 => Field(k, TIP, 6) = operand
  /\ op = 73 => Field(k, SIP, 6) = operand
  /\ op = 77 => Field(k, SMAC, 6) = operand
  /\ op = 65 => Field(k, AMAC, 6) = operand
  /\ op \notin {84, 73, 77, 65, 69, 70} => k = config

Restarts(op, flag) ==
  /\ flag = "REBOOT" => op \in {48, 69, 70, 77, 65}
  /\ flag = "BOOTLOADER" => op = 62

LEMMA SettingMade ==
  ASSUME NEW c \in Configs, NEW operand, Bytes(operand, 6), NEW at \in {TIP, SIP, SMAC, AMAC}
  PROVE  Field(Put(c, at, operand), at, 6) = operand
<1>1. Bytes(c, 30) /\ at \in Nat /\ at + 6 <= 30 /\ 0 + 6 <= 6 /\ at = at + 0
  BY DEF Configs, ConfigLength, Bytes, TIP, SIP, SMAC, AMAC
<1>2. Field(Put(c, at, operand), at, 6) = Field(operand, 0, 6)
  BY <1>1, PutInside
<1> QED
  BY <1>2, WholeField

LEMMA OperateSets ==
  ASSUME NEW m \in Machines, m.config = config, m.extra.flag = "PACKET",
         NEW op, NEW operand, Bytes(operand, OperandLength(op)), NEW d, d = Operate(m, op, operand).machine
  PROVE  Sets(op, operand, d.config) /\ Restarts(op, d.extra.flag)
<1> DEFINE test == [m EXCEPT !.extra = [flag |-> "TEST", arg |-> 255]]
           boot == [m EXCEPT !.extra.flag = "BOOTLOADER"]
           Set(k) == [m EXCEPT !.config = k]
<1>1. m.config \in Configs /\ m.extra \in ExtraSet
  BY MachineParts
<1>2. CASE op \notin {84, 73, 77, 65, 69, 70, 48, 62}
  <2>1. d \in {m, test}
    BY <1>2, Letters DEF Operate
  <2>2. d.config = config /\ d.extra.flag \in {"PACKET", "TEST"}
    BY <2>1 DEF Machines
  <2> QED
    BY <1>2, <2>2 DEF Sets, Restarts
<1>3. CASE op = 48
  <2>1. d = Reboot(m)
    BY <1>3, Letters DEF Operate
  <2>2. d.config = config /\ d.extra.flag = "REBOOT"
    BY <2>1 DEF Machines, ExtraSet, Reboot
  <2> QED
    BY <1>3, <2>2 DEF Sets, Restarts
<1>4. CASE op = 62
  <2>1. d = boot
    BY <1>4, Letters DEF Operate
  <2>2. d.config = config /\ d.extra.flag = "BOOTLOADER"
    BY <2>1 DEF Machines, ExtraSet
  <2> QED
    BY <1>4, <2>2 DEF Sets, Restarts
<1>5. CASE op \in {69, 70}
  <2>1. \E k : d = Reboot(Set(k))
    <3>1. CASE op = 69
      <4>1. d = Reboot(Set(FactoryReset(m.config, 1)))
        BY <3>1, Letters DEF Operate
      <4> QED
        BY <4>1
    <3>2. CASE op = 70
      <4>1. d = Reboot(Set(FactoryReset(m.config, 2)))
        BY <3>2, Letters DEF Operate
      <4> QED
        BY <4>1
    <3> QED
      BY <1>5, <3>1, <3>2
  <2>2. d.extra.flag = "REBOOT"
    BY <2>1 DEF Machines, ExtraSet, Reboot
  <2> QED
    BY <1>5, <2>2 DEF Sets, Restarts
<1>6. CASE op \in {84, 73, 77, 65}
  <2> DEFINE c == config
  <2>1. Bytes(operand, 6) /\ c \in Configs
    BY <1>1, <1>6, OperandIs
  <2>2. /\ op = 84 => d = Set(Put(c, TIP, operand))
        /\ op = 73 => d = Set(Put(c, SIP, operand))
        /\ op = 77 => d = Reboot(Set(Put(c, SMAC, operand)))
        /\ op = 65 => d = Reboot(Set(Put(c, AMAC, operand)))
    <3>1. CASE op = 84
      BY <3>1, Letters DEF Operate, SetAddress
    <3>2. CASE op = 73
      BY <3>2, Letters DEF Operate, SetAddress
    <3>3. CASE op = 77
      BY <3>3, Letters DEF Operate
    <3>4. CASE op = 65
      BY <3>4, Letters DEF Operate
    <3> QED
      BY <1>6, <3>1, <3>2, <3>3, <3>4
  <2>3. ASSUME NEW k PROVE /\ Set(k).config = k /\ Set(k).extra.flag = "PACKET"
                           /\ Reboot(Set(k)).config = k /\ Reboot(Set(k)).extra.flag = "REBOOT"
    BY DEF Machines, ExtraSet, Reboot
  <2> HIDE DEF Set, c
  <2>4. /\ Field(Put(c, TIP, operand), TIP, 6) = operand /\ Field(Put(c, SIP, operand), SIP, 6) = operand
        /\ Field(Put(c, SMAC, operand), SMAC, 6) = operand /\ Field(Put(c, AMAC, operand), AMAC, 6) = operand
    BY <2>1, SettingMade
  <2> QED
    BY <1>6, <2>2, <2>3, <2>4 DEF Sets, Restarts
<1> QED
  BY <1>2, <1>3, <1>4, <1>5, <1>6

(* The operation at at of b took effect, or nothing did.                   *)
Effect(b, at, r) ==
  /\ Sets(At(b, at), Field(b, at + 4, OperandLength(At(b, at))), r.config)
  /\ Restarts(At(b, at), r.extra.flag)

Acted(served, b, at, r) ==
  IF served THEN Effect(b, at, r) ELSE r.config = config /\ r.extra.flag = "PACKET"

-----------------------------------------------------------------------------
(* The handlers, one after another: where their answer is in the buffer,   *)
(* and what is left of the frame that is answered.                         *)

(* ARP: the addresses of the server, then those of the sender.             *)
LEMMA ARPMade ==
  ASSUME NEW m \in Machines, m.size = 0, NEW r, r = ARPReply(m), NEW b, b = m.buffer
  PROVE  /\ r \in Machines /\ r.config = m.config /\ r.extra = m.extra /\ r.size \in {0, 28}
         /\ r.size # 0 => /\ Field(r.buffer, 0, 14) = Field(b, 0, 14)
                          /\ Field(r.buffer, 22, 10) = ServerMAC(m.config) \o ServerIP(m.config)
                          /\ Field(r.buffer, 32, 10) = Field(b, 22, 10)
<1> DEFINE mac == ServerMAC(m.config)
           ip == ServerIP(m.config)
           own == mac \o ip
           his == Field(b, 22, 10)
           op == BE16(2)
           s == op \o mac \o ip \o his
           t == op \o own
           a == Put(b, 20, s)
           n == [m EXCEPT !.buffer = a, !.size = 28]
<1>1. Bytes(b, BufferSize) /\ m.config \in Configs /\ m.extra \in ExtraSet
  BY MachineParts
<1>2. Bytes(mac, 6) /\ Bytes(ip, 4)
  BY <1>1, ConfigFields DEF Bytes
<1>3. Bytes(his, 10)
  BY <1>1, Room, BytesField
<1>4. Bytes(op, 2)
  BY BytesBE16
<1> HIDE DEF mac, ip, his, op
<1>5. Bytes(own, 10)
  BY <1>2, BytesCat
<1>6. (op \o mac) \o ip = t
  BY <1>2, <1>4, ConcatAssociative DEF Bytes
<1>7. s = t \o his
  BY <1>6
<1> HIDE DEF own, s
<1>8. Bytes(t, 12)
  BY <1>4, <1>5, BytesCat
<1>9. Field(t, 2, 10) = own
  <2>1. Field(t, 2, 10) = Field(own, 0, 10)
    BY <1>4, <1>5, CatRight
  <2> QED
    BY <1>5, <2>1, WholeField
<1> HIDE DEF t
<1>10. Bytes(s, 22)
  BY <1>3, <1>7, <1>8, BytesCat
<1>11. Field(s, 2, 10) = own
  <2>1. Field(s, 2, 10) = Field(t, 2, 10)
    BY <1>3, <1>7, <1>8, CatLeft
  <2> QED
    BY <1>9, <2>1
<1>12. Field(s, 12, 10) = his
  <2>1. Field(s, 12, 10) = Field(his, 0, 10)
    BY <1>3, <1>7, <1>8, CatRight
  <2> QED
    BY <1>3, <2>1, WholeField
<1>13. 20 + 22 <= BufferSize /\ BufferSize \in Nat
  BY Room
<1>14. Bytes(a, BufferSize)
  BY <1>1, <1>10, <1>13, BytesPut
<1>15. Field(a, 22, 10) = own /\ Field(a, 32, 10) = his
  <2>1. Field(a, 22, 10) = Field(s, 2, 10) /\ Field(a, 32, 10) = Field(s, 12, 10)
    BY <1>1, <1>10, <1>13, PutInside
  <2> QED
    BY <1>11, <1>12, <2>1
<1>16. Field(a, 0, 14) = Field(b, 0, 14)
  BY <1>1, <1>10, <1>13, PutOutside
<1> HIDE DEF a
<1>17. r = m \/ r = n
  <2>1. ETH + 6 = 20 /\ ETH + 8 = 22 /\ ARP = 28
    BY DEF ETH, ARP
  <2> QED
    BY <2>1 DEF ARPReply, Wrote, a, s, op, mac, ip, his
<1>18. n \in Machines /\ n.buffer = a /\ n.config = m.config /\ n.extra = m.extra /\ n.size = 28
  <2>1. a \in Buffers /\ 28 \in 0 .. BufferSize
    BY <1>13, <1>14, BufferOf
  <2> QED
    BY <2>1 DEF Machines
<1> HIDE DEF n
<1> QED
  BY <1>15, <1>16, <1>17, <1>18 DEF own, mac, ip, his

(* ICMP: the echo of the data, under a checksum of its own.                *)
Echoed(a, b, in, size) ==
  /\ At(a, 34) = EchoReply /\ Field(a, 38, size - 4) = Field(b, in + 4, size - 4)
  /\ SumIsRight(a, 34, size \div 2)

LEMMA ICMPMade ==
  ASSUME NEW m \in Machines, m.size = 0, NEW in \in Nat, 34 <= in, NEW size \in Nat,
         8 <= size, FrameLength = in + size, FrameLength <= BufferSize,
         NEW r, r = ICMPReply(m, in, 34), NEW b, b = m.buffer
  PROVE  /\ r \in Machines /\ r.config = m.config /\ r.extra = m.extra /\ r.size \in {0, size}
         /\ r.size # 0 => Field(r.buffer, 0, 34) = Field(b, 0, 34) /\ Echoed(r.buffer, b, in, size)
<1> DEFINE data == Field(b, in + 4, size - 4)
           zeros == <<EchoReply, 0, 0, 0>>
           s == zeros \o data
           u == Put(b, 34, s)
           k == size \div 2
           c == WordMax - Carry(Carry(Words(u, 34, k)))
           sum == BE16(c)
           a == Put(u, 36, sum)
           n == [m EXCEPT !.buffer = a, !.size = size]
<1>1. Bytes(b, BufferSize) /\ m.config \in Configs /\ m.extra \in ExtraSet
  BY MachineParts
<1>2. /\ BufferSize \in Nat /\ BufferSize <= WordMax
      /\ in + 4 \in Nat /\ size - 4 \in Nat /\ in + 4 + (size - 4) <= BufferSize
      /\ 4 + (size - 4) = size /\ 34 + size <= BufferSize
  BY Room
<1>3. Bytes(data, size - 4)
  BY <1>1, <1>2, BytesField
<1>4. Bytes(zeros, 4) /\ At(zeros, 0) = EchoReply /\ U16(zeros, 2) = 0
  BY DEF Bytes, At, U16, EchoReply, Byte
<1> HIDE DEF data, zeros
<1>5. Bytes(s, size)
  BY <1>2, <1>3, <1>4, BytesCat
<1>6. Field(s, 0, 1) = Field(zeros, 0, 1) /\ Field(s, 2, 2) = Field(zeros, 2, 2)
  BY <1>2, <1>3, <1>4, CatLeft
<1>7. Field(s, 4, size - 4) = data
  <2>1. Field(s, 4, size - 4) = Field(data, 0, size - 4)
    BY <1>2, <1>3, <1>4, CatRight
  <2> QED
    BY <1>2, <1>3, <2>1, WholeField
<1> HIDE DEF s
<1>8. Bytes(u, BufferSize)
  BY <1>1, <1>2, <1>5, BytesPut
<1>9. /\ Field(u, 34, 1) = Field(s, 0, 1) /\ Field(u, 36, 2) = Field(s, 2, 2)
      /\ Field(u, 38, size - 4) = Field(s, 4, size - 4)
  BY <1>1, <1>2, <1>5, PutInside
<1>10. Field(u, 0, 34) = Field(b, 0, 34)
  BY <1>1, <1>2, <1>5, PutOutside
<1> HIDE DEF u
<1>11. U16(u, 36) = 0 /\ At(u, 34) = EchoReply
  <2>1. 36 + 2 <= BufferSize /\ 34 + 1 <= BufferSize
    BY <1>2
  <2>2. U16(u, 36) = U16(zeros, 2)
    BY <1>2, <1>4, <1>6, <1>8, <1>9, <2>1, SameWord
  <2>3. At(u, 34) = At(zeros, 0)
    BY <1>2, <1>4, <1>6, <1>8, <1>9, <2>1, SameByte
  <2> QED
    BY <1>4, <2>2, <2>3
<1>12. k \in Nat /\ 2 * k <= size /\ 2 \in 1 .. k
  OBVIOUS
<1> HIDE DEF k
<1>13. c \in Int
  <2> DEFINE x == Words(u, 34, k)
  <2>1. 34 + 2 * k <= BufferSize
    BY <1>2, <1>12
  <2>2. x \in 0 .. WordMax * k
    BY <1>2, <1>8, <1>12, <2>1, WordsTyped
  <2>3. WordMax \in Nat
    BY SMT DEF WordMax
  <2>4. x \in Nat
    BY <2>2
  <2> HIDE DEF x
  <2>5. Carry(x) \in Nat
    BY <2>4, CarryIs
  <2>6. Carry(Carry(x)) \in Nat
    BY <2>5, CarryIs
  <2> QED
    BY <2>3, <2>6 DEF x
<1>14. Bytes(sum, 2)
  BY <1>13, BytesBE16
<1>15. SumIsRight(a, 34, k)
  <2>1. 34 + 2 * k <= BufferSize /\ BufferSize \in Nat /\ BufferSize <= WordMax
    BY <1>2, <1>12
  <2>2. WordAt(36, 34, 2)
    BY DEF WordAt
  <2>3. Summed(a, u, 36, 34, k)
    BY Zenon DEF Summed
  <2> HIDE DEF a, sum, c
  <2>4. U16(u, 36) = 0
    BY <1>11
  <2> QED
    BY ONLY <1>8, <1>12, <2>1, <2>2, <2>3, <2>4, ChecksumWritten
<1> HIDE DEF sum
<1>16. 36 + 2 <= BufferSize
  BY <1>2
<1>17. Bytes(a, BufferSize)
  BY <1>2, <1>8, <1>14, <1>16, BytesPut
<1>18. /\ Field(a, 34, 1) = Field(u, 34, 1) /\ Field(a, 0, 34) = Field(u, 0, 34)
       /\ Field(a, 38, size - 4) = Field(u, 38, size - 4)
  <2> DEFINE Same(i, l) == Field(a, i, l) = Field(u, i, l)
  <2>1. ASSUME NEW i \in Nat, NEW l \in Nat, i + l <= BufferSize, i + l <= 36 \/ 36 + 2 <= i PROVE Same(i, l)
    BY <1>2, <1>8, <1>14, <1>16, <2>1, PutOutside
  <2> HIDE DEF Same
  <2>2. Same(34, 1) /\ Same(0, 34)
    BY <1>2, <2>1
  <2>3. Same(38, size - 4)
    <3>1. 38 + (size - 4) <= BufferSize
      BY <1>2
    <3> QED
      BY <1>2, <2>1, <3>1
  <2> QED
    BY <2>2, <2>3 DEF Same
<1>19. At(a, 34) = EchoReply
  <2>1. 34 + 1 <= BufferSize
    BY <1>2
  <2>2. At(a, 34) = At(u, 34)
    BY <1>2, <1>8, <1>17, <1>18, <2>1, SameByte
  <2> QED
    BY <1>11, <2>2
<1>20. r = m \/ r = n
  <2>1. /\ FrameLength - (in + ICMP) = size - 8 /\ 4 + (size - 8) = size - 4 /\ ICMP + (size - 8) = size
        /\ 34 + 2 = 36
    BY DEF ICMP
  <2> HIDE DEF a
  <2>2. m.buffer = b
    OBVIOUS
  <2>3. Checksum16(u, 34, size) = c
    BY SMT DEF Checksum16, c, k, WordMax
  <2> HIDE DEF c, k
  <2> DEFINE asked == At(b, in) = EchoRequest
  <2>4. CASE asked
    <3> DEFINE d == FrameLength - (in + ICMP)
               v == Put(b, 34, <<EchoReply, 0, 0, 0>> \o Field(b, in + 4, 4 + d))
    <3>1. v = u /\ ICMP + d = size
      BY <2>1 DEF u, s, data, zeros
    <3>2. [m EXCEPT !.buffer = Put(v, 36, BE16(Checksum16(v, 34, ICMP + d))), !.size = ICMP + d] = n
      BY <2>3, <3>1 DEF a, sum
    <3> HIDE DEF d, n
    <3>3. r = n
      BY <2>1, <2>2, <2>4, <3>2 DEF ICMPReply, d
    <3> QED
      BY <3>3
  <2>5. CASE ~asked
    <3>1. r = m
      BY <2>2, <2>5, Zenon DEF ICMPReply
    <3> QED
      BY <3>1
  <2> QED
    BY <2>4, <2>5
<1> HIDE DEF a
<1>21. n \in Machines /\ n.buffer = a /\ n.config = m.config /\ n.extra = m.extra /\ n.size = size
  <2>1. a \in Buffers /\ size \in 0 .. BufferSize
    BY <1>2, <1>17, BufferOf
  <2> QED
    BY <2>1 DEF Machines
<1> HIDE DEF n
<1>22. Echoed(a, b, in, size)
  BY <1>7, <1>9, <1>15, <1>18, <1>19 DEF Echoed, data, k
<1> QED
  BY <1>10, <1>18, <1>20, <1>21, <1>22

(* The server: its reply behind the two bytes of the request that stay,    *)
(* its address where the answer comes from.  The reply in a of a request   *)
(* at in of b tells what became of it, and how many bytes that is: an      *)
(* operand of 6 bytes comes back, or its first 4.                          *)
Told(a, b, in) ==
  /\ At(a, 44) \in {ACK, NAK}
  /\ OperandLength(At(b, in)) = 6 => /\ At(a, 45) \in {4, 6}
                                     /\ Field(a, 46, At(a, 45)) = Field(b, in + 4, At(a, 45))
  /\ At(b, in) = 101 => Field(a, 46, At(a, 45)) = Field(config, 0, ConfigLength)
  /\ At(b, in) = 116 => Field(a, 46, At(a, 45)) = LE32(clock)

LEMMA CULServerMade ==
  ASSUME NEW m \in Machines, m.config = config, m.extra.flag = "PACKET", clock \in Nat, NEW in \in Nat, in <= 82,
         NEW r, r = CULServerReply(m, in, 42), NEW b, b = m.buffer
  PROVE  /\ r \in Machines /\ NoticeStays(m, r) /\ r.size \in 4 .. 45
         /\ Field(r.buffer, 0, 30) = Field(b, 0, 30) /\ Field(r.buffer, 34, 10) = Field(b, 34, 10)
         /\ Field(r.buffer, 30, 4) = ServerIP(r.config)
         /\ r.size = 4 + At(r.buffer, 45) /\ Told(r.buffer, b, in) /\ Effect(b, in, r)
<1> DEFINE op == At(b, in)
           operand == Field(b, in + 4, OperandLength(op))
           done == Operate(m, op, operand)
           d == done.machine
           x == Len(done.result)
           head == <<done.code, x>>
           s == head \o done.result
           k == 2 + x
           ip == ServerIP(d.config)
           u == Put(b, 44, s)
           a == Put(u, 30, ip)
           n == [d EXCEPT !.buffer = a, !.size = 2 + k]
<1>1. Bytes(b, BufferSize) /\ m.config \in Configs /\ m.extra \in ExtraSet
  BY MachineParts
<1>2. BufferSize \in Nat /\ BufferSize >= 92
  BY Room
<1>3. OperandLength(op) \in {0, 6}
  BY DEF OperandLength
<1>4. operand \in Seq(Byte) /\ Len(operand) = OperandLength(op)
  <2>1. OperandLength(op) \in Nat /\ in + 4 \in Nat /\ in + 4 + OperandLength(op) <= BufferSize
    BY <1>2, <1>3
  <2>2. Bytes(operand, OperandLength(op))
    BY <1>1, <1>2, <2>1, BytesField
  <2> QED
    BY <2>2 DEF Bytes
<1>a. OperandLength(op) = 6 =>
        \A i \in {4, 6} : Field(operand, 0, i) = Field(b, in + 4, i)
  <2> SUFFICES ASSUME OperandLength(op) = 6, NEW i \in {4, 6}
               PROVE  Field(operand, 0, i) = Field(b, in + 4, i)
    OBVIOUS
  <2>1. operand = Field(b, in + 4, 6)
    OBVIOUS
  <2>2. in + 4 \in Nat /\ in + 4 + 6 <= BufferSize /\ 0 + i <= 6 /\ in + 4 = in + 4 + 0
    BY <1>2
  <2> HIDE DEF operand
  <2> QED
    BY <1>1, <1>2, <2>1, <2>2, FieldOfField
<1> HIDE DEF operand, op
<1>5. Done(m, done)
  BY <1>4, OperateDone
<1>b. /\ done.code \in {ACK, NAK}
      /\ OperandLength(op) = 6 => x \in {4, 6} /\ done.result = Field(operand, 0, x)
      /\ op = 101 => done.result = Field(config, 0, ConfigLength)
      /\ op = 116 => done.result = LE32(clock)
  <2>1. Bytes(operand, OperandLength(op))
    BY <1>4 DEF Bytes
  <2> QED
    BY <2>1, OperateTells
<1>i. Sets(op, operand, d.config) /\ Restarts(op, d.extra.flag)
  <2>1. Bytes(operand, OperandLength(op))
    BY <1>4 DEF Bytes
  <2> QED
    BY <2>1, OperateSets
<1> HIDE DEF done
<1>6. /\ d \in Machines /\ d.buffer = b /\ done.result \in Seq(Byte) /\ Len(done.result) <= 41
      /\ done.code \in Byte /\ NoticeStays(m, d)
  BY <1>5 DEF Done, CC1100_CONFIG_SIZE_R
<1>7. x \in 0 .. 41 /\ Bytes(done.result, x)
  <2>1. x \in Nat /\ x <= 41
    BY <1>6, LenProperties
  <2>2. Bytes(done.result, x)
    BY <1>6, Zenon DEF Bytes
  <2> HIDE DEF x
  <2> QED
    BY <2>1, <2>2
<1> HIDE DEF x
<1>8. Bytes(head, 2)
  <2>1. x \in Byte
    BY <1>7 DEF Byte
  <2>2. done.code \in Byte
    BY <1>6
  <2> QED
    BY <2>1, <2>2, ShortBytes
<1>c. head[1] = done.code /\ head[2] = x
  OBVIOUS
<1> HIDE DEF head, d
<1>d. Field(s, 0, 2) = head /\ Field(s, 2, x) = done.result
  <2>1. x \in Nat /\ 0 + 2 <= 2
    BY <1>7
  <2>2. Field(s, 2, x) = done.result
    BY <1>7, <1>8, <2>1, CatLast
  <2>3. Field(s, 0, 2) = Field(head, 0, 2)
    BY <1>7, <1>8, <2>1, CatLeft
  <2> QED
    BY <1>8, <2>2, <2>3, WholeField
<1>9. Bytes(s, k) /\ k \in 2 .. 43
  <2>1. x \in Nat /\ k \in 2 .. 43
    BY <1>7
  <2> QED
    BY <1>7, <1>8, <2>1, BytesCat
<1> HIDE DEF s, k
<1>10. 44 + k <= BufferSize /\ k \in Nat
  BY <1>2, <1>9
<1>11. Bytes(u, BufferSize)
  BY <1>1, <1>2, <1>9, <1>10, BytesPut
<1>12. Field(u, 0, 30) = Field(b, 0, 30) /\ Field(u, 34, 10) = Field(b, 34, 10)
  <2>1. 0 + 30 <= BufferSize /\ 34 + 10 <= BufferSize
    BY <1>2
  <2> QED
    BY <1>1, <1>2, <1>9, <1>10, <2>1, PutOutside
<1>e. Field(u, 44, 2) = head /\ Field(u, 46, x) = done.result
  <2>1. x \in Nat /\ 2 + x <= k /\ 0 + 2 <= k
    BY <1>7, <1>9 DEF k
  <2>2. Field(u, 44, 2) = Field(s, 0, 2)
    BY <1>1, <1>2, <1>9, <1>10, <2>1, PutInside
  <2>3. Field(u, 46, x) = Field(s, 2, x)
    BY <1>1, <1>2, <1>9, <1>10, <2>1, PutInside
  <2> QED
    BY <1>d, <2>2, <2>3
<1> HIDE DEF u
<1>13. Bytes(ip, 4)
  <2>1. d.config \in Configs
    BY <1>6, MachineParts
  <2> QED
    BY <2>1, ConfigFields DEF Bytes
<1> HIDE DEF ip
<1>14. Bytes(a, BufferSize)
  <2>1. 30 + 4 <= BufferSize
    BY <1>2
  <2> QED
    BY <1>2, <1>11, <1>13, <2>1, BytesPut
<1>15. Field(a, 0, 30) = Field(u, 0, 30) /\ Field(a, 34, 10) = Field(u, 34, 10)
  <2>1. 0 + 30 <= BufferSize /\ 34 + 10 <= BufferSize /\ 30 + 4 <= BufferSize
    BY <1>2
  <2> QED
    BY <1>2, <1>11, <1>13, <2>1, PutOutside
<1>16. Field(a, 30, 4) = ip
  <2>1. 30 + 4 <= BufferSize
    BY <1>2
  <2>2. Field(a, 30, 4) = Field(ip, 0, 4)
    BY <1>2, <1>11, <1>13, <2>1, PutInside
  <2> QED
    BY <1>13, <2>2, WholeField
<1>f. Field(a, 44, 2) = head /\ Field(a, 46, x) = done.result
  <2>1. 30 + 4 <= BufferSize /\ 44 + 2 <= BufferSize /\ 46 + x <= BufferSize /\ x \in Nat
    BY <1>2, <1>7
  <2>2. Field(a, 44, 2) = Field(u, 44, 2)
    BY <1>2, <1>11, <1>13, <2>1, PutOutside
  <2>3. Field(a, 46, x) = Field(u, 46, x)
    BY <1>2, <1>11, <1>13, <2>1, PutOutside
  <2> QED
    BY <1>e, <2>2, <2>3
<1>g. At(a, 44) = done.code /\ At(a, 45) = x
  <2> HIDE DEF a
  <2>1. 44 + 2 <= BufferSize
    BY <1>2
  <2>2. \A i \in 1 .. 2 : Field(a, 44, 2)[i] = a[44 + i]
    BY <1>2, <1>14, <2>1, FieldAt DEF FromField
  <2>3. a[44 + 1] = done.code /\ a[45 + 1] = x
    BY <1>c, <1>f, <2>2
  <2> QED
    BY <2>3 DEF At
<1>h. Told(a, b, in)
  <2> HIDE DEF a
  <2>1. ASSUME OperandLength(op) = 6 PROVE x \in {4, 6} /\ Field(a, 46, x) = Field(b, in + 4, x)
    BY <1>a, <1>b, <1>f, <2>1
  <2> QED
    BY <1>b, <1>f, <1>g, <2>1 DEF Told, op
<1>17. r = n
  <2>1. r = ReplyOf(done, 42)
    BY DEF CULServerReply, op, operand, done
  <2>2. ETH + 16 = 30 /\ 42 + 2 = 44 /\ Len(s) = k
    BY <1>9 DEF ETH, Bytes
  <2>3. d.buffer = b
    BY <1>6
  <2>4. r = [Wrote(Wrote(d, 44, s), 30, ip) EXCEPT !.size = 2 + k]
    BY <2>1, <2>2 DEF ReplyOf, s, head, x, ip, d
  <2>5. d = [buffer |-> d.buffer, config |-> d.config, extra |-> d.extra, size |-> d.size]
    <3>1. d \in Machines
      BY <1>6
    <3> QED
      BY <3>1 DEF Machines
  <2> QED
    BY <2>3, <2>4, <2>5 DEF Wrote, a, u
<1> HIDE DEF a
<1>18. n \in Machines /\ n.buffer = a /\ n.config = d.config /\ n.extra = d.extra /\ n.size = 2 + k
  <2>1. a \in Buffers /\ 2 + k \in 0 .. BufferSize
    BY <1>2, <1>9, <1>14, BufferOf
  <2>2. d \in Machines
    BY <1>6
  <2> QED
    BY <2>1, <2>2 DEF Machines
<1> HIDE DEF n
<1>19. NoticeStays(m, n)
  BY <1>6, <1>18 DEF NoticeStays
<1>20. 2 + k = 4 + At(a, 45) /\ 2 + k \in 4 .. 45
  <2>1. k = 2 + At(a, 45) /\ k \in 2 .. 43
    BY <1>9, <1>g DEF k
  <2>2. At(a, 45) \in Nat
    BY <1>7, <1>g
  <2> HIDE DEF k
  <2> QED
    BY <2>1, <2>2
<1>21. r.size = 2 + k /\ r.buffer = a /\ r.config = d.config
  BY <1>17, <1>18
<1> HIDE DEF k, ip
<1>22. r \in Machines /\ NoticeStays(m, r)
  BY <1>17, <1>18, <1>19
<1>23. Field(r.buffer, 30, 4) = ServerIP(r.config)
  BY <1>16, <1>21 DEF ip
<1>24. Effect(b, in, r)
  BY <1>17, <1>18, <1>i DEF Effect, op, operand
<1> QED
  BY ONLY <1>15, <1>12, <1>20, <1>21, <1>22, <1>23, <1>24, <1>h

(* UDP: the header in front of it, the ports exchanged if the header of    *)
(* the request has the same place.                                         *)
Served(a, b, in, size) ==
  /\ Field(a, 38, 2) = BE16(size) /\ size = 12 + At(a, 45)
  /\ Field(a, 36, 2) = Field(b, 34, 2) /\ Field(a, 42, 2) = Field(b, 42, 2)
  /\ in = 34 => Field(a, 34, 2) = Field(b, 36, 2)
  /\ Told(a, b, in + 8)

LEMMA UDPMade ==
  ASSUME NEW m \in Machines, m.size = 0, m.config = config, m.extra.flag = "PACKET", clock \in Nat,
         NEW in \in Nat, in <= 74,
         NEW r, r = UDPReply(m, in, 34), NEW b, b = m.buffer
  PROVE  /\ r \in Machines /\ NoticeStays(m, r) /\ r.size \in 0 .. 53
         /\ r.size # 0 => /\ r.size >= 12 /\ Field(r.buffer, 0, 30) = Field(b, 0, 30)
                          /\ Field(r.buffer, 30, 4) = ServerIP(r.config)
                          /\ Served(r.buffer, b, in, r.size)
         /\ Acted(r.size # 0, b, in + 8, r)
<1> DEFINE d == CULServerReply(m, in + 8, 42)
           e == d.buffer
           size == 8 + d.size
           p1 == Field(e, in + 2, 2)
           p2 == Field(e, 34, 2)
           p3 == BE16(size)
           p4 == <<0, 0>>
           t2 == p1 \o p2
           t3 == t2 \o p3
           s == t3 \o p4
           a == Put(e, 34, s)
           n == [d EXCEPT !.buffer = a, !.size = size]
<1>1. Bytes(b, BufferSize) /\ m.config \in Configs /\ m.extra \in ExtraSet
  BY MachineParts
<1>2. BufferSize \in Nat /\ BufferSize >= 92
  BY Room
<1>3. /\ d \in Machines /\ NoticeStays(m, d) /\ d.size \in 4 .. 45
      /\ Field(e, 0, 30) = Field(b, 0, 30) /\ Field(e, 34, 10) = Field(b, 34, 10)
      /\ Field(e, 30, 4) = ServerIP(d.config) /\ d.size = 4 + At(e, 45) /\ Told(e, b, in + 8)
      /\ Effect(b, in + 8, d)
  <2> DEFINE j == in + 8
  <2>1. j \in Nat /\ j <= 82
    OBVIOUS
  <2>2. d = CULServerReply(m, j, 42)
    OBVIOUS
  <2> HIDE DEF d, j
  <2>3. /\ d \in Machines /\ NoticeStays(m, d) /\ d.size \in 4 .. 45
        /\ Field(e, 0, 30) = Field(b, 0, 30) /\ Field(e, 34, 10) = Field(b, 34, 10)
        /\ Field(e, 30, 4) = ServerIP(d.config) /\ d.size = 4 + At(e, 45) /\ Told(e, b, j)
        /\ Effect(b, j, d)
    BY <2>1, <2>2, CULServerMade
  <2> QED
    BY <2>3, Zenon DEF j
<1> HIDE DEF d
<1>4. Bytes(e, BufferSize)
  BY <1>3, MachineParts
<1> HIDE DEF e
<1>5. Bytes(p1, 2) /\ Bytes(p2, 2)
  <2>1. in + 2 \in Nat /\ in + 2 + 2 <= BufferSize /\ 34 + 2 <= BufferSize
    BY <1>2
  <2> QED
    BY <1>2, <1>4, <2>1, BytesField
<1>6. Bytes(p3, 2) /\ Bytes(p4, 2)
  <2>1. size \in Int
    BY <1>3
  <2>2. 0 \in Byte
    BY DEF Byte
  <2> QED
    BY <2>1, <2>2, BytesBE16, ShortBytes
<1> HIDE DEF p1, p2, p3, p4
<1>7. Bytes(t2, 4)
  BY <1>5, BytesCat
<1>8. Field(t2, 0, 2) = p1 /\ Field(t2, 2, 2) = p2
  <2>1. Field(t2, 0, 2) = Field(p1, 0, 2)
    BY <1>5, CatLeft
  <2>2. Field(t2, 2, 2) = Field(p2, 0, 2)
    BY <1>5, CatRight
  <2>3. Field(p1, 0, 2) = p1 /\ Field(p2, 0, 2) = p2
    BY <1>5, WholeField
  <2> QED
    BY <2>1, <2>2, <2>3
<1> HIDE DEF t2
<1>9. Bytes(t3, 6)
  BY <1>6, <1>7, BytesCat
<1>10. Field(t3, 0, 2) = p1 /\ Field(t3, 2, 2) = p2 /\ Field(t3, 4, 2) = p3
  <2>1. Field(t3, 0, 2) = Field(t2, 0, 2) /\ Field(t3, 2, 2) = Field(t2, 2, 2)
    BY <1>6, <1>7, CatLeft
  <2>2. Field(t3, 4, 2) = Field(p3, 0, 2)
    BY <1>6, <1>7, CatRight
  <2>3. Field(p3, 0, 2) = p3
    BY <1>6, WholeField
  <2> QED
    BY <1>8, <2>1, <2>2, <2>3
<1> HIDE DEF t3
<1>11. Bytes(s, 8)
  BY <1>6, <1>9, BytesCat
<1>12. Field(s, 0, 2) = p1 /\ Field(s, 2, 2) = p2 /\ Field(s, 4, 2) = p3
  <2>1. Field(s, 0, 2) = Field(t3, 0, 2) /\ Field(s, 2, 2) = Field(t3, 2, 2) /\ Field(s, 4, 2) = Field(t3, 4, 2)
    BY <1>6, <1>9, CatLeft
  <2> QED
    BY <1>10, <2>1
<1> HIDE DEF s
<1>13. 34 + 8 <= BufferSize
  BY <1>2
<1>14. Bytes(a, BufferSize)
  BY <1>2, <1>4, <1>11, <1>13, BytesPut
<1>15. Field(a, 34, 2) = p1 /\ Field(a, 36, 2) = p2 /\ Field(a, 38, 2) = p3
  <2>1. Field(a, 34, 2) = Field(s, 0, 2) /\ Field(a, 36, 2) = Field(s, 2, 2) /\ Field(a, 38, 2) = Field(s, 4, 2)
    BY <1>2, <1>4, <1>11, <1>13, PutInside
  <2> QED
    BY <1>12, <2>1
<1>16. Field(a, 0, 30) = Field(e, 0, 30) /\ Field(a, 30, 4) = Field(e, 30, 4) /\ Field(a, 42, 2) = Field(e, 42, 2)
  <2>1. 0 + 30 <= BufferSize /\ 30 + 4 <= BufferSize /\ 42 + 2 <= BufferSize
    BY <1>2
  <2> QED
    BY <1>2, <1>4, <1>11, <1>13, <2>1, PutOutside
<1>17. Field(e, 34, 2) = Field(b, 34, 2) /\ Field(e, 36, 2) = Field(b, 36, 2) /\ Field(e, 42, 2) = Field(b, 42, 2)
  <2>1. 34 + 10 <= BufferSize
    BY <1>2
  <2>2. /\ Field(Field(e, 34, 10), 0, 2) = Field(e, 34, 2)
        /\ Field(Field(e, 34, 10), 2, 2) = Field(e, 36, 2)
        /\ Field(Field(e, 34, 10), 8, 2) = Field(e, 42, 2)
    BY ONLY <1>2, <1>4, <2>1, FieldOfField
  <2>3. /\ Field(Field(b, 34, 10), 0, 2) = Field(b, 34, 2)
        /\ Field(Field(b, 34, 10), 2, 2) = Field(b, 36, 2)
        /\ Field(Field(b, 34, 10), 8, 2) = Field(b, 42, 2)
    BY ONLY <1>1, <1>2, <2>1, FieldOfField
  <2> QED
    BY <1>3, <2>2, <2>3
<1>a. At(a, 45) = At(e, 45) /\ Told(a, b, in + 8)
  <2> DEFINE x == At(e, 45)
  <2>1. x \in Nat /\ 46 + x <= BufferSize /\ 44 + 1 <= BufferSize /\ 45 + 1 <= BufferSize
    <3>1. 46 \in 1 .. BufferSize
      BY <1>2
    <3>2. x \in Byte
      BY <1>2, <1>4, <3>1, BytesAt DEF At
    <3>3. x <= 41
      BY <1>3, <3>2 DEF Byte
    <3> HIDE DEF x
    <3> QED
      BY <1>2, <3>2, <3>3 DEF Byte
  <2> HIDE DEF x, a
  <2>2. Field(a, 44, 1) = Field(e, 44, 1) /\ Field(a, 45, 1) = Field(e, 45, 1)
    BY <1>2, <1>4, <1>11, <1>13, <2>1, PutOutside DEF a
  <2>3. Field(a, 46, x) = Field(e, 46, x)
    BY <1>2, <1>4, <1>11, <1>13, <2>1, PutOutside DEF a
  <2>4. At(a, 44) = At(e, 44) /\ At(a, 45) = At(e, 45)
    BY <1>2, <1>4, <1>14, <2>1, <2>2, SameByte
  <2> QED
    BY <1>3, <2>3, <2>4 DEF Told, x
<1>18. Served(a, b, in, size)
  <2>1. ASSUME in = 34 PROVE p1 = Field(e, 36, 2)
    BY <2>1 DEF p1
  <2>2. size = 12 + At(a, 45)
    <3> DEFINE x == At(e, 45)
               z == d.size
    <3>1. z \in 4 .. 45 /\ z = 4 + x /\ x \in Nat
      <4>1. 46 \in 1 .. BufferSize
        BY <1>2
      <4>2. x \in Nat
        BY <1>2, <1>4, <4>1, BytesAt DEF At, Byte
      <4> QED
        BY <1>3, <4>2
    <3> HIDE DEF x, z
    <3>2. 8 + z = 12 + x
      BY <3>1
    <3> QED
      BY <1>a, <3>2 DEF x, z
  <2> HIDE DEF a, size
  <2> QED
    BY <1>15, <1>16, <1>17, <1>a, <2>1, <2>2 DEF Served, p2, p3
<1>19. r = m \/ r = n
  <2>1. UDP = 8 /\ 34 + UDP = 42 /\ in + UDP = in + 8
    BY DEF UDP
  <2>2. r = m \/ r = UDPAnswer(d, in, 34)
    BY <2>1 DEF UDPReply, d
  <2>3. d = [buffer |-> d.buffer, config |-> d.config, extra |-> d.extra, size |-> d.size]
    BY <1>3 DEF Machines
  <2>4. UDPHeader(d.buffer, in, 34, d.size) = a
    BY <2>1 DEF UDPHeader, a, s, t3, t2, p1, p2, p3, p4, e
  <2> HIDE DEF a
  <2>5. UDPAnswer(d, in, 34) = n
    BY <2>1, <2>3, <2>4 DEF UDPAnswer
  <2> QED
    BY <2>2, <2>5
<1> HIDE DEF a
<1>20. n \in Machines /\ n.buffer = a /\ n.config = d.config /\ n.extra = d.extra /\ n.size = size
  <2>1. a \in Buffers /\ size \in 0 .. BufferSize
    BY <1>2, <1>3, <1>14, BufferOf
  <2> QED
    BY <1>3, <2>1 DEF Machines
<1>21. size \in 0 .. 53 /\ size >= 12
  BY <1>3
<1> HIDE DEF n, size
<1>22. NoticeStays(m, n) /\ NoticeStays(m, m)
  BY <1>3, <1>20 DEF NoticeStays
<1>23. Acted(r.size # 0, b, in + 8, r)
  BY <1>3, <1>19, <1>20, <1>21 DEF Acted, Effect
<1> QED
  BY <1>3, <1>16, <1>18, <1>19, <1>20, <1>21, <1>22, <1>23

(* What lies behind the IP header stays when all of it is kept.            *)
LEMMA TailField ==
  ASSUME NEW a, NEW l \in Nat, Bytes(a, l), NEW c, NEW n \in Nat, Bytes(c, n), n <= l, NEW at \in Nat,
         at <= n, Field(c, at, n - at) = Field(a, at, n - at),
         NEW i \in Nat, NEW k \in Nat, at <= i, i + k <= n
  PROVE  Field(c, i, k) = Field(a, i, k)
<1>1. n - at \in Nat /\ at + (n - at) <= n /\ at + (n - at) <= l
  OBVIOUS
<1>2. i - at \in Nat /\ i - at + k <= n - at /\ i = at + (i - at)
  OBVIOUS
<1> DEFINE j == i - at
           x == n - at
<1> HIDE DEF j, x
<1>3. Field(Field(c, at, x), j, k) = Field(c, i, k)
  BY <1>1, <1>2, FieldOfField DEF j, x
<1>4. Field(Field(a, at, x), j, k) = Field(a, i, k)
  BY <1>1, <1>2, FieldOfField DEF j, x
<1>5. Field(c, at, x) = Field(a, at, x)
  BY DEF x
<1> QED
  BY <1>3, <1>4, <1>5

LEMMA EchoedKept ==
  ASSUME NEW a, NEW l \in Nat, Bytes(a, l), NEW c, NEW n \in Nat, Bytes(c, n), n <= l, 34 <= n,
         Field(c, 34, n - 34) = Field(a, 34, n - 34),
         NEW b, NEW in, NEW size \in Nat, 8 <= size, 34 + size <= n, Echoed(a, b, in, size)
  PROVE  Echoed(c, b, in, size)
<1>1. Field(c, 34, 1) = Field(a, 34, 1)
  <2>1. 34 + 1 <= n
    OBVIOUS
  <2> QED
    BY <2>1, TailField
<1>2. At(c, 34) = At(a, 34)
  <2>1. 34 + 1 <= n /\ 34 + 1 <= l
    OBVIOUS
  <2> QED
    BY <1>1, <2>1, SameByte
<1>3. Field(c, 38, size - 4) = Field(a, 38, size - 4)
  <2>1. size - 4 \in Nat /\ 38 + (size - 4) <= n
    OBVIOUS
  <2> QED
    BY <2>1, TailField
<1> DEFINE k == size \div 2
           m == 2 * k
<1>4. k \in Nat /\ m \in Nat /\ 34 + m <= n /\ 34 + m <= l
  <2>1. k \in Nat /\ 2 * k <= size
    OBVIOUS
  <2> HIDE DEF k
  <2> QED
    BY <2>1
<1>5. Words(c, 34, k) = Words(a, 34, k)
  <2> HIDE DEF k
  <2>1. 34 + 2 * k <= n /\ 34 + 2 * k <= l
    BY <1>4
  <2> HIDE DEF m
  <2>2. Field(c, 34, m) = Field(a, 34, m)
    BY <1>4, TailField
  <2>3. Field(c, 34, 2 * k) = Field(a, 34, 2 * k)
    BY <2>2, Zenon DEF m
  <2> QED
    BY <1>4, <2>1, <2>3, SameWords
<1> HIDE DEF k
<1>6. SumIsRight(a, 34, k) => SumIsRight(c, 34, k)
  BY <1>5, Zenon DEF SumIsRight
<1> QED
  BY <1>2, <1>3, <1>6, Zenon DEF Echoed, k

LEMMA ServedKept ==
  ASSUME NEW a, NEW l \in Nat, Bytes(a, l), NEW c, NEW n \in Nat, Bytes(c, n), n <= l,
         Field(c, 34, n - 34) = Field(a, 34, n - 34),
         NEW b, NEW in, NEW size, 34 + size <= n, 46 <= n, Served(a, b, in, size)
  PROVE  Served(c, b, in, size)
<1> DEFINE x == At(a, 45)
<1>1. x \in Nat /\ 46 + x <= n
  <2>1. 46 \in 1 .. l
    OBVIOUS
  <2>2. x \in Byte
    BY <2>1, BytesAt DEF At
  <2>3. size = 12 + x
    BY DEF Served
  <2> HIDE DEF x
  <2> QED
    BY <2>2, <2>3 DEF Byte
<1> HIDE DEF x
<1> DEFINE Same(i, k) == Field(c, i, k) = Field(a, i, k)
<1>2. ASSUME NEW i \in Nat, NEW k \in Nat, 34 <= i, i + k <= n PROVE Same(i, k)
  <2>1. 34 <= n
    OBVIOUS
  <2> QED
    BY <1>2, <2>1, TailField
<1> HIDE DEF Same
<1>3. /\ Same(34, 2) /\ Same(36, 2) /\ Same(38, 2) /\ Same(42, 2) /\ Same(44, 1) /\ Same(45, 1)
      /\ Same(46, x)
  BY <1>1, <1>2
<1>4. At(c, 44) = At(a, 44) /\ At(c, 45) = x
  <2>1. 44 + 1 <= n /\ 45 + 1 <= n /\ 44 + 1 <= l /\ 45 + 1 <= l
    OBVIOUS
  <2>2. Field(c, 44, 1) = Field(a, 44, 1) /\ Field(c, 45, 1) = Field(a, 45, 1)
    BY <1>3 DEF Same
  <2> QED
    BY <2>1, <2>2, SameByte DEF x
<1>5. Told(c, b, in + 8)
  <2>1. Told(a, b, in + 8) /\ Field(c, 46, x) = Field(a, 46, x)
    BY <1>3 DEF Served, Same
  <2> QED
    BY <1>4, <2>1 DEF Told, x
<1> QED
  BY <1>3, <1>4, <1>5 DEF Served, Same, x

(* IP: the header, the addresses exchanged.                                *)
Headed(r, p, size, src, dst) ==
  /\ SumIsRight(r, 14, 10) /\ At(r, 14) = 69 /\ At(r, 23) = p /\ Field(r, 16, 2) = BE16(20 + size)
  /\ Field(r, 26, 4) = src /\ Field(r, 30, 4) = dst

LEMMA IPAnswerMade ==
  ASSUME NEW d \in Machines, d.size # 0, 34 + d.size <= BufferSize, NEW r, r = IPAnswer(d),
         NEW a, a = d.buffer
  PROVE  /\ r \in Machines /\ r.config = d.config /\ r.extra = d.extra /\ r.size = 20 + d.size
         /\ Field(r.buffer, 0, 14) = Field(a, 0, 14)
         /\ Field(r.buffer, 34, BufferSize - 34) = Field(a, 34, BufferSize - 34)
         /\ Headed(r.buffer, At(a, 23), d.size, Field(a, 30, 4), Field(a, 26, 4))
<1> DEFINE p == At(a, 23)
           src == Field(a, 30, 4)
           dst == Field(a, 26, 4)
           size == d.size
           h == IPHeader(p, size, src, dst)
           u == Put(a, 14, h)
           c == WithChecksum(u)
           l == BufferSize
<1>1. Bytes(a, l) /\ size \in Nat /\ size > 0
  BY MachineParts
<1>2. l \in Nat /\ 92 <= l /\ l <= WordMax /\ 34 <= l /\ 14 + 20 <= l
  BY Room
<1>3. Bytes(src, 4) /\ Bytes(dst, 4)
  <2>1. 30 + 4 <= l /\ 26 + 4 <= l
    BY <1>2
  <2> QED
    BY <1>1, <1>2, <2>1, BytesField
<1>4. p \in Byte
  <2>1. 24 \in 1 .. l
    BY <1>2
  <2>2. a[24] \in Byte
    BY <1>1, <1>2, <2>1, BytesAt
  <2> QED
    BY <2>2 DEF At
<1> HIDE DEF p, src, dst
<1>5. Bytes(h, 20)
  BY <1>1, <1>3, <1>4, HeaderBytes
<1>6. r = [d EXCEPT !.buffer = c, !.size = 20 + size]
  <2>1. ETH + 9 = 23 /\ ETH + 16 = 30 /\ ETH + 12 = 26 /\ ETH = 14 /\ IP = 20
    BY DEF ETH, IP
  <2>2. d.size > 0
    BY <1>1
  <2> QED
    BY <2>1, <2>2 DEF IPAnswer, h, p, src, dst
<1> HIDE DEF h, l
<1>7. Bytes(u, l)
  BY <1>1, <1>2, <1>5, BytesPut
<1>8. Field(u, 14, 20) = h
  <2>1. Field(u, 14, 20) = Field(h, 0, 20)
    BY <1>1, <1>2, <1>5, PutInside
  <2> QED
    BY <1>5, <2>1, WholeField
<1>9. Field(u, 0, 14) = Field(a, 0, 14) /\ Field(u, 34, l - 34) = Field(a, 34, l - 34)
  <2>1. 0 + 14 <= l /\ l - 34 \in Nat /\ 34 + (l - 34) <= l /\ 14 + 20 <= 34
    BY <1>2
  <2> QED
    BY <1>1, <1>2, <1>5, <2>1, PutOutside
<1> HIDE DEF u
<1>10. /\ Bytes(c, l) /\ SumIsRight(c, 14, 10)
       /\ At(c, 14) = 69 /\ At(c, 23) = p /\ Field(c, 16, 2) = BE16(IP + size)
       /\ Field(c, 26, 4) = src /\ Field(c, 30, 4) = dst
  BY <1>1, <1>2, <1>3, <1>4, <1>7, <1>8, Checksummed DEF h
<1>11. Field(c, 0, 14) = Field(u, 0, 14) /\ Field(c, 34, l - 34) = Field(u, 34, l - 34)
  <2>1. 0 + 14 <= l /\ l - 34 \in Nat /\ 34 + (l - 34) <= l
    BY <1>2
  <2> QED
    BY <1>2, <1>7, <2>1, ChecksumOutside
<1> HIDE DEF c
<1>12. Headed(c, p, size, src, dst)
  BY <1>10 DEF Headed, IP
<1>13. c \in Buffers /\ 20 + size \in 0 .. BufferSize
  <2>1. c \in Buffers
    BY <1>10, BufferOf DEF l
  <2> QED
    BY <1>1, <2>1, Room
<1>14. r \in Machines /\ r.buffer = c /\ r.config = d.config /\ r.extra = d.extra /\ r.size = 20 + size
  BY <1>6, <1>13 DEF Machines
<1> QED
  BY <1>9, <1>11, <1>12, <1>14 DEF l, p, src, dst

(* What the answer to an IP packet is: n bytes behind the IP header, for a *)
(* request whose payload starts at in.                                     *)
IPOwes(a, b, in, n, server) ==
  /\ Headed(a, At(b, 23), n, Field(a, 26, 4), Field(b, 26, 4)) /\ At(b, 23) \in {1, 17}
  /\ At(b, 23) = 1  => 8 <= n /\ in + n = FrameLength /\ Echoed(a, b, in, n)
  /\ At(b, 23) = 17 => 12 <= n /\ Served(a, b, in, n) /\ Field(a, 26, 4) = server

(* The packet of this protocol has its header: only an ICMP packet needs   *)
(* one.                                                                    *)
Framed(b, n) ==
  /\ n \in ETH .. BufferSize
  /\ At(b, 23) = 1 => At(b, 14) % 16 >= 5 /\ n >= HeaderEnd(b) + 8

LEMMA HeaderEndIs ==
  ASSUME NEW b, Bytes(b, BufferSize)
  PROVE  /\ HeaderEnd(b) \in 14 .. 74 /\ (At(b, 14) % 16 >= 5 => HeaderEnd(b) >= 34)
         /\ (At(b, 14) = 69 => HeaderEnd(b) = 34)
<1>1. At(b, 14) \in 0 .. 255
  <2>1. 15 \in 1 .. BufferSize /\ BufferSize \in Nat
    BY Room
  <2>2. b[15] \in Byte
    BY <2>1, BytesAt
  <2> QED
    BY <2>2 DEF At, Byte
<1> DEFINE x == At(b, 14)
<1> HIDE DEF x
<1>2. x % 16 \in 0 .. 15
  BY <1>1 DEF x
<1>3. x = 69 => x % 16 = 5
  OBVIOUS
<1> DEFINE y == x % 16
<1> HIDE DEF y
<1>4. y \in 0 .. 15 /\ (x = 69 => y = 5)
  BY <1>2, <1>3 DEF y
<1>5. HeaderEnd(b) = 14 + 4 * y
  BY DEF HeaderEnd, ETH, x, y
<1> QED
  BY <1>4, <1>5 DEF x, y

LEMMA IPMade ==
  ASSUME NEW m \in Machines, m.size = 0, m.config = config, m.extra.flag = "PACKET", clock \in Nat, NEW b, b = m.buffer,
         Framed(b, FrameLength), NEW r, r = IPReply(m)
  PROVE  /\ r \in Machines /\ NoticeStays(m, r)
         /\ r.size # 0 => /\ r.size >= 20 /\ 14 + r.size <= BufferSize
                          /\ Field(r.buffer, 0, 14) = Field(b, 0, 14)
                          /\ IPOwes(r.buffer, b, HeaderEnd(b), r.size - 20, ServerIP(r.config))
         /\ Acted(r.size # 0 /\ At(b, 23) = 17, b, HeaderEnd(b) + 8, r)
<1> DEFINE in == HeaderEnd(b)
           l == BufferSize
<1>1. Bytes(b, l) /\ l \in Nat /\ 92 <= l
  BY MachineParts, Room
<1>2. in \in 14 .. 74 /\ (At(b, 14) % 16 >= 5 => in >= 34)
  BY <1>1, HeaderEndIs
<1> HIDE DEF in
<1>3. NoticeStays(m, m)
  BY DEF NoticeStays
<1>4. FrameLength \in Nat /\ FrameLength <= l
  BY <1>1 DEF Framed, ETH
<1> DEFINE Good(x) == /\ x \in Machines /\ NoticeStays(m, x)
                      /\ x.size # 0 => /\ x.size >= 20 /\ 14 + x.size <= BufferSize
                                       /\ Field(x.buffer, 0, 14) = Field(b, 0, 14)
                                       /\ IPOwes(x.buffer, b, in, x.size - 20, ServerIP(x.config))
                      /\ Acted(x.size # 0 /\ At(b, 23) = 17, b, in + 8, x)
           Does(x) == Acted(x.size # 0 /\ At(b, 23) = 17, b, in + 8, x)
<1>5. ASSUME NEW d \in Machines, d.size = 0, NoticeStays(m, d), Does(d) PROVE Good(IPAnswer(d))
  <2>1. IPAnswer(d) = d
    BY <1>5 DEF IPAnswer
  <2> QED
    BY <1>5, <2>1
<1>6. ASSUME NEW d \in Machines, d.size # 0, NoticeStays(m, d), Does(d), 34 + d.size <= l,
             Field(d.buffer, 0, 30) = Field(b, 0, 30), At(b, 23) \in {1, 17},
             At(b, 23) = 1  => 8 <= d.size /\ in + d.size = FrameLength /\ Echoed(d.buffer, b, in, d.size),
             At(b, 23) = 17 => /\ 12 <= d.size /\ Served(d.buffer, b, in, d.size)
                               /\ Field(d.buffer, 30, 4) = ServerIP(d.config)
      PROVE  Good(IPAnswer(d))
  <2> DEFINE x == IPAnswer(d)
             a == d.buffer
             c == x.buffer
             n == d.size
  <2>1. /\ x \in Machines /\ x.config = d.config /\ x.extra = d.extra /\ x.size = 20 + n
        /\ Field(c, 0, 14) = Field(a, 0, 14) /\ Field(c, 34, l - 34) = Field(a, 34, l - 34)
        /\ Headed(c, At(a, 23), n, Field(a, 30, 4), Field(a, 26, 4))
    BY <1>6, IPAnswerMade
  <2> HIDE DEF x
  <2>2. Bytes(a, l) /\ Bytes(c, l) /\ n \in Nat
    BY <1>6, <2>1, MachineParts
  <2>3. NoticeStays(m, x)
    BY <1>6, <2>1 DEF NoticeStays
  <2>4. /\ Field(a, 0, 14) = Field(b, 0, 14) /\ Field(a, 23, 1) = Field(b, 23, 1)
        /\ Field(a, 26, 4) = Field(b, 26, 4)
    <3>1. 0 + 30 <= l
      BY <1>1
    <3> DEFINE Same(i, k) == Field(a, i, k) = Field(b, i, k)
    <3>2. ASSUME NEW i \in Nat, NEW k \in Nat, i + k <= 30 PROVE Same(i, k)
      <4>1. 0 \in Nat /\ 30 \in Nat /\ 0 <= i /\ i + k <= 0 + 30 /\ l \in Nat /\ Bytes(b, l)
        BY <1>1, <3>2
      <4>2. Field(a, 0, 30) = Field(b, 0, 30)
        BY <1>6
      <4> QED
        BY <2>2, <3>1, <3>2, <4>1, <4>2, FieldWithin
    <3> HIDE DEF Same
    <3>3. Same(0, 14) /\ Same(23, 1) /\ Same(26, 4)
      BY <3>2
    <3> QED
      BY <3>3 DEF Same
  <2>5. At(a, 23) = At(b, 23)
    <3>1. 23 + 1 <= l
      BY <1>1
    <3> QED
      BY <1>1, <2>2, <2>4, <3>1, SameByte
  <2>6. Field(c, 26, 4) = Field(a, 30, 4)
    BY <2>1 DEF Headed
  <2>7. Headed(c, At(b, 23), n, Field(c, 26, 4), Field(b, 26, 4))
    BY <2>1, <2>4, <2>5, <2>6
  <2>8. ASSUME At(b, 23) = 1 PROVE 8 <= n /\ in + n = FrameLength /\ Echoed(c, b, in, n)
    <3>1. 8 <= n /\ in + n = FrameLength /\ Echoed(a, b, in, n)
      BY <1>6, <2>8
    <3>2. 34 <= l /\ 34 + n <= l /\ l <= l
      BY <1>1, <1>6
    <3> HIDE DEF a, c, n
    <3> QED
      BY <1>1, <2>1, <2>2, <3>1, <3>2, EchoedKept
  <2>9. ASSUME At(b, 23) = 17 PROVE 12 <= n /\ Served(c, b, in, n) /\ Field(c, 26, 4) = ServerIP(x.config)
    <3>1. 12 <= n /\ Served(a, b, in, n) /\ Field(a, 30, 4) = ServerIP(d.config)
      BY <1>6, <2>9
    <3>2. 46 <= l /\ l <= l /\ 34 + n <= l
      BY <1>1, <1>6
    <3>3. Field(c, 26, 4) = ServerIP(x.config)
      BY <2>1, <2>6, <3>1
    <3> HIDE DEF a, c, n
    <3> QED
      BY <1>1, <2>1, <2>2, <3>1, <3>2, <3>3, ServedKept
  <2>10. Field(c, 0, 14) = Field(b, 0, 14)
    BY <2>1, <2>4
  <2>11. IPOwes(c, b, in, n, ServerIP(x.config))
    BY <1>6, <2>7, <2>8, <2>9 DEF IPOwes
  <2>12. x.size >= 20 /\ 14 + x.size <= BufferSize /\ x.size - 20 = n
    BY <1>1, <1>6, <2>1, <2>2
  <2>14. Does(x)
    <3>1. x.size # 0 /\ d.size # 0
      BY <1>6, <2>12
    <3> QED
      BY <1>6, <2>1, <3>1 DEF Acted, Effect
  <2> HIDE DEF c, n
  <2>13. IPOwes(x.buffer, b, in, x.size - 20, ServerIP(x.config))
    BY <2>11, <2>12 DEF c
  <2> QED
    BY <2>1, <2>3, <2>10, <2>12, <2>13, <2>14 DEF x, c
<1>a. Does(m)
  BY DEF Acted
<1>7. Good(m)
  BY <1>3, <1>a
<1>8. ASSUME At(b, 23) = 1 PROVE Good(IPAnswer(ICMPReply(m, in, 34)))
  <2> DEFINE d == ICMPReply(m, in, 34)
             size == FrameLength - in
  <2>1. in >= 34 /\ FrameLength >= in + 8
    BY <1>2, <1>8 DEF Framed, in
  <2>2. in \in Nat /\ size \in Nat /\ 8 <= size /\ FrameLength = in + size
    BY <1>2, <1>4, <2>1
  <2> HIDE DEF size
  <2>3. /\ d \in Machines /\ d.config = m.config /\ d.extra = m.extra /\ d.size \in {0, size}
        /\ d.size # 0 => Field(d.buffer, 0, 34) = Field(b, 0, 34) /\ Echoed(d.buffer, b, in, size)
    BY <1>4, <2>1, <2>2, ICMPMade
  <2> HIDE DEF d
  <2>4. NoticeStays(m, d) /\ Does(d)
    BY <1>8, <2>3 DEF NoticeStays, Acted
  <2> HIDE DEF Does
  <2>5. ASSUME d.size # 0 PROVE Good(IPAnswer(d))
    <3>1. d.size = size /\ Field(d.buffer, 0, 34) = Field(b, 0, 34) /\ Echoed(d.buffer, b, in, size)
      BY <2>3, <2>5
    <3>2. Field(d.buffer, 0, 30) = Field(b, 0, 30)
      <4>1. Bytes(d.buffer, l) /\ 0 + 34 <= l
        BY <1>1, <2>3, MachineParts
      <4>2. Field(Field(d.buffer, 0, 34), 0, 30) = Field(d.buffer, 0, 30)
        BY <1>1, <4>1, FieldOfField
      <4>3. Field(Field(b, 0, 34), 0, 30) = Field(b, 0, 30)
        BY <1>1, <4>1, FieldOfField
      <4> QED
        BY <3>1, <4>2, <4>3
    <3>3. 34 + d.size <= l /\ in + d.size = FrameLength
      BY <1>1, <1>4, <2>1, <2>2, <3>1
    <3> HIDE DEF Good
    <3> QED
      BY <1>6, <1>8, <2>2, <2>3, <2>4, <2>5, <3>1, <3>2, <3>3
  <2> HIDE DEF Good
  <2>6. Good(IPAnswer(d))
    BY <1>5, <2>3, <2>4, <2>5
  <2> QED
    BY <2>6 DEF d
<1>9. ASSUME At(b, 23) = 17 PROVE Good(IPAnswer(UDPReply(m, in, 34)))
  <2> DEFINE d == UDPReply(m, in, 34)
  <2>1. in \in Nat /\ in <= 74
    BY <1>2
  <2>2. /\ d \in Machines /\ NoticeStays(m, d) /\ d.size \in 0 .. 53
        /\ d.size # 0 => /\ d.size >= 12 /\ Field(d.buffer, 0, 30) = Field(b, 0, 30)
                         /\ Field(d.buffer, 30, 4) = ServerIP(d.config)
                         /\ Served(d.buffer, b, in, d.size)
        /\ Acted(d.size # 0, b, in + 8, d)
    BY <2>1, UDPMade
  <2> HIDE DEF d
  <2>3. Does(d)
    BY <1>9, <2>2 DEF Acted
  <2> HIDE DEF Does
  <2>4. ASSUME d.size # 0 PROVE Good(IPAnswer(d))
    <3>1. 34 + d.size <= l
      BY <1>1, <2>2
    <3> HIDE DEF Good
    <3> QED
      BY <1>6, <1>9, <2>2, <2>3, <2>4, <3>1
  <2> HIDE DEF Good
  <2>5. Good(IPAnswer(d))
    BY <1>5, <2>2, <2>3, <2>4
  <2> QED
    BY <2>5 DEF d
<1>10. Good(r)
  <2> HIDE DEF Good
  <2>1. ETH + 9 = 23 /\ ETH + IP = 34 /\ ProtocolICMP = 1 /\ ProtocolUDP = 17
    BY DEF ETH, IP, ProtocolICMP, ProtocolUDP
  <2>2. Good(IPAnswer(m))
    BY <1>3, <1>5, <1>a
  <2> HIDE DEF Does
  <2> QED
    BY <1>7, <1>8, <1>9, <2>1, <2>2 DEF IPReply, in
<1> QED
  BY <1>10 DEF in

(* So it is with the header.                                               *)
LEMMA HeadedKept ==
  ASSUME NEW a, NEW l \in Nat, Bytes(a, l), NEW c, NEW k \in Nat, Bytes(c, k), 34 <= l, 34 <= k,
         Field(c, 14, 20) = Field(a, 14, 20),
         NEW p, NEW size, NEW src, NEW dst, Headed(a, p, size, src, dst)
  PROVE  Headed(c, p, size, src, dst)
<1>1. 14 + 20 <= l /\ 14 + 20 <= k /\ 14 + 1 <= l /\ 14 + 1 <= k /\ 23 + 1 <= l /\ 23 + 1 <= k
  OBVIOUS
<1>2. /\ Field(c, 14, 1) = Field(a, 14, 1) /\ Field(c, 23, 1) = Field(a, 23, 1)
      /\ Field(c, 16, 2) = Field(a, 16, 2) /\ Field(c, 26, 4) = Field(a, 26, 4)
      /\ Field(c, 30, 4) = Field(a, 30, 4)
  <2> DEFINE Same(i, j) == Field(c, i, j) = Field(a, i, j)
  <2>1. ASSUME NEW i \in Nat, NEW j \in Nat, 14 <= i, i + j <= 14 + 20 PROVE Same(i, j)
    BY <1>1, <2>1, FieldWithin
  <2> HIDE DEF Same
  <2>2. Same(14, 1) /\ Same(23, 1) /\ Same(16, 2) /\ Same(26, 4) /\ Same(30, 4)
    BY <2>1
  <2> QED
    BY <2>2 DEF Same
<1>3. At(c, 14) = At(a, 14) /\ At(c, 23) = At(a, 23)
  BY <1>1, <1>2, SameByte
<1>4. SumIsRight(c, 14, 10)
  <2>1. 14 + 2 * 10 <= l /\ 14 + 2 * 10 <= k
    BY <1>1
  <2>2. Field(c, 14, 2 * 10) = Field(a, 14, 2 * 10)
    OBVIOUS
  <2>3. Words(c, 14, 10) = Words(a, 14, 10)
    BY <2>1, <2>2, SameWords
  <2> QED
    BY <2>3, Zenon DEF SumIsRight, Headed
<1> QED
  BY <1>2, <1>3, <1>4 DEF Headed

(* Such an answer stays one when all behind the Ethernet header is kept.   *)
LEMMA IPOwesKept ==
  ASSUME NEW a, NEW l \in Nat, Bytes(a, l), NEW c, NEW k \in Nat, Bytes(c, k), k <= l,
         NEW n \in Nat, 34 + n <= k, Field(c, 14, k - 14) = Field(a, 14, k - 14),
         NEW b, NEW in, NEW server, IPOwes(a, b, in, n, server)
  PROVE  IPOwes(c, b, in, n, server)
<1>1. 34 <= k /\ 34 <= l /\ 14 <= k /\ 14 + 20 <= k /\ 26 + 4 <= k
  OBVIOUS
<1>2. Field(c, 14, 20) = Field(a, 14, 20) /\ Field(c, 26, 4) = Field(a, 26, 4)
  <2> DEFINE Same(i, j) == Field(c, i, j) = Field(a, i, j)
  <2>1. ASSUME NEW i \in Nat, NEW j \in Nat, 14 <= i, i + j <= k PROVE Same(i, j)
    BY <1>1, <2>1, TailField
  <2> HIDE DEF Same
  <2>2. Same(14, 20) /\ Same(26, 4)
    BY <1>1, <2>1
  <2> QED
    BY <2>2 DEF Same
<1>3. Field(c, 34, k - 34) = Field(a, 34, k - 34)
  <2>1. k - 34 \in Nat /\ 34 + (k - 34) <= k
    BY <1>1
  <2> QED
    BY <1>1, <2>1, TailField
<1>4. Headed(c, At(b, 23), n, Field(c, 26, 4), Field(b, 26, 4))
  <2>1. Headed(a, At(b, 23), n, Field(c, 26, 4), Field(b, 26, 4))
    BY <1>2 DEF IPOwes
  <2> QED
    BY <1>1, <1>2, <2>1, HeadedKept
<1>5. ASSUME At(b, 23) = 1 PROVE 8 <= n /\ in + n = FrameLength /\ Echoed(c, b, in, n)
  <2>1. 8 <= n /\ in + n = FrameLength /\ Echoed(a, b, in, n)
    BY <1>5 DEF IPOwes
  <2> QED
    BY <1>1, <1>3, <2>1, EchoedKept
<1>6. ASSUME At(b, 23) = 17 PROVE 12 <= n /\ Served(c, b, in, n) /\ Field(c, 26, 4) = server
  <2>1. 12 <= n /\ Served(a, b, in, n) /\ Field(a, 26, 4) = server
    BY <1>6 DEF IPOwes
  <2>2. 46 <= k
    BY <2>1
  <2>3. Served(c, b, in, n)
    BY <1>3, <2>1, <2>2, ServedKept
  <2> QED
    BY <1>2, <2>1, <2>3
<1>7. At(b, 23) \in {1, 17}
  BY DEF IPOwes
<1> QED
  BY <1>4, <1>5, <1>6, <1>7 DEF IPOwes

(* The answer to any frame.                                                *)
Owes(a, b, size, c) ==
  /\ Field(a, 0, 12) = Field(b, 6, 6) \o ServerMAC(c) /\ Field(a, 12, 2) = Field(b, 12, 2)
  /\ Type(b) \in {TypeARP, TypeIPv4}
  /\ Type(b) = TypeARP  => /\ size = 42
                           /\ Field(a, 22, 10) = ServerMAC(c) \o ServerIP(c)
                           /\ Field(a, 32, 10) = Field(b, 22, 10)
  /\ Type(b) = TypeIPv4 => size >= 34 /\ IPOwes(a, b, HeaderEnd(b), size - 34, ServerIP(c))

LEMMA EthernetAnswerMade ==
  ASSUME NEW d \in Machines, d.size # 0, 14 + d.size <= BufferSize, NEW r, r = EthernetAnswer(d),
         NEW a, a = d.buffer
  PROVE  /\ r \in Machines /\ r.config = d.config /\ r.extra = d.extra /\ r.size = 14 + d.size
         /\ Field(r.buffer, 0, 12) = Field(a, 6, 6) \o ServerMAC(d.config)
         /\ Field(r.buffer, 12, BufferSize - 12) = Field(a, 12, BufferSize - 12)
<1> DEFINE l == BufferSize
           to == Field(a, 6, 6)
           mac == ServerMAC(d.config)
           s == to \o mac
           c == Put(a, 0, s)
<1>1. Bytes(a, l) /\ d.config \in Configs /\ d.size \in Nat
  BY MachineParts
<1>2. l \in Nat /\ 92 <= l /\ 0 + 12 <= l
  BY Room
<1>3. Bytes(to, 6) /\ Bytes(mac, 6)
  <2>1. 6 + 6 <= l
    BY <1>2
  <2>2. Bytes(mac, 6)
    BY <1>1, ConfigFields DEF Bytes
  <2> QED
    BY <1>1, <1>2, <2>1, <2>2, BytesField
<1>4. r = [d EXCEPT !.buffer = c, !.size = 14 + d.size]
  <2>1. ETH = 14 /\ d.size > 0
    BY <1>1 DEF ETH
  <2> QED
    BY <2>1 DEF EthernetAnswer
<1> HIDE DEF to, mac, l
<1>5. Bytes(s, 12)
  BY <1>3, BytesCat
<1> HIDE DEF s
<1>6. Bytes(c, l)
  BY <1>1, <1>2, <1>5, BytesPut
<1>7. Field(c, 0, 12) = s
  <2>1. Field(c, 0, 12) = Field(s, 0, 12)
    BY <1>1, <1>2, <1>5, PutInside
  <2> QED
    BY <1>5, <2>1, WholeField
<1>8. Field(c, 12, l - 12) = Field(a, 12, l - 12)
  <2>1. l - 12 \in Nat /\ 12 + (l - 12) <= l /\ 0 + 12 <= 12
    BY <1>2
  <2> QED
    BY <1>1, <1>2, <1>5, <2>1, PutOutside
<1> HIDE DEF c
<1>9. c \in Buffers /\ 14 + d.size \in 0 .. BufferSize
  <2>1. c \in Buffers
    BY <1>6, BufferOf DEF l
  <2> QED
    BY <1>1, <2>1, Room
<1>10. r \in Machines /\ r.buffer = c /\ r.config = d.config /\ r.extra = d.extra /\ r.size = 14 + d.size
  BY <1>4, <1>9 DEF Machines
<1> QED
  BY <1>7, <1>8, <1>10 DEF l, s, to, mac

LEMMA EthernetMade ==
  ASSUME NEW m \in Machines, m.size = 0, m.config = config, m.extra.flag = "PACKET", clock \in Nat, NEW b, b = m.buffer,
         Type(b) = TypeIPv4 => Framed(b, FrameLength), NEW r, r = EthernetReply(m)
  PROVE  /\ r \in Machines /\ NoticeStays(m, r)
         /\ r.size # 0 => Owes(r.buffer, b, r.size, r.config)
         /\ Acted(r.size # 0 /\ Type(b) = TypeIPv4 /\ At(b, 23) = 17, b, HeaderEnd(b) + 8, r)
<1> DEFINE l == BufferSize
           Does(x) == Acted(x.size # 0 /\ Type(b) = TypeIPv4 /\ At(b, 23) = 17, b, HeaderEnd(b) + 8, x)
           Good(x) == /\ x \in Machines /\ NoticeStays(m, x) /\ Does(x)
                      /\ x.size # 0 => Owes(x.buffer, b, x.size, x.config)
<1>1. Bytes(b, l) /\ l \in Nat /\ 92 <= l
  BY MachineParts, Room
<1>2. NoticeStays(m, m) /\ Does(m)
  BY DEF NoticeStays, Acted
<1>3. ASSUME NEW d \in Machines, d.size = 0, NoticeStays(m, d), Does(d) PROVE Good(EthernetAnswer(d))
  <2>1. EthernetAnswer(d) = d
    BY <1>3 DEF EthernetAnswer
  <2> QED
    BY <1>3, <2>1
<1>4. TypeARP # TypeIPv4
  BY SMT DEF TypeARP, TypeIPv4
<1>5. ASSUME NEW d \in Machines, d.size # 0, NoticeStays(m, d), Does(d), 14 + d.size <= l,
             Field(d.buffer, 0, 14) = Field(b, 0, 14), Type(b) \in {TypeARP, TypeIPv4},
             Type(b) = TypeARP  => /\ d.size = 28
                                   /\ Field(d.buffer, 22, 10) = ServerMAC(d.config) \o ServerIP(d.config)
                                   /\ Field(d.buffer, 32, 10) = Field(b, 22, 10),
             Type(b) = TypeIPv4 => /\ d.size >= 20
                                   /\ IPOwes(d.buffer, b, HeaderEnd(b), d.size - 20, ServerIP(d.config))
      PROVE  Good(EthernetAnswer(d))
  <2> DEFINE x == EthernetAnswer(d)
             a == d.buffer
             c == x.buffer
             n == d.size
  <2>1. /\ x \in Machines /\ x.config = d.config /\ x.extra = d.extra /\ x.size = 14 + n
        /\ Field(c, 0, 12) = Field(a, 6, 6) \o ServerMAC(d.config)
        /\ Field(c, 12, l - 12) = Field(a, 12, l - 12)
    BY <1>5, EthernetAnswerMade
  <2> HIDE DEF x
  <2>2. Bytes(a, l) /\ Bytes(c, l) /\ n \in Nat
    BY <1>5, <2>1, MachineParts
  <2>3. NoticeStays(m, x)
    BY <1>5, <2>1 DEF NoticeStays
  <2>4. Field(a, 6, 6) = Field(b, 6, 6) /\ Field(a, 12, 2) = Field(b, 12, 2)
    <3>1. 0 + 14 <= l
      BY <1>1
    <3>4. Field(a, 0, 14) = Field(b, 0, 14)
      BY <1>5
    <3> HIDE DEF a, c
    <3>2. Field(Field(a, 0, 14), 6, 6) = Field(a, 6, 6) /\ Field(Field(a, 0, 14), 12, 2) = Field(a, 12, 2)
      BY <1>1, <2>2, <3>1, FieldOfField
    <3>3. Field(Field(b, 0, 14), 6, 6) = Field(b, 6, 6) /\ Field(Field(b, 0, 14), 12, 2) = Field(b, 12, 2)
      BY <1>1, <3>1, FieldOfField
    <3> QED
      BY <3>2, <3>3, <3>4
  <2>5. /\ Field(c, 12, 2) = Field(a, 12, 2) /\ Field(c, 22, 10) = Field(a, 22, 10)
        /\ Field(c, 32, 10) = Field(a, 32, 10)
    <3>1. 12 <= l /\ l <= l /\ 12 + 2 <= l /\ 22 + 10 <= l /\ 32 + 10 <= l
      BY <1>1
    <3> DEFINE Same(i, j) == Field(c, i, j) = Field(a, i, j)
    <3> HIDE DEF a, c
    <3>2. ASSUME NEW i \in Nat, NEW j \in Nat, 12 <= i, i + j <= l PROVE Same(i, j)
      BY <1>1, <2>1, <2>2, <3>1, <3>2, TailField
    <3> HIDE DEF Same
    <3>3. Same(12, 2) /\ Same(22, 10) /\ Same(32, 10)
      BY <3>1, <3>2
    <3> QED
      BY <3>3 DEF Same, a, c
  <2>6. Field(c, 14, l - 14) = Field(a, 14, l - 14)
    <3>1. 12 <= l /\ l <= l /\ l - 14 \in Nat /\ 14 + (l - 14) <= l
      BY <1>1
    <3> HIDE DEF a, c
    <3> QED
      BY <1>1, <2>1, <2>2, <3>1, TailField
  <2>7. ASSUME Type(b) = TypeARP
        PROVE  /\ x.size = 42 /\ Field(c, 22, 10) = ServerMAC(x.config) \o ServerIP(x.config)
               /\ Field(c, 32, 10) = Field(b, 22, 10)
    BY <1>5, <2>1, <2>5, <2>7
  <2>8. ASSUME Type(b) = TypeIPv4
        PROVE  x.size >= 34 /\ IPOwes(c, b, HeaderEnd(b), x.size - 34, ServerIP(x.config))
    <3> DEFINE k == n - 20
    <3>1. k \in Nat /\ n = k + 20
      BY <1>5, <2>2, <2>8
    <3>2. IPOwes(a, b, HeaderEnd(b), k, ServerIP(d.config))
      BY <1>5, <2>8
    <3> HIDE DEF k
    <3> HIDE DEF a, c
    <3>0. 14 + n <= l /\ x.size = 14 + n
      BY <1>5, <2>1
    <3> HIDE DEF n
    <3>3. 34 + k <= l /\ l <= l /\ x.size = 34 + k
      BY <1>1, <3>0, <3>1
    <3>4. IPOwes(c, b, HeaderEnd(b), k, ServerIP(d.config))
      BY <1>1, <2>2, <2>6, <3>1, <3>2, <3>3, IPOwesKept
    <3>5. x.size >= 34 /\ x.size - 34 = k
      BY <3>1, <3>3
    <3> QED
      BY <2>1, <3>4, <3>5
  <2>9. Owes(c, b, x.size, x.config)
    BY <1>5, <2>1, <2>4, <2>5, <2>7, <2>8 DEF Owes
  <2>10. Does(x)
    <3>1. x.size # 0 /\ d.size # 0
      BY <1>5, <2>1, <2>2
    <3> QED
      BY <1>5, <2>1, <3>1 DEF Acted, Effect
  <2> QED
    BY <2>1, <2>3, <2>9, <2>10 DEF x
<1>6. ASSUME Type(b) = TypeARP PROVE Good(EthernetAnswer(ARPReply(m)))
  <2> DEFINE d == ARPReply(m)
  <2>1. /\ d \in Machines /\ d.config = m.config /\ d.extra = m.extra /\ d.size \in {0, 28}
        /\ d.size # 0 => /\ Field(d.buffer, 0, 14) = Field(b, 0, 14)
                         /\ Field(d.buffer, 22, 10) = ServerMAC(m.config) \o ServerIP(m.config)
                         /\ Field(d.buffer, 32, 10) = Field(b, 22, 10)
    BY ONLY m \in Machines, m.size = 0, b = m.buffer, ARPMade
  <2> HIDE DEF d
  <2>2. NoticeStays(m, d) /\ Does(d)
    BY <1>4, <1>6, <2>1 DEF NoticeStays, Acted
  <2> HIDE DEF Does
  <2>3. ASSUME d.size # 0 PROVE Good(EthernetAnswer(d))
    <3>1. d.size = 28 /\ 14 + d.size <= l
      BY <1>1, <2>1, <2>3
    <3> HIDE DEF Good
    <3> QED
      BY <1>4, <1>5, <1>6, <2>1, <2>2, <2>3, <3>1
  <2> HIDE DEF Good
  <2>4. Good(EthernetAnswer(d))
    BY <1>3, <2>1, <2>2, <2>3
  <2> QED
    BY <2>4 DEF d
<1>7. ASSUME Type(b) = TypeIPv4 PROVE Good(EthernetAnswer(IPReply(m)))
  <2> DEFINE d == IPReply(m)
  <2>1. /\ d \in Machines /\ NoticeStays(m, d)
        /\ d.size # 0 => /\ d.size >= 20 /\ 14 + d.size <= l
                         /\ Field(d.buffer, 0, 14) = Field(b, 0, 14)
                         /\ IPOwes(d.buffer, b, HeaderEnd(b), d.size - 20, ServerIP(d.config))
        /\ Acted(d.size # 0 /\ At(b, 23) = 17, b, HeaderEnd(b) + 8, d)
    BY <1>7, IPMade
  <2> HIDE DEF d
  <2>4. Does(d)
    BY <1>7, <2>1 DEF Acted
  <2> HIDE DEF Good, Does
  <2>2. ASSUME d.size # 0 PROVE Good(EthernetAnswer(d))
    BY <1>4, <1>5, <1>7, <2>1, <2>2, <2>4
  <2>3. Good(EthernetAnswer(d))
    BY <1>3, <2>1, <2>2, <2>4
  <2> QED
    BY <2>3 DEF d
<1>8. Good(m)
  BY <1>2
<1>9. Good(r)
  <2> HIDE DEF Good
  <2>1. Good(EthernetAnswer(m))
    BY <1>2, <1>3
  <2>2. U16(m.buffer, 12) = Type(b)
    BY DEF Type
  <2> QED
    BY <1>4, <1>6, <1>7, <1>8, <2>1, <2>2, SMT DEF EthernetReply
<1> QED
  BY <1>9 DEF Acted

(* The frame that is sent is the front of the buffer, up to its size.      *)
LEMMA OwesKept ==
  ASSUME NEW a, Bytes(a, BufferSize), NEW b, NEW size \in 0 .. BufferSize, NEW c,
         Owes(a, b, size, c), NEW f, f = Field(a, 0, size)
  PROVE  Bytes(f, size) /\ 34 <= size /\ Owes(f, b, size, c)
<1> DEFINE l == BufferSize
<1>1. l \in Nat /\ size \in Nat /\ size <= l /\ 0 + size <= l
  BY Room
<1> HIDE DEF l
<1>2. Bytes(f, size)
  BY <1>1, BytesField DEF l
<1>3. 34 <= size
  <2>1. Type(b) = TypeARP \/ Type(b) = TypeIPv4
    BY DEF Owes
  <2>2. Type(b) = TypeARP => size = 42
    BY DEF Owes
  <2>3. Type(b) = TypeIPv4 => size >= 34
    BY DEF Owes
  <2> QED
    BY <1>1, <2>1, <2>2, <2>3
<1> DEFINE Same(i, k) == Field(f, i, k) = Field(a, i, k)
<1>4. ASSUME NEW i \in Nat, NEW k \in Nat, i + k <= size PROVE Same(i, k)
  <2>1. i = 0 + i
    OBVIOUS
  <2> QED
    BY <1>1, <1>4, <2>1, FieldOfField DEF l
<1> HIDE DEF Same
<1>5. Same(0, 12) /\ Same(12, 2) /\ Same(14, size - 14)
  <2>1. size - 14 \in Nat /\ 14 + (size - 14) <= size
    BY <1>1, <1>3
  <2> QED
    BY <1>3, <1>4, <2>1
<1>6. ASSUME Type(b) = TypeARP PROVE Same(22, 10) /\ Same(32, 10)
  <2>1. size = 42
    BY <1>6 DEF Owes
  <2> QED
    BY <1>4, <2>1
<1>7. ASSUME Type(b) = TypeIPv4 PROVE size >= 34 /\ IPOwes(f, b, HeaderEnd(b), size - 34, ServerIP(c))
  <2>1. IPOwes(a, b, HeaderEnd(b), size - 34, ServerIP(c))
    BY <1>7 DEF Owes
  <2>2. size - 34 \in Nat /\ 34 + (size - 34) <= size
    BY <1>1, <1>3
  <2>3. Field(f, 14, size - 14) = Field(a, 14, size - 14)
    BY <1>5 DEF Same
  <2> DEFINE n == size - 34
  <2> HIDE DEF n
  <2>4. IPOwes(f, b, HeaderEnd(b), n, ServerIP(c))
    BY <1>1, <1>2, <2>1, <2>2, <2>3, IPOwesKept DEF n, l
  <2> QED
    BY <1>3, <2>4 DEF n
<1>8. Owes(f, b, size, c)
  <2>1. /\ Field(f, 0, 12) = Field(b, 6, 6) \o ServerMAC(c) /\ Field(f, 12, 2) = Field(b, 12, 2)
        /\ Type(b) \in {TypeARP, TypeIPv4}
    BY <1>5 DEF Owes, Same
  <2>2. Type(b) = TypeARP  => /\ size = 42
                              /\ Field(f, 22, 10) = ServerMAC(c) \o ServerIP(c)
                              /\ Field(f, 32, 10) = Field(b, 22, 10)
    BY <1>6 DEF Owes, Same
  <2> QED
    BY <1>7, <2>1, <2>2 DEF Owes
<1> QED
  BY <1>2, <1>3, <1>8

(* What WellFormed says of a frame.                                        *)
Sound(f) ==
  /\ f \in Seq(Byte) /\ Len(f) <= BufferSize
  /\ f # <<>> /\ IsIP(f) =>
       /\ Complete(f) /\ SumsUp(f, ETH, IP)
       /\ IsUDP(f) => U16(f, ETH + IP + 4) = Len(f) - ETH - IP
       /\ IsICMP(f) /\ Len(f) % 2 = 0 => SumsUp(f, ETH + IP, Len(f) - ETH - IP)

(* A frame with such a header announces its length and sums up.            *)
LEMMA HeadedComplete ==
  ASSUME NEW f, NEW size \in Nat, Bytes(f, size), 34 <= size, size <= BufferSize,
         NEW p, NEW src, NEW dst, Headed(f, p, size - 34, src, dst)
  PROVE  /\ U16(f, ETH + 2) = size - 14 /\ SumsUp(f, ETH, IP) /\ At(f, ETH + 9) = p
         /\ Field(f, ETH + 12, 4) = src /\ Field(f, ETH + 16, 4) = dst
<1>1. 20 + (size - 34) = size - 14 /\ size - 14 \in Nat /\ size - 14 <= WordMax /\ 16 + 2 <= size
  <2>1. BufferSize <= WordMax /\ BufferSize \in Nat /\ WordMax \in Nat
    BY Room, SMT DEF WordMax
  <2> QED
    BY <2>1
<1> DEFINE n == size - 14
<1>2. n \in Nat /\ n <= WordMax /\ Field(f, 16, 2) = BE16(n)
  BY <1>1 DEF Headed
<1> HIDE DEF n
<1>3. U16(f, 16) = n
  BY <1>1, <1>2, ReadBE16
<1>4. SumsUp(f, 14, 20)
  <2>1. SumIsRight(f, 14, 10) /\ 20 \div 2 = 10
    BY DEF Headed
  <2>2. Words(f, 14, 10) % WordMax = 0
    BY <2>1 DEF SumIsRight
  <2> QED
    BY <2>1, <2>2, SMT DEF SumsUp, WordMax
<1> QED
  BY <1>3, <1>4 DEF ETH, IP, Headed, n

LEMMA AnswerSound ==
  ASSUME NEW a, Bytes(a, BufferSize), NEW b, Bytes(b, BufferSize), NEW size \in 0 .. BufferSize, NEW c,
         size # 0 => Owes(a, b, size, c), NEW f, f = Field(a, 0, size)
  PROVE  Sound(f)
<1>1. size \in Nat /\ size <= BufferSize /\ BufferSize \in Nat /\ 0 + size <= BufferSize
  BY Room
<1>2. Bytes(f, size)
  BY <1>1, BytesField
<1>3. f \in Seq(Byte) /\ Len(f) = size
  BY <1>2 DEF Bytes
<1>4. SUFFICES ASSUME f # <<>>, IsIP(f)
               PROVE  /\ Complete(f) /\ SumsUp(f, ETH, IP)
                      /\ IsUDP(f) => U16(f, ETH + IP + 4) = Len(f) - ETH - IP
                      /\ IsICMP(f) => SumsUp(f, ETH + IP, Len(f) - ETH - IP)
  BY <1>1, <1>3 DEF Sound
<1>5. size # 0
  BY <1>3, <1>4, EmptySeq
<1>6. Owes(f, b, size, c) /\ 34 <= size
  BY <1>5, OwesKept
<1>7. Type(f) = Type(b)
  <2>1. Field(f, 12, 2) = Field(b, 12, 2)
    BY <1>6 DEF Owes
  <2>2. 12 + 2 <= size /\ 12 + 2 <= BufferSize
    BY <1>1, <1>6
  <2>3. U16(f, 12) = U16(b, 12)
    BY <1>1, <1>2, <2>1, <2>2, SameWord
  <2> QED
    BY <2>3 DEF Type
<1> DEFINE n == size - 34
<1>8. IPOwes(f, b, HeaderEnd(b), n, ServerIP(c))
  BY <1>4, <1>6, <1>7 DEF Owes, IsIP
<1>9. n \in Nat /\ size = 34 + n
  BY <1>1, <1>6
<1>10. Headed(f, At(b, 23), n, Field(f, 26, 4), Field(b, 26, 4))
  BY <1>8 DEF IPOwes
<1>11. U16(f, ETH + 2) = size - 14 /\ SumsUp(f, ETH, IP) /\ At(f, ETH + 9) = At(b, 23)
  BY <1>1, <1>2, <1>6, <1>10, HeadedComplete
<1> HIDE DEF n
<1>12. Complete(f)
  <2>1. 14 + (size - 14) = size
    BY <1>1
  <2> QED
    BY <1>3, <1>4, <1>11, <2>1 DEF Complete, ETH
<1>13. Len(f) - ETH - IP = n /\ ETH + IP + 4 = 38 /\ ETH + IP = 34
  BY <1>3, <1>9 DEF ETH, IP
<1>14. ASSUME IsUDP(f) PROVE U16(f, 38) = n
  <2>1. At(b, 23) = 17
    BY <1>11, <1>14 DEF IsUDP, ProtocolUDP
  <2>2. Field(f, 38, 2) = BE16(n) /\ 12 <= n
    BY <1>8, <2>1 DEF IPOwes, Served
  <2>3. 38 + 2 <= size /\ n <= WordMax
    <3>1. BufferSize <= WordMax /\ WordMax \in Nat
      BY Room, SMT DEF WordMax
    <3> QED
      BY <1>1, <1>9, <2>2, <3>1
  <2> QED
    BY <1>1, <1>2, <1>9, <2>2, <2>3, ReadBE16
<1>15. ASSUME IsICMP(f) PROVE SumsUp(f, 34, n)
  <2>1. At(b, 23) = 1
    BY <1>11, <1>15 DEF IsICMP, ProtocolICMP
  <2>2. SumIsRight(f, 34, n \div 2)
    BY <1>8, <2>1 DEF IPOwes, Echoed
  <2> QED
    BY <2>2, SMT DEF SumIsRight, SumsUp, WordMax
<1> QED
  BY <1>11, <1>12, <1>13, <1>14, <1>15

-----------------------------------------------------------------------------
(* The packets of Extras_Task: headers in front of a payload of n bytes.   *)

(* The headers that go in front: from the MAC address o to a, from the     *)
(* port f to p.                                                            *)
HeadersOf(a, o, h, f, p, n) ==
  a \o o \o BE16(TypeIPv4) \o h \o f \o p \o BE16(n) \o <<0, 0>>

LEMMA HeadersMade ==
  ASSUME NEW a, Bytes(a, 6), NEW o, Bytes(o, 6), NEW h, Bytes(h, 20), NEW f, Bytes(f, 2),
         NEW p, Bytes(p, 2), NEW n \in Nat, NEW s, s = HeadersOf(a, o, h, f, p, n)
  PROVE  /\ Bytes(s, 42) /\ Field(s, 0, 6) = a /\ Field(s, 12, 2) = BE16(TypeIPv4)
         /\ Field(s, 14, 20) = h /\ Field(s, 34, 2) = f /\ Field(s, 36, 2) = p
         /\ Field(s, 38, 2) = BE16(n)
<1> DEFINE t == BE16(TypeIPv4)
           z == <<0, 0>>
           u == BE16(n)
           s1 == a \o o
           s2 == s1 \o t
           s3 == s2 \o h
           s4 == s3 \o f
           s5 == s4 \o p
           s6 == s5 \o u
<1>2. Bytes(t, 2) /\ Bytes(z, 2) /\ Bytes(u, 2)
  <2>1. TypeIPv4 \in Int
    BY SMT DEF TypeIPv4
  <2>2. Bytes(z, 2)
    BY DEF Bytes, Byte
  <2> QED
    BY <2>1, <2>2, BytesBE16
<1>3. s = s6 \o z
  BY DEF HeadersOf
<1> HIDE DEF t, z, u
<1>4. Bytes(s1, 12) /\ Field(s1, 0, 6) = a
  <2>1. Bytes(s1, 12) /\ Keeps(s1, a, 6)
    <3>1. Bytes(s1, 12)
      BY BytesCat
    <3>2. Keeps(s1, a, 6)
      BY CatLast
    <3> QED
      BY <3>1, <3>2
  <2>2. Field(s1, 0, 6) = Field(a, 0, 6)
    BY <2>1 DEF Keeps
  <2> QED
    BY <2>1, <2>2, WholeField
<1> HIDE DEF s1
<1>5. Bytes(s2, 14) /\ Field(s2, 12, 2) = t /\ Keeps(s2, s1, 12)
  <2>1. Bytes(s2, 14)
    BY <1>2, <1>4, BytesCat
  <2>2. Field(s2, 12, 2) = t /\ Keeps(s2, s1, 12)
    BY <1>2, <1>4, CatLast
  <2> QED
    BY <2>1, <2>2
<1> HIDE DEF s2
<1>6. Bytes(s3, 34) /\ Field(s3, 14, 20) = h /\ Keeps(s3, s2, 14)
  <2>1. Bytes(s3, 34)
    BY <1>5, BytesCat
  <2>2. Field(s3, 14, 20) = h /\ Keeps(s3, s2, 14)
    BY <1>5, CatLast
  <2> QED
    BY <2>1, <2>2
<1> HIDE DEF s3
<1>7. Bytes(s4, 36) /\ Field(s4, 34, 2) = f /\ Keeps(s4, s3, 34)
  <2>1. Bytes(s4, 36)
    BY <1>2, <1>6, BytesCat
  <2>2. Field(s4, 34, 2) = f /\ Keeps(s4, s3, 34)
    BY <1>2, <1>6, CatLast
  <2> QED
    BY <2>1, <2>2
<1> HIDE DEF s4
<1>8. Bytes(s5, 38) /\ Field(s5, 36, 2) = p /\ Keeps(s5, s4, 36)
  <2>1. Bytes(s5, 38)
    BY <1>2, <1>7, BytesCat
  <2>2. Field(s5, 36, 2) = p /\ Keeps(s5, s4, 36)
    BY <1>2, <1>7, CatLast
  <2> QED
    BY <2>1, <2>2
<1> HIDE DEF s5
<1>9. Bytes(s6, 40) /\ Field(s6, 38, 2) = u /\ Keeps(s6, s5, 38)
  <2>1. Bytes(s6, 40)
    BY <1>2, <1>8, BytesCat
  <2>2. Field(s6, 38, 2) = u /\ Keeps(s6, s5, 38)
    BY <1>2, <1>8, CatLast
  <2> QED
    BY <2>1, <2>2
<1> HIDE DEF s6
<1>10. Bytes(s, 42) /\ Keeps(s, s6, 40)
  <2>1. Bytes(s, 42)
    BY <1>2, <1>3, <1>9, BytesCat
  <2>2. Keeps(s, s6, 40)
    BY <1>2, <1>3, <1>9, CatLast
  <2> QED
    BY <2>1, <2>2
<1>11. Field(s, 38, 2) = u
  BY <1>9, <1>10 DEF Keeps
<1>12. Field(s, 36, 2) = p
  BY <1>8, <1>9, <1>10 DEF Keeps
<1>16. Field(s, 34, 2) = f
  <2>1. Field(s, 34, 2) = Field(s5, 34, 2)
    BY <1>9, <1>10 DEF Keeps
  <2>2. Field(s5, 34, 2) = Field(s4, 34, 2)
    BY <1>8 DEF Keeps
  <2> QED
    BY <1>7, <2>1, <2>2
<1>13. Field(s, 14, 20) = h
  <2>1. Field(s, 14, 20) = Field(s5, 14, 20)
    BY <1>9, <1>10 DEF Keeps
  <2>2. Field(s5, 14, 20) = Field(s3, 14, 20)
    BY <1>7, <1>8 DEF Keeps
  <2> QED
    BY <1>6, <2>1, <2>2
<1>14. /\ Field(s, 0, 6) = Field(s3, 0, 6) /\ Field(s, 12, 2) = Field(s3, 12, 2)
  <2>1. Field(s, 0, 6) = Field(s5, 0, 6) /\ Field(s, 12, 2) = Field(s5, 12, 2)
    BY <1>9, <1>10 DEF Keeps
  <2>2. Field(s5, 0, 6) = Field(s3, 0, 6) /\ Field(s5, 12, 2) = Field(s3, 12, 2)
    BY <1>7, <1>8 DEF Keeps
  <2> QED
    BY <2>1, <2>2
<1>15. Field(s3, 0, 6) = a /\ Field(s3, 12, 2) = t
  BY <1>4, <1>5, <1>6 DEF Keeps
<1> QED
  BY <1>10, <1>11, <1>12, <1>13, <1>14, <1>15, <1>16 DEF t, u

(* The headers of a notice.                                                *)
FrontHeaders(h, port, n) ==
  HeadersOf(AdapterMAC(config), ServerMAC(config), h, <<0, 0>>, BE16(port), n)

LEMMA FrontMade ==
  ASSUME config \in Configs, NEW h, Bytes(h, 20), NEW port \in Nat, NEW n \in Nat,
         NEW s, s = FrontHeaders(h, port, n)
  PROVE  /\ Bytes(s, 42) /\ Field(s, 0, 6) = AdapterMAC(config) /\ Field(s, 12, 2) = BE16(TypeIPv4)
         /\ Field(s, 14, 20) = h /\ Field(s, 36, 2) = BE16(port) /\ Field(s, 38, 2) = BE16(n)
<1>1. Bytes(AdapterMAC(config), 6) /\ Bytes(ServerMAC(config), 6)
  BY ConfigFields DEF Bytes
<1>2. Bytes(<<0, 0>>, 2)
  BY DEF Bytes, Byte
<1>3. Bytes(BE16(port), 2)
  BY BytesBE16
<1> QED
  BY <1>1, <1>2, <1>3, HeadersMade DEF FrontHeaders

LEMMA NoticeMade ==
  ASSUME config \in Configs, NEW b, Bytes(b, BufferSize), NEW n \in {6, 10}, NEW payload, Bytes(payload, n),
         NEW c, c = Finalize(Put(b, 42, payload), n), NEW f, f = Field(c, 0, 42 + n)
  PROVE  /\ Bytes(c, BufferSize) /\ Bytes(f, 42 + n) /\ Sound(f)
         /\ Field(f, 0, 6) = AdapterMAC(config) /\ Field(f, 30, 4) = TargetIP(config)
         /\ U16(f, 36) = ConfigPort(config, TPORT) /\ Field(f, 42, n) = payload
<1> DEFINE l == BufferSize
           port == ConfigPort(config, TPORT)
           src == ServerIP(config)
           dst == TargetIP(config)
           h == IPHeader(17, 8 + n, src, dst)
           s == FrontHeaders(h, port, 8 + n)
           u == Put(b, 42, payload)
           v == Put(u, 0, s)
           k == 42 + n
<1>1. /\ l \in Nat /\ 92 <= l /\ 42 + n <= l /\ n \in Nat /\ k \in Nat /\ k <= l /\ 0 + 42 <= l
      /\ 8 + n \in Nat /\ 6 <= n /\ n <= 10 /\ 34 <= l /\ 34 <= k /\ 0 + k <= l /\ l <= WordMax
  BY Room
<1>2. port \in Nat /\ port <= WordMax
  <2>1. config[5] \in Byte /\ config[6] \in Byte
    BY ConfigFields DEF ConfigLength
  <2> DEFINE x == config[6]
             y == config[5]
  <2>2. port = x * 256 + y
    <3>1. TPORT + 1 = 5 /\ TPORT + 1 + 1 = 6
      BY DEF TPORT
    <3>2. At(config, TPORT) = y /\ At(config, TPORT + 1) = x
      BY <3>1 DEF At
    <3>3. x \in 0 .. 255 /\ y \in 0 .. 255
      BY <2>1 DEF Byte
    <3> HIDE DEF x, y
    <3> QED
      BY <3>2, <3>3 DEF ConfigPort
  <2> HIDE DEF port, x, y
  <2>3. x \in 0 .. 255 /\ y \in 0 .. 255
    BY ONLY <2>1 DEF x, y, Byte
  <2>4. x * 256 + y <= WordMax
    BY ONLY <2>3, SMT DEF WordMax
  <2> QED
    BY <2>2, <2>3, <2>4
<1>3. Bytes(src, 4) /\ Bytes(dst, 4)
  BY ConfigFields DEF Bytes
<1>4. c = WithChecksum(v)
  <2>1. ETH + IP + UDP = 42 /\ UDP = 8 /\ ProtocolUDP = 17
    BY DEF ETH, IP, UDP, ProtocolUDP
  <2> QED
    BY <2>1 DEF Finalize, FrontHeaders, HeadersOf
<1> HIDE DEF port, src, dst, l, k
<1>5. Bytes(h, 20)
  <2>1. 17 \in Byte
    BY DEF Byte
  <2> QED
    BY <1>1, <1>3, <2>1, HeaderBytes
<1> HIDE DEF h
<1>6. /\ Bytes(s, 42) /\ Field(s, 0, 6) = AdapterMAC(config) /\ Field(s, 12, 2) = BE16(TypeIPv4)
      /\ Field(s, 14, 20) = h /\ Field(s, 36, 2) = BE16(port) /\ Field(s, 38, 2) = BE16(8 + n)
  BY <1>1, <1>2, <1>5, FrontMade
<1> HIDE DEF s
<1>7. Bytes(u, l)
  BY <1>1, BytesPut DEF l
<1>8. Field(u, 42, n) = payload
  <2>1. Field(u, 42, n) = Field(payload, 0, n)
    BY <1>1, PutInside DEF l
  <2> QED
    BY <1>1, <2>1, WholeField
<1> HIDE DEF u
<1>9. Bytes(v, l)
  BY <1>1, <1>6, <1>7, BytesPut
<1>10. /\ Field(v, 0, 6) = Field(s, 0, 6) /\ Field(v, 12, 2) = Field(s, 12, 2)
       /\ Field(v, 14, 20) = Field(s, 14, 20) /\ Field(v, 36, 2) = Field(s, 36, 2)
       /\ Field(v, 38, 2) = Field(s, 38, 2)
  <2> DEFINE Same(i, j) == Field(v, i, j) = Field(s, i, j)
  <2>1. ASSUME NEW i \in Nat, NEW j \in Nat, i + j <= 42 PROVE Same(i, j)
    <3>1. i = 0 + i
      OBVIOUS
    <3> QED
      BY <1>1, <1>6, <1>7, <2>1, <3>1, PutInside
  <2> HIDE DEF Same
  <2>2. Same(0, 6) /\ Same(12, 2) /\ Same(14, 20) /\ Same(36, 2) /\ Same(38, 2)
    BY <2>1
  <2> QED
    BY <2>2 DEF Same
<1>11. Field(v, 42, n) = Field(u, 42, n)
  <2>1. 42 + n <= l /\ 0 + 42 <= 42
    BY <1>1
  <2> QED
    BY <1>1, <1>6, <1>7, <2>1, PutOutside
<1> HIDE DEF v
<1>12. Bytes(c, l) /\ Headed(c, 17, 8 + n, src, dst)
  <2>1. 17 \in Byte
    BY DEF Byte
  <2>2. Field(v, 14, 20) = IPHeader(17, 8 + n, src, dst)
    BY <1>6, <1>10 DEF h
  <2>3. /\ Bytes(c, l) /\ SumIsRight(c, 14, 10)
        /\ At(c, 14) = 69 /\ At(c, 23) = 17 /\ Field(c, 16, 2) = BE16(IP + (8 + n))
        /\ Field(c, 26, 4) = src /\ Field(c, 30, 4) = dst
    BY <1>1, <1>3, <1>4, <1>9, <2>1, <2>2, Checksummed
  <2> QED
    BY <2>3 DEF Headed, IP
<1>13. /\ Field(c, 0, 6) = Field(v, 0, 6) /\ Field(c, 12, 2) = Field(v, 12, 2)
       /\ Field(c, 36, 2) = Field(v, 36, 2) /\ Field(c, 38, 2) = Field(v, 38, 2)
       /\ Field(c, 42, n) = Field(v, 42, n)
  <2> DEFINE Same(i, j) == Field(c, i, j) = Field(v, i, j)
  <2>1. ASSUME NEW i \in Nat, NEW j \in Nat, i + j <= l, i + j <= 24 \/ 26 <= i PROVE Same(i, j)
    BY <1>1, <1>4, <1>9, <2>1, ChecksumOutside
  <2>2. 0 + 6 <= l /\ 12 + 2 <= l /\ 36 + 2 <= l /\ 38 + 2 <= l /\ 42 + n <= l
    BY <1>1
  <2> HIDE DEF Same
  <2>3. Same(0, 6) /\ Same(12, 2) /\ Same(36, 2) /\ Same(38, 2) /\ Same(42, n)
    BY <1>1, <2>1, <2>2
  <2> QED
    BY <2>3 DEF Same
<1>14. Bytes(f, k)
  BY <1>1, <1>12, BytesField DEF k
<1>15. /\ Field(f, 0, 6) = Field(c, 0, 6) /\ Field(f, 12, 2) = Field(c, 12, 2)
       /\ Field(f, 14, 20) = Field(c, 14, 20) /\ Field(f, 30, 4) = Field(c, 30, 4)
       /\ Field(f, 36, 2) = Field(c, 36, 2)
       /\ Field(f, 38, 2) = Field(c, 38, 2) /\ Field(f, 42, n) = Field(c, 42, n)
  <2> DEFINE Same(i, j) == Field(f, i, j) = Field(c, i, j)
  <2>1. ASSUME NEW i \in Nat, NEW j \in Nat, i + j <= k PROVE Same(i, j)
    <3>1. i = 0 + i
      OBVIOUS
    <3>2. f = Field(c, 0, k)
      BY DEF k
    <3> QED
      BY <1>1, <1>12, <2>1, <3>1, <3>2, FieldOfField
  <2>2. /\ 0 + 6 <= k /\ 12 + 2 <= k /\ 14 + 20 <= k /\ 30 + 4 <= k /\ 36 + 2 <= k /\ 38 + 2 <= k
        /\ 42 + n <= k
    BY <1>1 DEF k
  <2> HIDE DEF Same
  <2>3. Same(0, 6) /\ Same(12, 2) /\ Same(14, 20) /\ Same(30, 4) /\ Same(36, 2) /\ Same(38, 2) /\ Same(42, n)
    BY <1>1, <2>1, <2>2
  <2> QED
    BY <2>3 DEF Same
<1>16. Headed(f, 17, 8 + n, src, dst)
  BY <1>1, <1>12, <1>14, <1>15, HeadedKept
<1>17. U16(f, 12) = TypeIPv4 /\ U16(f, 36) = port /\ U16(f, 38) = 8 + n
  <2>1. TypeIPv4 \in Nat /\ TypeIPv4 <= WordMax /\ 8 + n <= WordMax
    BY <1>1, SMT DEF TypeIPv4, WordMax
  <2>2. 12 + 2 <= k /\ 36 + 2 <= k /\ 38 + 2 <= k
    BY <1>1 DEF k
  <2>3. /\ Field(f, 12, 2) = BE16(TypeIPv4) /\ Field(f, 36, 2) = BE16(port)
        /\ Field(f, 38, 2) = BE16(8 + n)
    BY <1>6, <1>10, <1>13, <1>15
  <2>4. U16(f, 12) = TypeIPv4
    BY <1>1, <1>14, <2>1, <2>2, <2>3, ReadBE16
  <2>5. U16(f, 36) = port
    BY <1>1, <1>2, <1>14, <2>2, <2>3, ReadBE16
  <2>6. U16(f, 38) = 8 + n
    BY <1>1, <1>14, <2>1, <2>2, <2>3, ReadBE16
  <2> QED
    BY <2>4, <2>5, <2>6
<1>18. U16(f, ETH + 2) = k - 14 /\ SumsUp(f, ETH, IP) /\ At(f, ETH + 9) = 17
  <2>1. k - 34 = 8 + n
    BY <1>1 DEF k
  <2>2. Headed(f, 17, k - 34, src, dst)
    BY <1>16, <2>1
  <2> QED
    BY <1>1, <1>14, <2>2, HeadedComplete DEF l
<1>19. Sound(f)
  <2>1. f \in Seq(Byte) /\ Len(f) = k
    BY <1>14 DEF Bytes
  <2>2. Complete(f)
    <3>1. 14 + (k - 14) = k
      BY <1>1
    <3> QED
      BY <1>17, <1>18, <2>1, <3>1 DEF Complete, IsIP, Type, ETH
  <2>3. U16(f, ETH + IP + 4) = Len(f) - ETH - IP
    <3>1. ETH + IP + 4 = 38 /\ k - ETH - IP = 8 + n
      BY <1>1 DEF ETH, IP, k
    <3> QED
      BY <1>17, <2>1, <3>1
  <2>4. ~IsICMP(f)
    <3>1. 17 # 1
      OBVIOUS
    <3> QED
      BY <1>18, <3>1 DEF IsICMP, ProtocolICMP
  <2> QED
    BY <1>1, <1>18, <2>1, <2>2, <2>3, <2>4 DEF Sound, l
<1>20. Field(f, 0, 6) = AdapterMAC(config) /\ Field(f, 30, 4) = dst /\ Field(f, 42, n) = payload
  BY <1>6, <1>8, <1>10, <1>11, <1>13, <1>15, <1>16 DEF Headed
<1> QED
  BY <1>12, <1>14, <1>17, <1>19, <1>20 DEF l, k, port, dst

-----------------------------------------------------------------------------
(* The frame q stands at the front of the buffer b.                        *)
InFront(q, b) ==
  /\ WellMade(q) /\ Bytes(b, BufferSize) /\ Field(b, 0, Len(q)) = q /\ FrameLength = Len(q)

LEMMA FrontField ==
  ASSUME NEW q, NEW b, InFront(q, b), NEW i \in Nat, NEW k \in Nat, i + k <= Len(q)
  PROVE  Field(b, i, k) = Field(q, i, k)
<1> DEFINE l == Len(q)
<1>1. l \in Nat /\ 0 + l <= BufferSize /\ BufferSize \in Nat
  BY Room DEF InFront, WellMade, ETH
<1>2. Field(b, 0, l) = q /\ Bytes(b, BufferSize) /\ i + k <= l /\ i = 0 + i
  BY DEF InFront
<1> HIDE DEF l
<1>3. Field(Field(b, 0, l), i, k) = Field(b, i, k)
  BY <1>1, <1>2, FieldOfField
<1> QED
  BY <1>2, <1>3

LEMMA FrontMakes ==
  ASSUME NEW q, NEW b, InFront(q, b)
  PROVE  /\ Bytes(q, Len(q)) /\ Len(q) \in 14 .. BufferSize /\ Type(b) = Type(q)
         /\ Type(b) = TypeIPv4 => Framed(b, FrameLength)
         /\ IsIP(q) => /\ 34 <= Len(q) /\ At(b, 14) = At(q, 14) /\ At(b, 23) = At(q, 23)
                       /\ HeaderEnd(b) = HeaderEnd(q)
<1> DEFINE l == Len(q)
<1>1. l \in 14 .. BufferSize /\ l \in Nat /\ Bytes(q, l) /\ (IsIP(q) => 34 <= l)
  <2>1. ETH = 14 /\ ETH + IP = 34
    BY DEF ETH, IP
  <2> QED
    BY <2>1, Room DEF InFront, WellMade, Bytes
<1>2. Bytes(b, BufferSize) /\ BufferSize \in Nat /\ 92 <= BufferSize /\ FrameLength = l
  BY Room DEF InFront
<1>3. Type(b) = Type(q)
  <2>1. 12 + 2 <= l /\ 12 + 2 <= BufferSize
    BY <1>1, <1>2
  <2>2. Field(b, 12, 2) = Field(q, 12, 2)
    BY <2>1, FrontField
  <2>3. U16(b, 12) = U16(q, 12)
    BY <1>1, <1>2, <2>1, <2>2, SameWord
  <2> QED
    BY <2>3 DEF Type
<1>4. ASSUME IsIP(q) PROVE At(b, 14) = At(q, 14) /\ At(b, 23) = At(q, 23)
  <2>1. 14 + 1 <= l /\ 23 + 1 <= l /\ 14 + 1 <= BufferSize /\ 23 + 1 <= BufferSize
    BY <1>1, <1>2, <1>4
  <2>2. Field(b, 14, 1) = Field(q, 14, 1) /\ Field(b, 23, 1) = Field(q, 23, 1)
    BY <2>1, FrontField
  <2> QED
    BY <1>1, <1>2, <2>1, <2>2, SameByte
<1>5. IsIP(q) => HeaderEnd(b) = HeaderEnd(q)
  BY <1>4 DEF HeaderEnd, ETH
<1>6. ASSUME Type(b) = TypeIPv4 PROVE Framed(b, FrameLength)
  <2>1. IsIP(q)
    BY <1>3, <1>6 DEF IsIP
  <2>2. FrameLength \in ETH .. BufferSize
    BY <1>1, <1>2 DEF ETH
  <2>3. ASSUME At(b, 23) = 1 PROVE At(b, 14) % 16 >= 5 /\ FrameLength >= HeaderEnd(b) + 8
    <3>1. IsICMP(q)
      BY <1>4, <2>1, <2>3 DEF IsICMP, ProtocolICMP, ETH
    <3>2. At(q, ETH) % 16 >= 5 /\ Len(q) >= HeaderEnd(q) + 8
      BY <3>1 DEF InFront, WellMade, ICMP
    <3>3. At(q, ETH) = At(q, 14)
      BY DEF ETH
    <3> QED
      BY <1>2, <1>4, <1>5, <2>1, <3>2, <3>3
  <2> QED
    BY <2>2, <2>3 DEF Framed
<1> QED
  BY <1>1, <1>3, <1>4, <1>5, <1>6

(* What AnswersGoBack says of an answer to q under the configuration c.    *)
GoesBack(a, q, c) ==
  /\ Field(a, 0, 12) = Field(q, 6, 6) \o ServerMAC(c) /\ Type(a) = Type(q)
  /\ IsIP(q)   => Field(a, 30, 4) = Field(q, 26, 4)
  /\ ~IsIP(q)  => /\ Field(a, 22, 10) = ServerMAC(c) \o ServerIP(c)
                  /\ Field(a, 32, 10) = Field(q, 22, 10)
  /\ IsICMP(q) => ICMPAnswers(a, q)
  /\ IsUDP(q)  =>
       /\ Field(a, 26, 4) = ServerIP(c)
       /\ Plain(q) /\ Len(q) >= 42 => /\ Field(a, 34, 2) = Field(q, 36, 2)
                                      /\ Field(a, 36, 2) = Field(q, 34, 2)
       /\ Plain(q) /\ Len(q) >= 44 => Field(a, 42, 2) = Field(q, 42, 2)

LEMMA AnswerGoesBack ==
  ASSUME NEW q, NEW b, InFront(q, b), Complete(q), NEW size \in Nat, NEW a, Bytes(a, size), 34 <= size,
         NEW c, Owes(a, b, size, c)
  PROVE  GoesBack(a, q, c)
<1> DEFINE l == Len(q)
<1>1. l \in Nat /\ 14 <= l /\ Bytes(q, l) /\ Type(b) = Type(q) /\ FrameLength = l
  BY FrontMakes, Room DEF InFront
<1>2. IsIP(q) => /\ 34 <= l /\ At(b, 14) = At(q, 14) /\ At(b, 23) = At(q, 23)
                 /\ HeaderEnd(b) = HeaderEnd(q)
  BY FrontMakes
<1>3. Bytes(b, BufferSize) /\ BufferSize \in Nat /\ 92 <= BufferSize
  BY Room DEF InFront
<1> HIDE DEF l
<1> DEFINE Same(i, k) == Field(b, i, k) = Field(q, i, k)
<1>4. ASSUME NEW i \in Nat, NEW k \in Nat, i + k <= l PROVE Same(i, k)
  BY <1>4, FrontField DEF l
<1> HIDE DEF Same
<1>5. Field(a, 0, 12) = Field(q, 6, 6) \o ServerMAC(c)
  <2>1. Same(6, 6)
    BY <1>1, <1>4
  <2> QED
    BY <2>1 DEF Same, Owes
<1>6. Type(a) = Type(q)
  <2>1. Field(a, 12, 2) = Field(b, 12, 2)
    BY DEF Owes
  <2>2. 12 + 2 <= size /\ 12 + 2 <= BufferSize
    BY <1>3
  <2>3. U16(a, 12) = U16(b, 12)
    BY <1>3, <2>1, <2>2, SameWord
  <2> QED
    BY <1>1, <2>3 DEF Type
<1> DEFINE n == size - 34
           in == HeaderEnd(q)
<1>7. ASSUME IsIP(q) PROVE IPOwes(a, b, in, n, ServerIP(c))
  BY <1>1, <1>2, <1>7 DEF Owes, IsIP
<1>8. ASSUME IsIP(q) PROVE Field(a, 30, 4) = Field(q, 26, 4)
  <2>1. Same(26, 4)
    BY <1>1, <1>2, <1>4, <1>8
  <2> QED
    BY <1>7, <1>8, <2>1 DEF IPOwes, Headed, Same
<1>9. ASSUME ~IsIP(q)
      PROVE  Field(a, 22, 10) = ServerMAC(c) \o ServerIP(c) /\ Field(a, 32, 10) = Field(q, 22, 10)
  <2>1. l >= 42
    BY <1>9 DEF Complete, ETH, ARP, l
  <2>2. Type(b) = TypeARP
    BY <1>1, <1>9 DEF Owes, IsIP
  <2>3. Same(22, 10)
    BY <1>1, <1>4, <2>1
  <2> QED
    BY <2>2, <2>3 DEF Same, Owes
<1>10. IsIP(q) => in \in 14 .. 74 /\ (At(b, 14) % 16 >= 5 => in >= 34) /\ (At(b, 14) = 69 => in = 34)
  <2>1. /\ HeaderEnd(b) \in 14 .. 74 /\ (At(b, 14) % 16 >= 5 => HeaderEnd(b) >= 34)
        /\ (At(b, 14) = 69 => HeaderEnd(b) = 34)
    BY <1>3, HeaderEndIs
  <2> QED
    BY <1>2, <2>1
<1> HIDE DEF n, in
<1>11. ASSUME IsICMP(q) PROVE ICMPAnswers(a, q)
  <2>1. IsIP(q) /\ At(b, 23) = 1
    BY <1>2, <1>11 DEF IsICMP, ETH, ProtocolICMP
  <2>2. 8 <= n /\ in + n = l /\ Echoed(a, b, in, n)
    BY <1>1, <1>7, <2>1 DEF IPOwes
  <2>3. n \in Nat
    BY <2>2 DEF n
  <2>4. Same(in + 4, n - 4)
    <3>1. in + 4 \in Nat /\ n - 4 \in Nat /\ in + 4 + (n - 4) <= l
      BY <1>10, <2>1, <2>2, <2>3
    <3> QED
      BY <1>4, <3>1
  <2>5. (IF Plain(q) THEN ETH + IP ELSE HeaderEnd(q)) = in
    <3>1. Plain(q) => in = 34
      BY <1>2, <1>10, <2>1 DEF Plain, ETH
    <3>2. ETH + IP = 34
      BY DEF ETH, IP
    <3> QED
      BY <3>1, <3>2 DEF in
  <2>6. Len(q) - in = n
    <3>1. l - in = n
      BY <1>1, <1>10, <2>1, <2>2, <2>3
    <3> QED
      BY <3>1 DEF l
  <2>7. At(a, 34) = EchoReply /\ Field(a, 38, n - 4) = Field(q, in + 4, n - 4)
    BY <2>2, <2>4 DEF Echoed, Same
  <2>8. ETH + IP = 34 /\ ETH + IP + 4 = 38
    BY DEF ETH, IP
  <2> QED
    BY <2>5, <2>6, <2>7, <2>8 DEF ICMPAnswers
<1>12. ASSUME IsUDP(q)
       PROVE  /\ Field(a, 26, 4) = ServerIP(c)
              /\ Plain(q) /\ Len(q) >= 42 => /\ Field(a, 34, 2) = Field(q, 36, 2)
                                             /\ Field(a, 36, 2) = Field(q, 34, 2)
              /\ Plain(q) /\ Len(q) >= 44 => Field(a, 42, 2) = Field(q, 42, 2)
  <2>1. IsIP(q) /\ At(b, 23) = 17
    BY <1>2, <1>12 DEF IsUDP, ETH, ProtocolUDP
  <2>2. Served(a, b, in, n) /\ Field(a, 26, 4) = ServerIP(c)
    BY <1>7, <2>1 DEF IPOwes
  <2>3. Plain(q) => in = 34
    BY <1>2, <1>10, <2>1 DEF Plain, ETH
  <2>4. l >= 42 => Same(34, 2) /\ Same(36, 2)
    BY <1>1, <1>4
  <2>5. l >= 44 => Same(42, 2)
    BY <1>1, <1>4
  <2> QED
    BY <2>2, <2>3, <2>4, <2>5 DEF Served, Same, l
<1> QED
  BY <1>5, <1>6, <1>8, <1>9, <1>11, <1>12 DEF GoesBack

-----------------------------------------------------------------------------
(* The invariant that the theorems rest on.  Types first: the buffer keeps *)
(* its length, and every step leaves bytes in it.                          *)
Typed ==
  /\ pc \in {"idle", "process", "extras"} /\ buffer \in Buffers /\ FrameLength \in 0 .. BufferSize
  /\ config \in Configs /\ extra \in ExtraSet /\ clock \in 0 .. MaxClock /\ frames \in Nat
  /\ arrived \in Seq(Byte) /\ answer \in Seq(Byte) /\ notice \in Seq(Byte)

(* The interfaces of a frame, under the configuration c.                   *)
DestinationOf(f, c) ==
  LET dst == Field(f, 0, 6)
  IN CASE dst = ServerMAC(c)  -> If_INTERNAL
       [] dst = BroadcastMAC  -> If_INTERNAL + If_CC1101
       [] OTHER               -> If_CC1101

(* What one part of a round leaves to the next: the frame that arrived is  *)
(* still in front when it is processed, and the notice that is pending     *)
(* names its interfaces under the configuration the processing has left.   *)
Round ==
  /\ pc = "process" => InFront(arrived, buffer)
  /\ pc = "extras" /\ extra.flag = "PACKET" =>
       extra.arg = 16 * If_RNDIS + DestinationOf(arrived, config)
  /\ pc # "idle" => notice = <<>>

Invariant == Typed /\ Round /\ AnswersGoBack /\ WellFormed /\ NoticeNamesFrame

LEMMA DestinationIs ==
  ASSUME NEW f, NEW c
  PROVE  DestinationOf(f, c) \in {2, 8, 10}
BY DEF DestinationOf, If_INTERNAL, If_CC1101

LEMMA SoundEmpty == Sound(<<>>)
<1>1. <<>> \in Seq(Byte) /\ Len(<<>>) <= BufferSize
  BY Room
<1> QED
  BY <1>1 DEF Sound

(* The processing of the frame that arrived.                               *)
LEMMA Processed ==
  ASSUME Typed, Round, Process
  PROVE  \E r \in Machines :
           /\ buffer' = r.buffer /\ config' = r.config /\ extra' = r.extra
           /\ FrameLength' = (IF r.size > 0 THEN r.size ELSE FrameLength)
           /\ answer' = Field(r.buffer, 0, r.size)
           /\ r.extra.flag = "PACKET" =>
                r.extra.arg = 16 * If_RNDIS + DestinationOf(arrived, r.config)
           /\ r.size # 0 => Owes(r.buffer, buffer, r.size, r.config)
           /\ Acted(r.size # 0 /\ IsUDP(arrived), buffer, HeaderEnd(buffer) + 8, r)
<1> DEFINE arg == 16 * If_RNDIS + Destination
           m == [Machine EXCEPT !.extra = [flag |-> "PACKET", arg |-> arg]]
           e == EthernetReply(m)
           r == IF Destination = If_CC1101 THEN m ELSE e
<1>1. InFront(arrived, buffer)
  BY DEF Round, Process
<1>2. Destination = DestinationOf(arrived, config)
  <2>1. 0 + 6 <= Len(arrived)
    BY <1>1, FrontMakes
  <2>2. Field(buffer, 0, 6) = Field(arrived, 0, 6)
    BY <1>1, <2>1, FrontField
  <2> QED
    BY <2>2 DEF Destination, DestinationOf
<1>3. arg \in Byte
  BY <1>2, DestinationIs DEF If_RNDIS, Byte
<1> HIDE DEF arg
<1>4. m \in Machines /\ m.size = 0 /\ m.buffer = buffer /\ m.config = config
      /\ m.extra = [flag |-> "PACKET", arg |-> arg]
  <2>1. [flag |-> "PACKET", arg |-> arg] \in ExtraSet
    BY <1>3 DEF ExtraSet, Extras
  <2>2. Machine = [buffer |-> buffer, config |-> config, extra |-> extra, size |-> 0]
    BY DEF Machine
  <2>3. m = [buffer |-> buffer, config |-> config, extra |-> [flag |-> "PACKET", arg |-> arg], size |-> 0]
    BY <2>2
  <2>4. 0 \in 0 .. BufferSize
    BY Room
  <2> QED
    BY <2>1, <2>3, <2>4 DEF Machines, Typed
<1> HIDE DEF m
<1>5. /\ e \in Machines /\ NoticeStays(m, e) /\ (e.size # 0 => Owes(e.buffer, buffer, e.size, e.config))
      /\ Acted(e.size # 0 /\ Type(buffer) = TypeIPv4 /\ At(buffer, 23) = 17, buffer,
               HeaderEnd(buffer) + 8, e)
  <2>1. Type(buffer) = TypeIPv4 => Framed(buffer, FrameLength)
    BY <1>1, FrontMakes
  <2>2. clock \in Nat
    BY BoundsAssumption DEF Typed
  <2> QED
    BY <1>4, <2>1, <2>2, EthernetMade
<1>6. NoticeStays(m, m)
  BY DEF NoticeStays
<1>7. Leaves(r)
  BY DEF Process, m, arg
<1> HIDE DEF e
<1>8. r \in Machines /\ NoticeStays(m, r) /\ (r.size # 0 => Owes(r.buffer, buffer, r.size, r.config))
  BY <1>4, <1>5, <1>6
<1>10. Acted(r.size # 0 /\ IsUDP(arrived), buffer, HeaderEnd(buffer) + 8, r)
  <2>1. IsUDP(arrived) <=> Type(buffer) = TypeIPv4 /\ At(buffer, 23) = 17
    <3>1. ETH + 9 = 23 /\ ProtocolUDP = 17
      BY DEF ETH, ProtocolUDP
    <3> QED
      BY <1>1, <3>1, FrontMakes DEF IsUDP, IsIP
  <2>2. CASE Destination = If_CC1101
    <3>1. r = m
      BY <2>2
    <3> HIDE DEF r
    <3> QED
      BY <1>4, <3>1 DEF Acted
  <2>3. CASE Destination # If_CC1101
    <3>1. r = e
      BY <2>3
    <3> HIDE DEF r
    <3> QED
      BY <1>5, <2>1, <3>1 DEF Acted, Effect
  <2> QED
    BY <2>2, <2>3
<1> HIDE DEF r
<1>9. ASSUME r.extra.flag = "PACKET"
      PROVE  r.extra.arg = 16 * If_RNDIS + DestinationOf(arrived, r.config)
  <2>1. r.extra = m.extra /\ ServerMAC(r.config) = ServerMAC(config)
    BY <1>4, <1>8, <1>9 DEF NoticeStays
  <2>2. DestinationOf(arrived, r.config) = DestinationOf(arrived, config)
    BY <2>1 DEF DestinationOf
  <2> QED
    BY <1>2, <1>4, <2>1, <2>2 DEF arg
<1> QED
  BY <1>7, <1>8, <1>9, <1>10 DEF Leaves

LEMMA ProcessStep ==
  ASSUME Invariant, Process
  PROVE  Invariant'
<1>1. Typed /\ Round /\ WellFormed
  BY DEF Invariant
<1>2. /\ pc = "process" /\ pc' = "extras" /\ clock' = clock /\ arrived' = arrived /\ notice' = notice
      /\ frames' = frames
  BY DEF Process
<1>3. PICK r \in Machines :
           /\ buffer' = r.buffer /\ config' = r.config /\ extra' = r.extra
           /\ FrameLength' = (IF r.size > 0 THEN r.size ELSE FrameLength)
           /\ answer' = Field(r.buffer, 0, r.size)
           /\ r.extra.flag = "PACKET" =>
                r.extra.arg = 16 * If_RNDIS + DestinationOf(arrived, r.config)
           /\ r.size # 0 => Owes(r.buffer, buffer, r.size, r.config)
           /\ Acted(r.size # 0 /\ IsUDP(arrived), buffer, HeaderEnd(buffer) + 8, r)
  BY <1>1, Processed
<1>4. Bytes(r.buffer, BufferSize) /\ r.config \in Configs /\ r.extra \in ExtraSet /\ r.size \in 0 .. BufferSize
      /\ r.buffer \in Buffers
  BY MachineParts DEF Machines
<1>5. InFront(arrived, buffer) /\ Bytes(buffer, BufferSize) /\ notice = <<>>
  BY <1>1, <1>2 DEF Round, InFront
<1>6. Sound(answer')
  BY <1>3, <1>4, <1>5, AnswerSound
<1>7. Typed'
  <2>1. answer' \in Seq(Byte)
    BY <1>6 DEF Sound
  <2>2. FrameLength' \in 0 .. BufferSize
    BY <1>1, <1>3, <1>4 DEF Typed
  <2> QED
    BY <1>1, <1>2, <1>3, <1>4, <2>1, <2>2 DEF Typed
<1>8. Round'
  BY <1>2, <1>3, <1>5 DEF Round
<1>9. AnswersGoBack'
  <2> SUFFICES ASSUME answer' # <<>>, Complete(arrived) PROVE GoesBack(answer', arrived, config')
    BY <1>2 DEF AnswersGoBack, GoesBack, ARPAnswers, UDPAnswers, ETH, IP, UDP
  <2>1. r.size # 0
    <3>1. ASSUME r.size = 0 PROVE FALSE
      <4>1. Bytes(Field(r.buffer, 0, 0), 0)
        BY <1>4, Room, BytesField
      <4>2. answer' \in Seq(Byte) /\ Len(answer') = 0
        BY <1>3, <3>1, <4>1 DEF Bytes
      <4> QED
        BY <4>2, EmptySeq
    <3> QED
      BY <3>1
  <2>2. Bytes(answer', r.size) /\ 34 <= r.size /\ Owes(answer', buffer, r.size, r.config)
    BY <1>3, <1>4, <2>1, OwesKept
  <2>3. GoesBack(answer', arrived, r.config)
    BY <1>4, <1>5, <2>2, AnswerGoesBack
  <2> QED
    BY <1>3, <2>3
<1>10. WellFormed'
  BY <1>2, <1>5, <1>6, SoundEmpty DEF WellFormed, Sound
<1>11. NoticeNamesFrame'
  BY <1>2 DEF NoticeNamesFrame
<1> QED
  BY <1>7, <1>8, <1>9, <1>10, <1>11 DEF Invariant

(* The packet that Extras_Task sends.                                      *)
LEMMA SendExtraStep ==
  ASSUME Invariant, SendExtra
  PROVE  Invariant'
<1> DEFINE tail == ExtraPayload
           time == LE32(clock)
           payload == time \o tail
           n == Len(payload)
           c == Finalize(Put(buffer, 42, payload), n)
           f == Field(c, 0, 42 + n)
<1>1. Typed /\ Round /\ WellFormed /\ pc = "extras" /\ extra.flag \in {"TEST", "PACKET"}
  BY DEF Invariant, SendExtra
<1>2. /\ buffer' = c /\ FrameLength' = 42 + n /\ notice' = f /\ extra' = NoExtra /\ pc' = "idle"
      /\ config' = config /\ clock' = clock /\ arrived' = arrived /\ answer' = answer /\ frames' = frames
  <2>1. ETH + IP + UDP = 42
    BY DEF ETH, IP, UDP
  <2> QED
    BY <2>1 DEF SendExtra
<1>3. extra.arg \in Byte /\ config \in Configs /\ Bytes(buffer, BufferSize)
  BY <1>1 DEF Typed, ExtraSet, Buffers, Bytes
<1>4. Bytes(time, 4)
  <2>1. clock \in Nat
    BY <1>1, BoundsAssumption DEF Typed
  <2>2. LE32(clock) \in Seq(Byte) /\ Len(LE32(clock)) = 4
    BY <2>1, DoubleWord
  <2> QED
    BY <2>2 DEF Bytes
<1> DEFINE high == extra.arg \div 16
           low == extra.arg % 16
<1>5. high \in Byte /\ low \in Byte
  BY <1>3 DEF Byte
<1>6. extra.flag = "TEST" => Bytes(tail, 6)
  BY <1>3 DEF ExtraPayload, Bytes, Byte
<1>7. extra.flag = "PACKET" => Bytes(tail, 2) /\ tail = <<high, low>>
  BY <1>5 DEF ExtraPayload, Bytes
<1> HIDE DEF tail, time, high, low
<1>8. Bytes(payload, n) /\ n \in {6, 10} /\ (extra.flag = "TEST" => n = 10)
  <2>1. ASSUME extra.flag = "TEST" PROVE Bytes(payload, 10)
    <3>1. Bytes(tail, 6)
      BY <1>6, <2>1
    <3> QED
      BY <1>4, <3>1, BytesCat
  <2>2. ASSUME extra.flag = "PACKET" PROVE Bytes(payload, 6)
    <3>1. Bytes(tail, 2)
      BY <1>7, <2>2
    <3> QED
      BY <1>4, <3>1, BytesCat
  <2> HIDE DEF payload
  <2> QED
    BY <1>1, <2>1, <2>2 DEF Bytes
<1>9. n = 6 => extra.flag = "PACKET"
  BY <1>1, <1>8
<1> HIDE DEF payload, n
<1>10. /\ Bytes(c, BufferSize) /\ Bytes(f, 42 + n) /\ Sound(f)
       /\ Field(f, 0, 6) = AdapterMAC(config) /\ Field(f, 30, 4) = TargetIP(config)
       /\ U16(f, 36) = ConfigPort(config, TPORT) /\ Field(f, 42, n) = payload
  BY <1>3, <1>8, NoticeMade
<1> HIDE DEF c, f
<1>11. Typed'
  <2>1. c \in Buffers /\ f \in Seq(Byte)
    BY <1>10 DEF Buffers, Bytes
  <2>2. 42 + n \in 0 .. BufferSize
    BY <1>8, Room
  <2>3. NoExtra \in ExtraSet
    BY DEF NoExtra, ExtraSet, Extras, Byte
  <2> QED
    BY <1>1, <1>2, <2>1, <2>2, <2>3 DEF Typed
<1>12. Round'
  BY <1>2 DEF Round
<1>13. AnswersGoBack'
  BY <1>2 DEF AnswersGoBack
<1>14. WellFormed'
  <2>1. Sound(answer)
    BY <1>1 DEF WellFormed, Sound
  <2> QED
    BY <1>2, <1>10, <2>1 DEF WellFormed, Sound
<1> DEFINE d == DestinationOf(arrived, config)
<1>15. ASSUME n = 6 PROVE At(f, 46) = 1 /\ At(f, 47) = d
  <2>1. extra.flag = "PACKET" /\ d \in {2, 8, 10} /\ extra.arg = 16 + d
    <3>1. extra.arg = 16 * If_RNDIS + d
      BY <1>1, <1>9, <1>15 DEF Round
    <3> QED
      BY <1>9, <1>15, <3>1, DestinationIs DEF If_RNDIS
  <2> HIDE DEF d
  <2>2. high = 1 /\ low = d
    BY <2>1 DEF high, low
  <2>3. Bytes(tail, 2) /\ tail = <<1, d>>
    BY <1>7, <2>1, <2>2
  <2>4. Field(payload, 4, 2) = tail
    BY <1>4, <2>3, CatLast DEF payload
  <2>5. Bytes(f, 48) /\ Field(f, 42, 6) = payload /\ Bytes(payload, 6)
    BY <1>8, <1>10, <1>15
  <2>6. Field(f, 46, 2) = tail
    <3>1. Field(Field(f, 42, 6), 4, 2) = Field(f, 46, 2)
      BY <2>5, FieldOfField
    <3> QED
      BY <2>4, <2>5, <3>1
  <2>7. \A x \in 1 .. 2 : Field(f, 46, 2)[x] = f[46 + x]
    <3>1. 48 \in Nat /\ 46 \in Nat /\ 2 \in Nat /\ 46 + 2 <= 48
      OBVIOUS
    <3> QED
      BY ONLY <2>5, <3>1, FieldAt DEF FromField
  <2>8. f[46 + 1] = 1 /\ f[46 + 2] = d
    BY <2>3, <2>6, <2>7
  <2>9. 46 + 2 = 47 + 1
    OBVIOUS
  <2> QED
    BY <2>8, <2>9 DEF At
<1>16. NoticeNamesFrame'
  <2>1. Len(f) = 42 + 6 => n = 6
    <3>1. Len(f) = 42 + n
      BY <1>10 DEF Bytes
    <3>2. ASSUME n = 10 PROVE Len(f) # 42 + 6
      BY <3>1, <3>2
    <3>3. n = 6 \/ n = 10
      BY <1>8
    <3> QED
      BY <3>2, <3>3
  <2>2. /\ ETH + IP + UDP = 42 /\ ETH + IP + UDP + 4 = 46 /\ ETH + IP + UDP + 5 = 47
        /\ ETH + 16 = 30 /\ ETH + IP + 2 = 36 /\ If_RNDIS = 1
    BY DEF ETH, IP, UDP, If_RNDIS
  <2> QED
    BY <1>2, <1>10, <1>15, <2>1, <2>2 DEF NoticeNamesFrame, DestinationOf
<1> QED
  BY <1>11, <1>12, <1>13, <1>14, <1>16 DEF Invariant

(* The frame that arrives, any that is well made.                          *)
LEMMA ReceiveStep ==
  ASSUME Invariant, NEW f, WellMade(f), Receive(f)
  PROVE  Invariant'
<1>1. Typed /\ pc = "idle"
  BY DEF Invariant, Receive
<1>2. /\ buffer' = Put(buffer, 0, f) /\ FrameLength' = Len(f) /\ arrived' = f /\ answer' = <<>>
      /\ notice' = <<>> /\ frames' = frames + 1 /\ pc' = "process"
      /\ config' = config /\ extra' = extra /\ clock' = clock
  BY DEF Receive
<1>3. f \in Seq(Byte) /\ Len(f) \in 0 .. BufferSize /\ Len(f) \in Nat /\ Bytes(f, Len(f))
  BY Room DEF WellMade, ETH, Bytes
<1>4. Bytes(buffer, BufferSize) /\ BufferSize \in Nat
  BY <1>1, Room DEF Typed, Buffers, Bytes
<1> DEFINE b == Put(buffer, 0, f)
           l == Len(f)
<1>5. Bytes(b, BufferSize) /\ Field(b, 0, l) = f
  <2>1. 0 + l <= BufferSize /\ l \in Nat /\ Bytes(f, l) /\ 0 + l <= l
    BY <1>3, <1>4
  <2> HIDE DEF l
  <2>2. Field(b, 0, l) = Field(f, 0, l)
    BY <1>4, <2>1, PutInside
  <2> QED
    BY <1>4, <2>1, <2>2, BytesPut, WholeField
<1> HIDE DEF b
<1>6. Typed'
  BY <1>1, <1>2, <1>3, <1>5, BufferOf DEF Typed, b
<1>7. Round'
  BY <1>2, <1>3, <1>5 DEF Round, InFront, b
<1>8. AnswersGoBack' /\ NoticeNamesFrame'
  BY <1>2 DEF AnswersGoBack, NoticeNamesFrame
<1>9. WellFormed'
  BY <1>2, SoundEmpty DEF WellFormed, Sound
<1> QED
  BY <1>6, <1>7, <1>8, <1>9 DEF Invariant

(* The restart.                                                            *)
LEMMA Cleared == [i \in 1 .. BufferSize |-> 0] \in Buffers
BY Room DEF Buffers, Byte

LEMMA RestartStep ==
  ASSUME Invariant, Restart
  PROVE  Invariant'
<1>1. Typed /\ Round /\ WellFormed /\ pc = "extras" /\ notice = <<>>
  BY DEF Invariant, Restart, Round
<1>2. /\ buffer' = [i \in 1 .. BufferSize |-> 0] /\ FrameLength' = 0
      /\ config' = (IF extra.flag = "REBOOT" THEN config ELSE FactoryReset(config, 1))
      /\ clock' = 0 /\ extra' = NoExtra /\ pc' = "idle"
      /\ arrived' = arrived /\ answer' = answer /\ notice' = notice /\ frames' = frames
  BY DEF Restart
<1>3. Typed'
  <2>1. config' \in Configs
    BY <1>1, <1>2, FactoryResetTyped DEF Typed
  <2>2. NoExtra \in ExtraSet
    BY DEF NoExtra, ExtraSet, Extras, Byte
  <2>3. 0 \in 0 .. BufferSize /\ 0 \in 0 .. MaxClock
    BY Room, BoundsAssumption
  <2> QED
    BY <1>1, <1>2, <2>1, <2>2, <2>3, Cleared DEF Typed
<1>4. Round' /\ AnswersGoBack' /\ NoticeNamesFrame'
  BY <1>1, <1>2 DEF Round, AnswersGoBack, NoticeNamesFrame
<1>5. WellFormed'
  BY <1>1, <1>2 DEF WellFormed
<1> QED
  BY <1>3, <1>4, <1>5 DEF Invariant

(* A blink: the watchdog leaves an empty buffer, as a restart does.        *)
LEMMA BlinkStep ==
  ASSUME Invariant, Blink
  PROVE  Invariant'
<1>1. Typed /\ Round /\ WellFormed /\ pc = "process" /\ notice = <<>>
  BY DEF Invariant, Blink, Round
<1>2. /\ buffer' = [i \in 1 .. BufferSize |-> 0] /\ FrameLength' = 0
      /\ config' = config /\ clock' = 0 /\ extra' = NoExtra /\ pc' = "idle"
      /\ arrived' = arrived /\ answer' = answer /\ notice' = notice /\ frames' = frames
  BY DEF Blink
<1>3. Typed'
  <2>1. NoExtra \in ExtraSet
    BY DEF NoExtra, ExtraSet, Extras, Byte
  <2>2. 0 \in 0 .. BufferSize /\ 0 \in 0 .. MaxClock
    BY Room, BoundsAssumption
  <2> QED
    BY <1>1, <1>2, <2>1, <2>2, Cleared DEF Typed
<1>4. Round' /\ AnswersGoBack' /\ NoticeNamesFrame'
  BY <1>1, <1>2 DEF Round, AnswersGoBack, NoticeNamesFrame
<1>5. WellFormed'
  BY <1>1, <1>2 DEF WellFormed
<1> QED
  BY <1>3, <1>4, <1>5 DEF Invariant

(* The clock does not disturb any of it.                                   *)
LEMMA SecondStep ==
  ASSUME Invariant, Second \/ UNCHANGED vars
  PROVE  Invariant'
<1>1. Typed /\ Round /\ AnswersGoBack /\ WellFormed /\ NoticeNamesFrame
  BY DEF Invariant
<1>2. /\ UNCHANGED <<pc, buffer, FrameLength, config, extra, arrived, answer, notice, frames>>
      /\ clock' = clock \/ (clock < MaxClock /\ clock' = clock + 1)
  BY DEF Second, vars
<1>3. Typed'
  <2>1. clock' \in 0 .. MaxClock
    BY <1>1, <1>2, BoundsAssumption DEF Typed
  <2> QED
    BY <1>1, <1>2, <2>1 DEF Typed
<1>4. Round'
  BY <1>1, <1>2 DEF Round, InFront
<1>5. AnswersGoBack'
  BY <1>1, <1>2 DEF AnswersGoBack, ARPAnswers, UDPAnswers
<1>6. WellFormed' /\ NoticeNamesFrame'
  BY <1>1, <1>2 DEF WellFormed, NoticeNamesFrame
<1> QED
  BY <1>3, <1>4, <1>5, <1>6 DEF Invariant

LEMMA InitInvariant == Init => Invariant
<1> SUFFICES ASSUME Init PROVE Invariant
  OBVIOUS
<1>1. Typed
  <2>1. Blank \in Configs
    BY DEF Blank, Configs, ConfigLength, Byte
  <2>2. config \in Configs
    BY <2>1, FactoryResetTyped DEF Init
  <2>3. NoExtra \in ExtraSet
    BY DEF NoExtra, ExtraSet, Extras, Byte
  <2>4. 0 \in 0 .. BufferSize /\ 0 \in 0 .. MaxClock
    BY Room, BoundsAssumption
  <2> QED
    BY <2>2, <2>3, <2>4, Cleared DEF Init, Typed
<1>2. Round /\ AnswersGoBack /\ NoticeNamesFrame
  BY DEF Init, Round, AnswersGoBack, NoticeNamesFrame
<1>3. WellFormed
  BY SoundEmpty DEF Init, WellFormed, Sound
<1> QED
  BY <1>1, <1>2, <1>3 DEF Invariant

LEMMA NextInvariant == Invariant /\ [Next]_vars => Invariant'
<1> SUFFICES ASSUME Invariant, [Next]_vars PROVE Invariant'
  OBVIOUS
<1>1. CASE Process
  BY <1>1, ProcessStep
<1>2. CASE SendExtra
  BY <1>2, SendExtraStep
<1>3. CASE Restart
  BY <1>3, RestartStep
<1>4. CASE Second \/ UNCHANGED vars
  BY <1>4, SecondStep
<1>5. ASSUME NEW f \in Arrivals, Arrive(f) PROVE Invariant'
  BY <1>5, ReceiveStep, ArrivalsAssumption DEF Arrive
<1>6. CASE Blink
  BY <1>6, BlinkStep
<1> QED
  BY <1>1, <1>2, <1>3, <1>4, <1>5, <1>6 DEF Next, Device

LEMMA InvariantHolds == Spec => []Invariant
BY InitInvariant, NextInvariant, PTL DEF Spec

-----------------------------------------------------------------------------
(* Every variable stays in its range: whatever request is answered in      *)
(* place, the answer is made of bytes and ends within the frame buffer,    *)
(* and the EEPROM holds bytes.                                             *)
THEOREM TypesOfPackets == Spec => []TypeOK
<1>1. Invariant => TypeOK
  <2> SUFFICES ASSUME Typed PROVE TypeOK
    BY DEF Invariant
  <2>1. buffer \in [1 .. BufferSize -> Byte] /\ config \in [1 .. ConfigLength -> Byte]
    BY LenProperties DEF Typed, Buffers, Configs
  <2> QED
    BY <2>1 DEF Typed, TypeOK, ExtraSet
<1> QED
  BY <1>1, InvariantHolds, PTL

(* Whatever is sent, answer or notice, announces its own lengths and sums  *)
(* up: Ethernet_Checksum16 and the header builders are right about every   *)
(* frame that IP, ICMP, UDP and Extras_Task leave in the buffer.           *)
THEOREM FramesAreWellFormed == Spec => []WellFormed
<1>1. Invariant => WellFormed
  BY DEF Invariant
<1> QED
  BY <1>1, InvariantHolds, PTL

(* An answer goes back to where its frame came from and has what that      *)
(* frame is owed, although it is built over it.                            *)
THEOREM AnswersReturn == Spec => []AnswersGoBack
<1>1. Invariant => AnswersGoBack
  BY DEF Invariant
<1> QED
  BY <1>1, InvariantHolds, PTL

(* The notice of a round names the interfaces of the frame of that round   *)
(* and goes to the configured target, whatever operation came in between.  *)
THEOREM NoticesNameTheirFrame == Spec => []NoticeNamesFrame
<1>1. Invariant => NoticeNamesFrame
  BY DEF Invariant
<1> QED
  BY <1>1, InvariantHolds, PTL

-----------------------------------------------------------------------------
(*  CsTool.                                                                *)

(* The port that a request comes from and its reply goes to.               *)
Port(f) == Field(f, 34, 2)

(* What the server relies on in a request of the tool: its headers, and    *)
(* the operand if the operation takes one.                                 *)
Request(f) ==
  /\ WellMade(f) /\ Len(f) >= 46 /\ IsUDP(f) /\ Plain(f) /\ At(f, 43) < TokenModulus
  /\ OperandLength(At(f, 42)) = 6 => Len(f) = 52

(* It comes from one of the sockets the tool has had so far.               *)
FromTool(f) == Request(f) /\ \E s \in 1 .. socket : Port(f) = PortOf(s)

(* The requests and replies of the tool that is running.                   *)
Mine(port) == socket # 0 /\ port = PortOf(socket)

InHub     == {i \in 1 .. Len(toHub) : Mine(Port(toHub[i]))}
InService == pc = "process" /\ IsUDP(arrived) /\ Mine(Port(arrived))
Come      == {r \in toTool : Mine(r.port)}

ToolTyped ==
  /\ tool \in {"closed", "ready", "waiting", "dead"} /\ token \in Nat /\ socket \in 0 .. MaxStarts
  /\ tool # "closed" => socket # 0 /\ Bytes(peer, 12)
  /\ toHub \in Seq(Seq(Byte)) /\ copied \in BOOLEAN

(* Where what is under way comes from and goes to.                         *)
UnderWay ==
  /\ \A i \in 1 .. Len(toHub) : FromTool(toHub[i])
  /\ pc = "process" => arrived \in Arrivals \/ FromTool(arrived)
  /\ \A r \in toTool : /\ r.code \in {ACK, NAK}
                       /\ \A s \in 1 .. MaxStarts :
                            r.port = PortOf(s) => s <= socket /\ r.token \in 0 .. TokenModulus - 1

(* As long as the token fits a byte, no request or reply is ahead of it,   *)
(* and the one that has it belongs to the last command.                    *)
Fits(op, n, agrees) ==
  token < TokenModulus =>
    n <= token /\ (n = token => op = command.op /\ (OperandLength(op) = 6 => agrees))

RequestFits(f) == Fits(At(f, 42), At(f, 43), Field(f, 46, 6) = command.argument)
ReplyFits(r)   == Fits(r.op, r.token, r.text # <<>> => IsPrefix(r.text, command.argument))

Fitting ==
  /\ \A i \in InHub : RequestFits(toHub[i])
  /\ InService => RequestFits(arrived)
  /\ \A r \in Come : ReplyFits(r)

(* Unless a reply was doubled, a tool that waits has one request or reply  *)
(* under way, with its last token, and a tool that does not wait has none. *)
Single ==
  ~copied =>
    /\ tool # "waiting" => InHub = {} /\ ~InService /\ Come = {}
    /\ InHub # {} => ~InService /\ Come = {}
    /\ InService => Come = {}
    /\ \A i, j \in InHub : i = j
    /\ \A r, q \in Come : r = q
    /\ \A i \in InHub : At(toHub[i], 43) = token % TokenModulus
    /\ InService => At(arrived, 43) = token % TokenModulus
    /\ \A r \in Come : r.token = token % TokenModulus

ToolInvariant ==
  Invariant /\ ToolTyped /\ UnderWay /\ Fitting /\ Single /\ AcceptsOwnReply /\ DiesForReason

-----------------------------------------------------------------------------
(* What the user may enter.                                                *)
LEMMA Entered ==
  /\ MenuChoices \subseteq DOMAIN functions
  /\ \A m \in MACs : Bytes(m, 6)
  /\ \A ip \in IPs : Bytes(ip, 4)
  /\ \A port \in Ports : port \in Int
<1>1. MenuChoices \subseteq DOMAIN functions
  BY MenuAssumption, Zenon
<1>2. \A m \in MACs : Bytes(m, 6)
  BY EnteredAssumption, Zenon DEF Bytes
<1>3. \A ip \in IPs : Bytes(ip, 4)
  BY EnteredAssumption, Zenon DEF Bytes
<1>4. \A port \in Ports : port \in Int
  <2>1. \A port \in Ports : port \in 0 .. MaxPort
    BY EnteredAssumption, Zenon
  <2>2. \A n \in 0 .. MaxPort : n \in Int
    OBVIOUS
  <2> QED
    BY ONLY <2>1, <2>2, Zenon
<1> QED
  BY <1>1, <1>2, <1>3, <1>4

(* The sockets' ports are two bytes and differ.                            *)
LEMMA SocketPorts ==
  /\ MaxStarts \in Nat /\ MaxStarts <= 255 /\ TokenModulus \in Nat /\ 2 <= TokenModulus /\ TokenModulus <= 256
  /\ \A s \in 1 .. MaxStarts : Bytes(PortOf(s), 2)
  /\ \A s, t : PortOf(s) = PortOf(t) => s = t
<1>1. MaxStarts \in Nat /\ MaxStarts <= 255 /\ TokenModulus \in Nat /\ 2 <= TokenModulus /\ TokenModulus <= 256
  <2>1. TokenModulus \in 2 .. 256 /\ MaxStarts \in 0 .. 255
    BY CsToolAssumption
  <2> QED
    BY <2>1
<1>2. ASSUME NEW s \in 1 .. MaxStarts PROVE Bytes(PortOf(s), 2)
  <2>1. 200 \in Byte /\ s \in Byte
    BY <1>1 DEF Byte
  <2> QED
    BY <2>1, ShortBytes DEF PortOf
<1>3. ASSUME NEW s, NEW t, PortOf(s) = PortOf(t) PROVE s = t
  <2>1. PortOf(s)[2] = s /\ PortOf(t)[2] = t
    BY DEF PortOf
  <2> QED
    BY <1>3, <2>1
<1> QED
  BY <1>1, <1>2, <1>3

(* A datagram of the tool: headers in front of the payload, all of it      *)
(* where the server reads it.                                              *)
LEMMA DatagramBytes ==
  ASSUME NEW to, Bytes(to, 12), NEW s \in 1 .. MaxStarts, NEW n \in Nat, 4 <= n, n <= 10,
         NEW payload, Bytes(payload, n), NEW f, f = Datagram(to, s, payload)
  PROVE  /\ Bytes(f, 42 + n) /\ Field(f, 42, n) = payload /\ Port(f) = PortOf(s)
         /\ Type(f) = TypeIPv4 /\ At(f, 14) = 69 /\ At(f, 23) = 17
<1> DEFINE k == 42 + n
           a == SubSeq(to, 1, 6)
           dst == SubSeq(to, 7, 10)
           h == IPHeader(17, 8 + n, HostIP, dst)
           p == <<to[12], to[11]>>
           g == HeadersOf(a, HostMAC, h, PortOf(s), p, 8 + n)
           v == g \o payload
<1>1. /\ k \in Nat /\ 46 <= k /\ k <= 52 /\ 8 + n \in Nat /\ 34 <= k /\ k <= WordMax
      /\ 0 + 42 <= 42 /\ k = 42 + n
  <2>1. BufferSize <= WordMax /\ 92 <= BufferSize /\ WordMax \in Nat /\ BufferSize \in Nat
    BY Room, SMT DEF WordMax
  <2>2. k <= 52 /\ 46 <= k /\ k \in Nat
    OBVIOUS
  <2> HIDE DEF k
  <2>3. k <= WordMax
    BY <2>1, <2>2
  <2> QED
    BY <2>2, <2>3 DEF k
<1>2. Bytes(a, 6) /\ Bytes(dst, 4) /\ Bytes(HostMAC, 6) /\ Bytes(HostIP, 4) /\ Bytes(p, 2)
  <2>1. 0 + 6 <= 12 /\ 6 + 4 <= 12 /\ 11 \in 1 .. 12 /\ 12 \in 1 .. 12
    OBVIOUS
  <2>2. Bytes(Field(to, 0, 6), 6) /\ Bytes(Field(to, 6, 4), 4)
    BY <2>1, BytesField
  <2>3. Field(to, 0, 6) = a /\ Field(to, 6, 4) = dst
    BY DEF Field
  <2>4. to[11] \in Byte /\ to[12] \in Byte
    BY <2>1, BytesAt
  <2>5. Bytes(p, 2)
    BY <2>4, ShortBytes
  <2>6. Bytes(HostMAC, 6) /\ Bytes(HostIP, 4)
    BY DEF HostMAC, HostIP, Bytes, Byte
  <2> QED
    BY <2>2, <2>3, <2>5, <2>6
<1>3. f = WithChecksum(v)
  <2>1. UDP = 8 /\ ProtocolUDP = 17 /\ Len(payload) = n
    BY DEF UDP, ProtocolUDP, Bytes
  <2>2. f = WithChecksum(a \o HostMAC \o BE16(TypeIPv4)
                \o IPHeader(ProtocolUDP, UDP + Len(payload), HostIP, dst)
                \o PortOf(s) \o p \o BE16(UDP + Len(payload)) \o <<0, 0>>
                \o payload)
    BY DEF Datagram
  <2> QED
    BY <2>1, <2>2 DEF HeadersOf
<1> HIDE DEF k, a, dst, p
<1>4. Bytes(h, 20)
  <2>1. 17 \in Byte
    BY DEF Byte
  <2> QED
    BY <1>1, <1>2, <2>1, HeaderBytes
<1>5. Bytes(PortOf(s), 2)
  BY SocketPorts
<1> HIDE DEF h
<1>6. /\ Bytes(g, 42) /\ Field(g, 12, 2) = BE16(TypeIPv4) /\ Field(g, 14, 20) = h /\ Field(g, 34, 2) = PortOf(s)
  BY <1>1, <1>2, <1>4, <1>5, HeadersMade
<1> HIDE DEF g
<1>7. Bytes(v, k)
  BY <1>1, <1>6, BytesCat
<1>8. Field(v, 42, n) = payload /\ Keeps(v, g, 42)
  BY <1>6, CatLast
<1>9. Field(v, 12, 2) = Field(g, 12, 2) /\ Field(v, 14, 20) = Field(g, 14, 20) /\ Field(v, 34, 2) = Field(g, 34, 2)
  BY <1>8 DEF Keeps
<1> HIDE DEF v
<1>10. Bytes(f, k) /\ At(f, 14) = 69 /\ At(f, 23) = 17
  <2>1. 17 \in Byte
    BY DEF Byte
  <2>2. Field(v, 14, 20) = IPHeader(17, 8 + n, HostIP, dst)
    BY <1>6, <1>9 DEF h
  <2> QED
    BY <1>1, <1>2, <1>3, <1>7, <2>1, <2>2, Checksummed
<1>11. /\ Field(f, 12, 2) = Field(v, 12, 2) /\ Field(f, 34, 2) = Field(v, 34, 2)
       /\ Field(f, 42, n) = Field(v, 42, n)
  <2> DEFINE Same(i, j) == Field(f, i, j) = Field(v, i, j)
  <2>1. ASSUME NEW i \in Nat, NEW j \in Nat, i + j <= k, i + j <= 24 \/ 26 <= i PROVE Same(i, j)
    BY <1>1, <1>3, <1>7, <2>1, ChecksumOutside
  <2>2. 12 + 2 <= k /\ 34 + 2 <= k /\ 42 + n <= k
    BY <1>1
  <2> HIDE DEF Same
  <2>3. Same(12, 2) /\ Same(34, 2) /\ Same(42, n)
    BY <2>1, <2>2
  <2> QED
    BY <2>3 DEF Same
<1>12. U16(f, 12) = TypeIPv4
  <2>1. TypeIPv4 \in Nat /\ TypeIPv4 <= WordMax
    BY SMT DEF TypeIPv4, WordMax
  <2>2. 12 + 2 <= k /\ Field(f, 12, 2) = BE16(TypeIPv4)
    BY <1>1, <1>6, <1>9, <1>11
  <2> QED
    BY <1>1, <1>10, <2>1, <2>2, ReadBE16
<1> QED
  BY <1>6, <1>8, <1>9, <1>10, <1>11, <1>12 DEF Port, Type, k

(* So it is a request, with its operation, token and operand.              *)
LEMMA RequestMade ==
  ASSUME NEW to, Bytes(to, 12), NEW s \in 1 .. MaxStarts, NEW op \in Byte, NEW t \in 0 .. TokenModulus - 1,
         NEW n \in {0, 6}, NEW arg, Bytes(arg, n), OperandLength(op) = 6 => n = 6,
         NEW f, f = Datagram(to, s, <<op, t, 0, 0>> \o arg)
  PROVE  /\ Request(f) /\ Port(f) = PortOf(s) /\ At(f, 42) = op /\ At(f, 43) = t
         /\ n = 6 => Field(f, 46, 6) = arg
<1> DEFINE head == <<op, t, 0, 0>>
           payload == head \o arg
           k == 4 + n
<1>1. k \in Nat /\ 4 <= k /\ k <= 10 /\ n \in Nat /\ 42 + k >= 46 /\ 42 + k <= 52 /\ (n = 6 => 42 + k = 52)
      /\ 42 + k \in Nat
  OBVIOUS
<1>2. t \in Byte /\ t < TokenModulus
  BY SocketPorts DEF Byte
<1>3. Bytes(head, 4)
  <2>1. 0 \in Byte
    BY DEF Byte
  <2> QED
    BY <1>2, <2>1, ShortBytes
<1>4. head[1] = op /\ head[2] = t
  OBVIOUS
<1> HIDE DEF head
<1>5. Bytes(payload, k) /\ Field(payload, 0, 2) = Field(head, 0, 2) /\ Field(payload, 4, n) = arg
  <2>1. 0 + 2 <= 4
    OBVIOUS
  <2> QED
    BY <1>1, <1>3, <2>1, BytesCat, CatLeft, CatLast
<1>6. f = Datagram(to, s, payload)
  BY DEF head
<1> HIDE DEF payload
<1> DEFINE l == 42 + k
<1>7. /\ Bytes(f, l) /\ Field(f, 42, k) = payload /\ Port(f) = PortOf(s)
      /\ Type(f) = TypeIPv4 /\ At(f, 14) = 69 /\ At(f, 23) = 17
  BY <1>1, <1>5, <1>6, DatagramBytes
<1>8. l \in Nat /\ 46 <= l /\ l <= 52 /\ 42 + k <= l /\ (n = 6 => l = 52 /\ k = 10)
  BY <1>1
<1> HIDE DEF k, l
<1>9. Field(f, 42, 2) = Field(head, 0, 2) /\ Field(f, 46, n) = arg
  <2>1. 0 + 2 <= k /\ 4 + n <= k /\ 42 + 4 = 46
    BY <1>1 DEF k
  <2>2. Field(Field(f, 42, k), 0, 2) = Field(f, 42, 2)
    BY <1>1, <1>7, <1>8, <2>1, FieldOfField
  <2>3. Field(Field(f, 42, k), 4, n) = Field(f, 46, n)
    BY <1>1, <1>7, <1>8, <2>1, FieldOfField
  <2> QED
    BY <1>5, <1>7, <2>2, <2>3
<1>10. At(f, 42) = op /\ At(f, 43) = t
  <2>1. 42 + 2 <= l /\ 0 + 2 <= 4
    BY <1>8
  <2>2. \A i \in 1 .. 2 : Field(f, 42, 2)[i] = f[42 + i]
    BY <1>7, <1>8, <2>1, FieldAt DEF FromField
  <2>3. \A i \in 1 .. 2 : Field(head, 0, 2)[i] = head[0 + i]
    BY <1>3, <2>1, FieldAt DEF FromField
  <2>4. f[42 + 1] = op /\ f[42 + 2] = t
    <3>1. f[42 + 1] = head[0 + 1] /\ f[42 + 2] = head[0 + 2]
      BY <1>9, <2>2, <2>3
    <3> QED
      BY <1>4, <3>1
  <2> QED
    BY <2>4 DEF At
<1>11. IsIP(f) /\ IsUDP(f) /\ ~IsICMP(f) /\ Plain(f)
  <2>1. ETH = 14 /\ ETH + 9 = 23 /\ ProtocolUDP = 17 /\ ProtocolICMP = 1
    BY DEF ETH, ProtocolUDP, ProtocolICMP
  <2> QED
    BY <1>7, <2>1 DEF IsIP, IsUDP, IsICMP, Plain
<1>12. f \in Seq(Byte) /\ Len(f) = l
  BY <1>7 DEF Bytes
<1>13. WellMade(f)
  <2>1. l \in ETH .. BufferSize /\ l >= ETH + IP
    BY <1>8, Room DEF ETH, IP
  <2> QED
    BY <1>11, <1>12, <2>1 DEF WellMade
<1>14. Request(f)
  BY <1>2, <1>8, <1>10, <1>11, <1>12, <1>13 DEF Request
<1> QED
  BY <1>7, <1>9, <1>10, <1>14

-----------------------------------------------------------------------------
(* The reply that the hub makes of a request.                              *)

(* It has the request's operation and token, and of its operand the        *)
(* address or the address and the port.  Asked for the configuration (e)   *)
(* or for the time (t), it tells what they are.                            *)
RepliesTo(r, f) ==
  /\ r.op = At(f, 42) /\ r.token = At(f, 43)
  /\ OperandLength(At(f, 42)) = 6 => \E n \in {4, 6} : r.text = Field(Field(f, 46, 6), 0, n)
  /\ At(f, 42) = 101 => r.text = Field(config, 0, ConfigLength)
  /\ At(f, 42) = 116 => r.text = LE32(clock)

LEMMA AnswerTells ==
  ASSUME NEW q, NEW b, InFront(q, b), NEW size \in Nat, NEW a, Bytes(a, size), 34 <= size,
         size <= BufferSize, NEW c, Owes(a, b, size, c), IsUDP(a), NEW r, r = Reply(a)
  PROVE  /\ IsUDP(q) /\ r.code \in {ACK, NAK}
         /\ Len(q) >= 42 => r.port = Port(q)
         /\ Request(q) => RepliesTo(r, q)
<1> DEFINE l == Len(q)
           in == HeaderEnd(b)
<1>1. /\ Bytes(q, l) /\ l \in Nat /\ 14 <= l /\ Type(b) = Type(q)
      /\ IsIP(q) => 34 <= l /\ At(b, 14) = At(q, 14) /\ At(b, 23) = At(q, 23)
  BY FrontMakes, Room
<1>2. Bytes(b, BufferSize) /\ BufferSize \in Nat /\ 92 <= BufferSize
  BY Room DEF InFront
<1> HIDE DEF l
<1>3. Type(a) = Type(b)
  <2>1. Field(a, 12, 2) = Field(b, 12, 2)
    BY DEF Owes
  <2>2. 12 + 2 <= size /\ 12 + 2 <= BufferSize
    BY <1>2
  <2>3. U16(a, 12) = U16(b, 12)
    BY <1>2, <2>1, <2>2, SameWord
  <2> QED
    BY <2>3 DEF Type
<1>4. IsIP(q) /\ Type(b) = TypeIPv4
  BY <1>1, <1>3 DEF IsUDP, IsIP
<1> DEFINE n == size - 34
<1>5. IPOwes(a, b, in, n, ServerIP(c))
  BY <1>4 DEF Owes
<1>6. At(b, 23) = 17 /\ IsUDP(q)
  <2>1. At(a, 23) = At(b, 23)
    BY <1>5 DEF IPOwes, Headed
  <2>2. At(a, 23) = ProtocolUDP
    BY DEF IsUDP, ETH
  <2> QED
    BY <1>1, <1>4, <2>1, <2>2 DEF IsUDP, ETH, ProtocolUDP
<1>7. 12 <= n /\ Served(a, b, in, n)
  BY <1>5, <1>6 DEF IPOwes
<1> HIDE DEF in
<1> DEFINE x == At(a, 45)
<1>8. Field(a, 36, 2) = Field(b, 34, 2) /\ Field(a, 42, 2) = Field(b, 42, 2) /\ Told(a, b, in + 8)
      /\ size = 46 + x /\ x \in Nat
  <2>1. n = 12 + x
    BY <1>7 DEF Served
  <2>2. size >= 46
    BY <1>7
  <2>3. 46 \in 1 .. size /\ 46 = 45 + 1
    BY <2>2
  <2>4. x \in Nat
    BY <2>3, BytesAt DEF At, Byte
  <2> HIDE DEF x
  <2>5. size = 46 + x
    BY <2>1, <2>4
  <2> HIDE DEF n
  <2> QED
    BY <1>7, <2>4, <2>5 DEF Served
<1> HIDE DEF n, x
<1>9. r = [port |-> Field(a, 36, 2), op |-> At(a, 42), token |-> At(a, 43), code |-> At(a, 44),
           text |-> Field(a, 46, x)]
  <2>1. /\ ETH + IP + 2 = 36 /\ ETH + IP + UDP = 42 /\ 42 + 1 = 43 /\ 42 + 2 = 44 /\ 42 + 3 = 45
        /\ 42 + 4 = 46
    BY DEF ETH, IP, UDP
  <2> QED
    BY <2>1 DEF Reply, x
<1>10. r.code \in {ACK, NAK}
  BY <1>8, <1>9 DEF Told
<1>11. ASSUME Len(q) >= 42 PROVE r.port = Port(q)
  <2>1. 34 + 2 <= Len(q)
    BY <1>1, <1>11 DEF l
  <2>2. Field(b, 34, 2) = Field(q, 34, 2)
    BY <2>1, FrontField
  <2> QED
    BY <1>8, <1>9, <2>2 DEF Port
<1>12. ASSUME Request(q) PROVE RepliesTo(r, q)
  <2>1. Len(q) >= 46 /\ At(q, 14) = 69
    BY <1>12 DEF Request, Plain, ETH
  <2>2. in = 34
    BY <1>1, <1>2, <1>4, <2>1, HeaderEndIs DEF in
  <2>3. Told(a, b, 42)
    <3>1. 34 + 8 = 42
      OBVIOUS
    <3> QED
      BY <1>8, <2>2, <3>1
  <2>4. 42 + 2 <= l /\ 42 + 1 <= l /\ 43 + 1 <= l
    BY <1>1, <2>1 DEF l
  <2>5. Field(b, 42, 2) = Field(q, 42, 2)
    BY <2>4, FrontField DEF l
  <2>6. \A i \in 1 .. 2 : Field(q, 42, 2)[i] = q[42 + i]
    BY <1>1, <2>4, FieldAt DEF FromField
  <2>7. \A i \in 1 .. 2 : Field(a, 42, 2)[i] = a[42 + i]
    <3>1. 42 + 2 <= size
      BY <1>8
    <3> QED
      BY <3>1, FieldAt DEF FromField
  <2>8. At(a, 42) = At(q, 42) /\ At(a, 43) = At(q, 43)
    <3>1. a[42 + 1] = q[42 + 1] /\ a[42 + 2] = q[42 + 2]
      BY <1>8, <2>5, <2>6, <2>7
    <3> QED
      BY <3>1 DEF At
  <2>9. At(b, 42) = At(q, 42)
    <3>1. Field(b, 42, 1) = Field(q, 42, 1)
      BY <2>4, FrontField DEF l
    <3>2. 42 + 1 <= BufferSize
      BY <1>2
    <3> QED
      BY <1>1, <1>2, <2>4, <3>1, <3>2, SameByte
  <2>10. ASSUME OperandLength(At(q, 42)) = 6 PROVE \E k \in {4, 6} : r.text = Field(Field(q, 46, 6), 0, k)
    <3>1. x \in {4, 6} /\ Field(a, 46, x) = Field(b, 46, x)
      <4>1. 42 + 4 = 46
        OBVIOUS
      <4> QED
        BY <2>3, <2>9, <2>10, <4>1 DEF Told, x
    <3>2. Len(q) = 52
      BY <1>12, <2>10 DEF Request
    <3>3. x \in Nat /\ 46 + x <= Len(q) /\ 46 + 6 <= Len(q) /\ 0 + x <= 6 /\ 46 + 0 = 46
      BY <3>1, <3>2
    <3>4. Field(b, 46, x) = Field(q, 46, x)
      BY <3>3, FrontField
    <3>5. Field(Field(q, 46, 6), 0, x) = Field(q, 46, x)
      BY <1>1, <3>3, FieldOfField DEF l
    <3> QED
      BY <1>9, <3>1, <3>4, <3>5
  <2>11. /\ At(q, 42) = 101 => r.text = Field(config, 0, ConfigLength)
         /\ At(q, 42) = 116 => r.text = LE32(clock)
    <3>1. r.text = Field(a, 46, At(a, 45))
      BY <1>9 DEF x
    <3> QED
      BY <2>3, <2>9, <3>1 DEF Told
  <2> QED
    BY <1>9, <2>8, <2>10, <2>11 DEF RepliesTo
<1> QED
  BY <1>6, <1>10, <1>11, <1>12

-----------------------------------------------------------------------------
(* What the parts of the invariant say of a request and a reply.           *)

LEMMA TokenOf ==
  ASSUME NEW f, Request(f)
  PROVE  At(f, 43) \in 0 .. TokenModulus - 1
<1>1. f \in Seq(Byte) /\ Len(f) >= 46 /\ Len(f) \in Nat
  BY LenProperties DEF Request, WellMade
<1>2. 44 \in 1 .. Len(f)
  BY <1>1
<1>3. At(f, 43) \in Nat
  <2>1. Bytes(f, Len(f)) /\ 43 + 1 = 44
    BY <1>1 DEF Bytes
  <2>2. f[44] \in Byte
    BY <1>1, <1>2, <2>1, BytesAt
  <2>3. At(f, 43) = f[44] /\ Byte \subseteq Nat
    BY <2>1 DEF At, Byte
  <2> QED
    BY <2>1, <2>2, <2>3
<1>4. At(f, 43) < TokenModulus
  BY DEF Request
<1> QED
  BY <1>3, <1>4, SocketPorts

(* A number below the modulus is what is left of it.                       *)
LEMMA Remainder ==
  ASSUME NEW n \in Nat
  PROVE  n % TokenModulus \in 0 .. TokenModulus - 1 /\ (n < TokenModulus => n % TokenModulus = n)
<1> DEFINE m == TokenModulus
<1>1. m \in Nat /\ 2 <= m
  BY SocketPorts
<1> HIDE DEF m
<1>2. n % m \in 0 .. m - 1 /\ (n < m => n % m = n)
  BY <1>1
<1> QED
  BY <1>2 DEF m

(* Only a request of the tool comes from its port.                         *)
LEMMA ServiceIs ==
  ASSUME ToolTyped, UnderWay, InService
  PROVE  FromTool(arrived)
<1>1. IsUDP(arrived) /\ Port(arrived) = PortOf(socket) /\ socket \in 1 .. MaxStarts
  BY SocketPorts DEF InService, Mine, ToolTyped
<1>2. arrived \notin Arrivals
  <2>1. ETH + IP = 34
    BY DEF ETH, IP
  <2> QED
    BY <1>1, <2>1, OtherPortsAssumption DEF Port
<1> QED
  BY <1>2 DEF UnderWay, InService

(* A part of the operand that starts where the operand starts.             *)
LEMMA PrefixOf ==
  ASSUME NEW a, Bytes(a, 6), NEW n \in {4, 6}, NEW t, t = Field(a, 0, n)
  PROVE  IsPrefix(t, a)
<1>1. n \in Nat /\ 0 + n <= 6 /\ 0 + 1 = 1
  OBVIOUS
<1>2. Bytes(t, n)
  BY <1>1, BytesField
<1>3. Field(t, 0, n) = t
  BY <1>1, <1>2, WholeField
<1>4. Len(t) = n /\ Len(a) = 6 /\ n <= 6
  BY <1>2 DEF Bytes
<1>5. SubSeq(t, 1, n) = Field(t, 0, n) /\ SubSeq(a, 1, n) = Field(a, 0, n)
  <2>1. 0 + n = n
    BY <1>1
  <2> QED
    BY <2>1 DEF Field
<1> QED
  BY <1>3, <1>4, <1>5 DEF IsPrefix

LEMMA ReplyOfFitting ==
  ASSUME NEW f, Request(f), RequestFits(f), NEW r, RepliesTo(r, f)
  PROVE  ReplyFits(r)
<1>1. r.op = At(f, 42) /\ r.token = At(f, 43)
  BY DEF RepliesTo
<1>2. ASSUME OperandLength(At(f, 42)) = 6, Field(f, 46, 6) = command.argument
      PROVE  IsPrefix(r.text, command.argument)
  <2>1. PICK n \in {4, 6} : r.text = Field(Field(f, 46, 6), 0, n)
    BY <1>2 DEF RepliesTo
  <2>2. Bytes(f, 52)
    BY <1>2 DEF Request, WellMade, Bytes
  <2>3. Bytes(Field(f, 46, 6), 6)
    <3>1. 46 + 6 <= 52
      OBVIOUS
    <3> QED
      BY <2>2, <3>1, BytesField
  <2> QED
    BY <1>2, <2>1, <2>3, PrefixOf
<1> QED
  BY <1>1, <1>2 DEF RequestFits, ReplyFits, Fits

-----------------------------------------------------------------------------
(* The steps, one after another.                                           *)

(* The tool is started: nothing under way names its new socket.            *)
LEMMA OpenFresh ==
  ASSUME ToolInvariant, Open
  PROVE  InHub' = {} /\ ~InService' /\ Come' = {}
<1>1. ToolTyped /\ UnderWay
  BY DEF ToolInvariant
<1>2. UNCHANGED vars /\ pc = "idle" /\ socket < MaxStarts /\ socket' = socket + 1 /\ UNCHANGED <<toHub, toTool>>
  BY DEF Open
<1>3. socket \in Nat /\ socket' \in 1 .. MaxStarts /\ ~(socket' <= socket)
  BY <1>1, <1>2, SocketPorts DEF ToolTyped
<1>4. ASSUME NEW s \in 1 .. socket PROVE s # socket'
  BY <1>2, <1>3
<1>5. ASSUME NEW i \in 1 .. Len(toHub) PROVE Port(toHub[i]) # PortOf(socket')
  <2>1. PICK s \in 1 .. socket : Port(toHub[i]) = PortOf(s)
    BY <1>1 DEF UnderWay, FromTool
  <2> QED
    BY <1>4, <2>1, SocketPorts
<1>6. ASSUME NEW r \in toTool PROVE r.port # PortOf(socket')
  BY <1>1, <1>3 DEF UnderWay
<1>7. pc' # "process"
  BY <1>2 DEF vars
<1> QED
  BY <1>2, <1>5, <1>6, <1>7 DEF InHub, InService, Come, Mine

LEMMA OpenStep ==
  ASSUME ToolInvariant, Open
  PROVE  ToolInvariant'
<1>1. Invariant /\ ToolTyped /\ UnderWay /\ AcceptsOwnReply
  BY DEF ToolInvariant
<1>2. /\ UNCHANGED vars /\ pc = "idle" /\ socket < MaxStarts /\ socket' = socket + 1
      /\ tool' = "ready" /\ token' = 0 /\ peer' = ServerMAC(config) \o Field(config, SIP, 6)
      /\ UNCHANGED <<command, toHub, toTool, accepted, requests, lost, copied>>
  BY DEF Open
<1>3. Invariant'
  BY <1>1, <1>2, SecondStep
<1>4. socket \in Nat /\ socket' \in 1 .. MaxStarts /\ socket' # 0 /\ socket' \in 0 .. MaxStarts
  BY <1>1, <1>2, SocketPorts DEF ToolTyped
<1>5. ToolTyped'
  <2>1. config \in Configs
    BY <1>1 DEF Invariant, Typed
  <2>2. Bytes(ServerMAC(config), 6)
    BY <2>1, ConfigFields DEF Bytes
  <2>3. Bytes(Field(config, SIP, 6), 6)
    <3>1. Bytes(config, 30) /\ 6 + 6 <= 30
      BY <2>1 DEF Configs, ConfigLength, Bytes
    <3>2. Bytes(Field(config, 6, 6), 6)
      BY <3>1, BytesField
    <3> QED
      BY <3>2 DEF SIP
  <2>4. Bytes(peer', 12)
    BY <1>2, <2>2, <2>3, BytesCat
  <2> QED
    BY <1>1, <1>2, <1>4, <2>4 DEF ToolTyped
<1>6. ASSUME NEW s \in 1 .. socket PROVE s \in 1 .. socket' /\ s # socket'
  BY <1>2, <1>4
<1>7. UnderWay'
  <2>1. \A i \in 1 .. Len(toHub) : FromTool(toHub[i])'
    BY <1>1, <1>2, <1>6 DEF UnderWay, FromTool
  <2>2. \A s \in 1 .. MaxStarts : s <= socket => s <= socket'
    BY <1>2, <1>4
  <2>3. pc' # "process"
    BY <1>2 DEF vars
  <2> QED
    BY <1>1, <1>2, <2>1, <2>2, <2>3 DEF UnderWay
<1>8. InHub' = {} /\ ~InService' /\ Come' = {}
  BY OpenFresh
<1>9. Fitting' /\ Single'
  BY <1>8 DEF Fitting, Single
<1>10. AcceptsOwnReply' /\ DiesForReason'
  BY <1>1, <1>2 DEF AcceptsOwnReply, DiesForReason
<1> QED
  BY <1>3, <1>5, <1>7, <1>9, <1>10 DEF ToolInvariant

(* The request that is sent has the command's operation and operand, and   *)
(* the next token.                                                         *)
Sent(d, c) ==
  /\ Request(d) /\ Port(d) = PortOf(socket) /\ At(d, 42) = c.op
  /\ OperandLength(c.op) = 6 => Field(d, 46, 6) = c.argument
  /\ At(d, 43) = (token + 1) % TokenModulus
  /\ token + 1 < TokenModulus => At(d, 43) = token + 1
  /\ toHub' = Append(toHub, d)

LEMMA RequestSent ==
  ASSUME ToolInvariant, NEW c, Send(c), c.op \in Byte, NEW n \in {0, 6}, Bytes(c.argument, n),
         OperandLength(c.op) = 6 => n = 6
  PROVE  \E d : Sent(d, c)
<1> DEFINE t == (token + 1) % TokenModulus
<1>1. ToolTyped /\ tool = "ready"
  BY DEF ToolInvariant, Send
<1>2. PICK d : d = Datagram(peer, socket, <<c.op, t, 0, 0>> \o c.argument)
  OBVIOUS
<1>3. toHub' = Append(toHub, d)
  BY <1>2 DEF Send
<1>4. socket \in 1 .. MaxStarts /\ Bytes(peer, 12) /\ token + 1 \in Nat
  BY <1>1, SocketPorts DEF ToolTyped
<1>5. t \in 0 .. TokenModulus - 1 /\ (token + 1 < TokenModulus => t = token + 1)
  BY <1>4, Remainder
<1> HIDE DEF t
<1>6. Request(d) /\ Port(d) = PortOf(socket) /\ At(d, 42) = c.op /\ At(d, 43) = t
      /\ (OperandLength(c.op) = 6 => Field(d, 46, 6) = c.argument)
  BY <1>2, <1>4, <1>5, RequestMade
<1>7. Sent(d, c)
  BY <1>3, <1>5, <1>6 DEF Sent, t
<1> QED
  BY <1>7

(* A request is sent: its token is ahead of those of all that went before. *)
LEMMA SendStep ==
  ASSUME ToolInvariant, NEW c, Send(c), c.op \in Byte, NEW n \in {0, 6}, Bytes(c.argument, n),
         OperandLength(c.op) = 6 => n = 6
  PROVE  ToolInvariant'
<1> DEFINE t == (token + 1) % TokenModulus
           l == Len(toHub)
<1>1. Invariant /\ ToolTyped /\ UnderWay /\ Fitting /\ Single /\ AcceptsOwnReply /\ tool = "ready"
  BY DEF ToolInvariant, Send
<1>a. PICK d : Sent(d, c)
  BY RequestSent
<1>6. /\ Request(d) /\ Port(d) = PortOf(socket) /\ At(d, 42) = c.op /\ At(d, 43) = t
      /\ OperandLength(c.op) = 6 => Field(d, 46, 6) = c.argument
      /\ toHub' = Append(toHub, d)
  BY <1>a DEF Sent
<1>2. /\ UNCHANGED vars /\ token' = token + 1 /\ command' = c /\ toHub' = Append(toHub, d)
      /\ tool' = "waiting" /\ UNCHANGED <<socket, peer, toTool, accepted, copied>>
  BY <1>6 DEF Send
<1>3. Invariant'
  BY <1>1, <1>2, SecondStep
<1>4. socket \in 1 .. MaxStarts /\ socket \in 1 .. socket /\ socket # 0 /\ Bytes(peer, 12) /\ token \in Nat
      /\ token + 1 \in Nat
  BY <1>1, SocketPorts DEF ToolTyped
<1>5. t \in 0 .. TokenModulus - 1 /\ (token + 1 < TokenModulus => t = token + 1)
  BY <1>4, Remainder
<1> HIDE DEF t
<1>7. /\ toHub' \in Seq(Seq(Byte)) /\ Len(toHub') = l + 1 /\ l \in Nat /\ toHub'[l + 1] = d
      /\ \A i \in 1 .. l : toHub'[i] = toHub[i]
  <2>1. toHub \in Seq(Seq(Byte)) /\ d \in Seq(Byte)
    BY <1>1, <1>6 DEF ToolTyped, Request, WellMade
  <2> QED
    BY <1>2, <2>1, AppendProperties, LenProperties
<1> HIDE DEF l
<1>8. \A i \in 1 .. l + 1 : i \in 1 .. l \/ i = l + 1
  BY <1>7
<1>9. ToolTyped'
  BY <1>1, <1>2, <1>4, <1>7 DEF ToolTyped
<1>10. UnderWay'
  <2>1. FromTool(d)'
    BY <1>2, <1>4, <1>6 DEF FromTool
  <2>2. \A i \in 1 .. l : FromTool(toHub[i])'
    BY <1>1, <1>2 DEF UnderWay, FromTool, l
  <2>3. pc' = pc /\ arrived' = arrived
    BY <1>2 DEF vars
  <2>4. FromTool(arrived) => FromTool(arrived)'
    BY <1>2, <2>3 DEF FromTool
  <2>5. \A i \in 1 .. Len(toHub') : FromTool(toHub[i])'
    <3> SUFFICES ASSUME NEW i \in 1 .. l + 1 PROVE FromTool(toHub[i])'
      BY <1>7
    <3>1. CASE i \in 1 .. l
      BY <2>2, <3>1
    <3>2. CASE i = l + 1
      BY <1>7, <2>1, <3>2 DEF FromTool
    <3> QED
      BY <1>8, <3>1, <3>2
  <2> QED
    BY <1>1, <1>2, <2>3, <2>4, <2>5 DEF UnderWay
<1>11. /\ InHub' = InHub \union {l + 1} /\ (InService' <=> InService) /\ Come' = Come
  <2>1. pc' = pc /\ arrived' = arrived
    BY <1>2 DEF vars
  <2>2. InHub' = InHub \union {l + 1}
    <3>1. \A i \in 1 .. l : i \in 1 .. l + 1
      BY <1>7
    <3>2. l + 1 \in 1 .. l + 1
      BY <1>7
    <3> QED
      BY <1>2, <1>4, <1>6, <1>7, <1>8, <3>1, <3>2 DEF InHub, Mine, l
  <2> QED
    BY <1>2, <2>1, <2>2 DEF InService, Come, Mine
<1>12. Fitting'
  <2> DEFINE Behind(k) == token' < TokenModulus => k <= token' /\ k # token'
  <2>1. ASSUME NEW k \in 0 .. TokenModulus - 1, token < TokenModulus => k <= token PROVE Behind(k)
    <3>1. TokenModulus \in Nat
      BY SocketPorts
    <3> QED
      BY <1>2, <1>4, <2>1, <3>1
  <2> HIDE DEF Behind
  <2>2. ASSUME NEW i \in InHub PROVE RequestFits(toHub[i])'
    <3>1. i \in 1 .. l /\ Request(toHub[i]) /\ RequestFits(toHub[i])
      BY <1>1, <2>2 DEF InHub, UnderWay, FromTool, Fitting, l
    <3>2. Behind(At(toHub[i], 43))
      BY <2>1, <3>1, TokenOf DEF RequestFits, Fits
    <3> QED
      BY <1>7, <3>1, <3>2 DEF RequestFits, Fits, Behind
  <2>3. RequestFits(d)'
    BY <1>2, <1>4, <1>5, <1>6 DEF RequestFits, Fits
  <2>4. \A i \in InHub' : RequestFits(toHub[i])'
    <3> SUFFICES ASSUME NEW i \in InHub' PROVE RequestFits(toHub[i])'
      OBVIOUS
    <3>1. CASE i \in InHub
      BY <2>2, <3>1
    <3>2. CASE i = l + 1
      BY <1>7, <2>3, <3>2 DEF RequestFits
    <3> QED
      BY <1>11, <3>1, <3>2
  <2>5. InService => RequestFits(arrived)'
    <3> SUFFICES ASSUME InService PROVE RequestFits(arrived)'
      OBVIOUS
    <3>1. Request(arrived) /\ RequestFits(arrived)
      BY <1>1, ServiceIs DEF FromTool, Fitting
    <3>2. Behind(At(arrived, 43))
      BY <2>1, <3>1, TokenOf DEF RequestFits, Fits
    <3>3. arrived' = arrived
      BY <1>2 DEF vars
    <3> QED
      BY <3>2, <3>3 DEF RequestFits, Fits, Behind
  <2>6. \A r \in Come : ReplyFits(r)'
    <3> SUFFICES ASSUME NEW r \in Come PROVE ReplyFits(r)'
      OBVIOUS
    <3>1. ReplyFits(r) /\ r.token \in 0 .. TokenModulus - 1
      BY <1>1, <1>4 DEF Fitting, Come, Mine, UnderWay
    <3>2. Behind(r.token)
      BY <2>1, <3>1 DEF ReplyFits, Fits
    <3> QED
      BY <3>2 DEF ReplyFits, Fits, Behind
  <2> QED
    BY <1>11, <2>4, <2>5, <2>6 DEF Fitting
<1>13. Single'
  <2> SUFFICES ASSUME ~copied PROVE Single'
    BY <1>2 DEF Single
  <2>1. InHub = {} /\ ~InService /\ Come = {}
    BY <1>1 DEF Single
  <2>2. InHub' = {l + 1} /\ ~InService' /\ Come' = {}
    BY <1>11, <2>1
  <2>3. At(toHub'[l + 1], 43) = token' % TokenModulus
    BY <1>2, <1>6, <1>7 DEF t
  <2> QED
    BY <1>2, <2>2, <2>3 DEF Single
<1>14. AcceptsOwnReply' /\ DiesForReason'
  BY <1>1, <1>2 DEF AcceptsOwnReply, DiesForReason
<1> QED
  BY <1>3, <1>9, <1>10, <1>12, <1>13, <1>14 DEF ToolInvariant

(* A frame of another sender arrives: it does not come from the tool.      *)
LEMMA OtherFresh ==
  ASSUME ToolInvariant, OtherFrame
  PROVE  arrived' \in Arrivals /\ ~InService' /\ InHub' = InHub /\ Come' = Come
<1>1. PICK f \in Arrivals : Receive(f)
  BY DEF OtherFrame, Arrive
<1>2. arrived' = f /\ UNCHANGED toolVars
  BY <1>1 DEF Receive, OtherFrame
<1>3. ~InService'
  <2>1. socket # 0 => socket \in 1 .. MaxStarts
    BY SocketPorts DEF ToolInvariant, ToolTyped
  <2>2. ETH + IP = 34
    BY DEF ETH, IP
  <2>3. IsUDP(f) /\ socket # 0 => Port(f) # PortOf(socket)
    BY <2>1, <2>2, OtherPortsAssumption DEF Port
  <2> QED
    BY <1>2, <2>3 DEF InService, Mine, toolVars
<1>4. InHub' = InHub /\ Come' = Come
  BY <1>2 DEF InHub, Come, Mine, toolVars
<1> QED
  BY <1>2, <1>3, <1>4

LEMMA OtherStep ==
  ASSUME ToolInvariant, OtherFrame
  PROVE  ToolInvariant'
<1>1. Invariant /\ ToolTyped /\ UnderWay /\ Fitting /\ Single /\ AcceptsOwnReply /\ DiesForReason
  BY DEF ToolInvariant
<1>2. PICK f \in Arrivals : Receive(f)
  BY DEF OtherFrame, Arrive
<1>3. pc = "idle" /\ pc' = "process" /\ arrived' = f /\ UNCHANGED toolVars
  BY <1>2 DEF Receive, OtherFrame
<1>4. Invariant'
  BY <1>1, <1>2, ReceiveStep, ArrivalsAssumption
<1>5. ToolTyped'
  BY <1>1, <1>3 DEF ToolTyped, toolVars
<1>6. UnderWay'
  BY <1>1, <1>3 DEF UnderWay, FromTool, toolVars
<1>7. ~InService'
  BY OtherFresh
<1>8. InHub' = InHub /\ Come' = Come /\ UNCHANGED <<tool, token, command, toHub, toTool, copied>>
  BY <1>3, OtherFresh DEF toolVars
<1>9. Fitting'
  BY <1>1, <1>7, <1>8 DEF Fitting, RequestFits, ReplyFits, Fits
<1>10. Single'
  BY <1>1, <1>7, <1>8 DEF Single
<1>11. AcceptsOwnReply' /\ DiesForReason'
  BY <1>1, <1>3 DEF AcceptsOwnReply, DiesForReason, toolVars
<1> QED
  BY <1>4, <1>5, <1>6, <1>9, <1>10, <1>11 DEF ToolInvariant

(* The hub takes the oldest request.                                       *)
LEMMA OldestTaken ==
  ASSUME toHub \in Seq(Seq(Byte)), toHub # <<>>, toHub' = Tail(toHub), NEW f, f = Head(toHub),
         NEW l, l = Len(toHub)
  PROVE  /\ toHub' \in Seq(Seq(Byte)) /\ l \in Nat /\ 1 \in 1 .. l /\ Len(toHub') = l - 1 /\ f = toHub[1]
         /\ \A i \in 1 .. l - 1 : toHub'[i] = toHub[i + 1]
<1>1. l \in Nat \ {0}
  BY EmptySeq
<1>2. Tail(toHub) \in Seq(Seq(Byte)) /\ Len(Tail(toHub)) = l - 1
      /\ \A i \in 1 .. Len(Tail(toHub)) : Tail(toHub)[i] = toHub[i + 1]
  BY HeadTailProperties
<1> QED
  BY <1>1, <1>2

LEMMA TakeStep ==
  ASSUME ToolInvariant, HubReceives
  PROVE  ToolInvariant'
<1> DEFINE l == Len(toHub)
<1>1. Invariant /\ ToolTyped /\ UnderWay /\ Fitting /\ Single /\ AcceptsOwnReply /\ DiesForReason
  BY DEF ToolInvariant
<1>a. PICK f : f = Head(toHub)
  OBVIOUS
<1>2. /\ toHub # <<>> /\ Receive(f) /\ toHub' = Tail(toHub)
      /\ UNCHANGED <<tool, token, socket, peer, command, toTool, accepted, requests, lost, copied>>
  BY <1>a DEF HubReceives
<1>3. pc = "idle" /\ pc' = "process" /\ arrived' = f
  BY <1>2 DEF Receive
<1>4. /\ toHub' \in Seq(Seq(Byte)) /\ l \in Nat /\ 1 \in 1 .. l /\ Len(toHub') = l - 1 /\ f = toHub[1]
      /\ \A i \in 1 .. l - 1 : toHub'[i] = toHub[i + 1]
  BY <1>1, <1>2, <1>a, OldestTaken DEF ToolTyped
<1> HIDE DEF l
<1>5. \A i \in 1 .. l - 1 : i + 1 \in 1 .. l /\ i + 1 # 1
  BY <1>4
<1>6. FromTool(f) /\ Request(f) /\ WellMade(f) /\ IsUDP(f)
  BY <1>1, <1>4 DEF UnderWay, FromTool, Request, l
<1>7. Invariant'
  BY <1>1, <1>2, <1>6, ReceiveStep
<1>8. ToolTyped'
  BY <1>1, <1>2, <1>4 DEF ToolTyped
<1>9. UnderWay'
  <2>1. FromTool(arrived)'
    BY <1>2, <1>3, <1>6 DEF FromTool
  <2>2. \A i \in 1 .. l - 1 : FromTool(toHub[i])'
    BY <1>1, <1>2, <1>4, <1>5 DEF UnderWay, FromTool, l
  <2>3. \A i \in 1 .. Len(toHub') : FromTool(toHub[i])'
    BY <1>4, <2>2
  <2> QED
    BY <1>1, <1>2, <2>1, <2>3 DEF UnderWay
<1>10. /\ \A i \in InHub' : i \in 1 .. l - 1 /\ i + 1 \in InHub /\ toHub'[i] = toHub[i + 1] /\ i + 1 # 1
       /\ InService' <=> 1 \in InHub
       /\ Come' = Come
  <2>1. \A i \in InHub' : i \in 1 .. l - 1 /\ i + 1 \in InHub /\ toHub'[i] = toHub[i + 1] /\ i + 1 # 1
    BY <1>2, <1>4, <1>5 DEF InHub, Mine, l
  <2>2. InService' <=> 1 \in InHub
    BY <1>2, <1>3, <1>4, <1>6 DEF InService, InHub, Mine, l
  <2>3. Come' = Come
    BY <1>2 DEF Come, Mine
  <2> QED
    BY <2>1, <2>2, <2>3
<1>11. Fitting'
  <2>1. \A i \in InHub' : RequestFits(toHub[i])'
  BY <1>1, <1>2, <1>10, ZenonT(60) DEF Fitting, RequestFits, Fits
  <2>2. InService' => RequestFits(arrived)'
    BY <1>1, <1>2, <1>3, <1>4, <1>10 DEF Fitting, RequestFits, Fits
  <2>3. \A r \in Come : ReplyFits(r)'
    BY <1>1, <1>2 DEF Fitting, ReplyFits, Fits
  <2> QED
    BY <1>10, <2>1, <2>2, <2>3 DEF Fitting
<1>12. Single'
  <2> SUFFICES ASSUME ~copied PROVE Single'
    BY <1>2 DEF Single
  <2>1. /\ tool # "waiting" => InHub = {} /\ Come = {}
        /\ InHub # {} => Come = {}
        /\ \A i, j \in InHub : i = j
        /\ \A i \in InHub : At(toHub[i], 43) = token % TokenModulus
        /\ \A r, q \in Come : r = q
        /\ \A r \in Come : r.token = token % TokenModulus
    BY <1>1 DEF Single
  <2>2. tool' # "waiting" => InHub' = {} /\ ~InService' /\ Come' = {}
    BY <1>2, <1>10, <2>1
  <2>3. (InHub' # {} => Come' = {}) /\ (InService' => Come' = {}) /\ ~(InHub' # {} /\ InService')
    BY <1>10, <2>1
  <2>4. \A i, j \in InHub' : i = j
    <3> SUFFICES ASSUME NEW i \in InHub', NEW j \in InHub' PROVE i = j
      OBVIOUS
    <3>1. i + 1 = j + 1 /\ i \in 1 .. l - 1 /\ j \in 1 .. l - 1
      BY <1>10, <2>1
    <3> QED
      BY <1>4, <3>1
  <2>5. /\ \A i \in InHub' : At(toHub'[i], 43) = token % TokenModulus
        /\ InService' => At(arrived', 43) = token % TokenModulus
    BY <1>3, <1>4, <1>10, <2>1
  <2> QED
    BY <1>2, <1>10, <2>1, <2>2, <2>3, <2>4, <2>5 DEF Single
<1>13. AcceptsOwnReply' /\ DiesForReason'
  BY <1>1, <1>2 DEF AcceptsOwnReply, DiesForReason
<1> QED
  BY <1>7, <1>8, <1>9, <1>11, <1>12, <1>13 DEF ToolInvariant

(* The reply the hub makes of what is in service.                          *)
LEMMA ReplyMade ==
  ASSUME ToolInvariant, Process, answer' # <<>>, IsUDP(answer'), NEW r, r = Reply(answer')
  PROVE  /\ IsUDP(arrived) /\ r.code \in {ACK, NAK}
         /\ Len(arrived) >= 42 => r.port = Port(arrived)
         /\ Request(arrived) => RepliesTo(r, arrived)
<1>1. Typed /\ Round
  BY DEF ToolInvariant, Invariant
<1>2. PICK d \in Machines :
        /\ config' = d.config /\ answer' = Field(d.buffer, 0, d.size)
        /\ d.size # 0 => Owes(d.buffer, buffer, d.size, d.config)
  BY <1>1, Processed
<1>3. Bytes(d.buffer, BufferSize) /\ d.size \in 0 .. BufferSize
  BY MachineParts
<1>4. InFront(arrived, buffer)
  BY <1>1 DEF Round, Process
<1>5. d.size # 0
  <2>1. ASSUME d.size = 0 PROVE FALSE
    <3>1. Bytes(Field(d.buffer, 0, 0), 0)
      BY <1>3, Room, BytesField
    <3>2. answer' \in Seq(Byte) /\ Len(answer') = 0
      BY <1>2, <2>1, <3>1 DEF Bytes
    <3> QED
      BY <3>2, EmptySeq
  <2> QED
    BY <2>1
<1>6. Bytes(answer', d.size) /\ 34 <= d.size /\ Owes(answer', buffer, d.size, d.config)
  BY <1>2, <1>3, <1>5, OwesKept
<1>7. d.size \in Nat /\ d.size <= BufferSize
  BY <1>3, Room
<1> QED
  BY <1>4, <1>6, <1>7, AnswerTells

(* A request of the tool is in service: the reply goes to its port and     *)
(* fits if the request did.  Another datagram's goes to another port.      *)
LEMMA ReplyFollows ==
  ASSUME ToolInvariant, Process, answer' # <<>>, IsUDP(answer'), NEW r, r = Reply(answer')
  PROVE  /\ r.code \in {ACK, NAK}
         /\ \A s \in 1 .. MaxStarts : r.port = PortOf(s) => s <= socket /\ r.token \in 0 .. TokenModulus - 1
         /\ Mine(r.port) => InService /\ RepliesTo(r, arrived) /\ ReplyFits(r)
<1>1. ToolTyped /\ UnderWay /\ Fitting /\ pc = "process"
  BY DEF ToolInvariant, Process
<1>2. /\ IsUDP(arrived) /\ r.code \in {ACK, NAK}
      /\ Len(arrived) >= 42 => r.port = Port(arrived)
      /\ Request(arrived) => RepliesTo(r, arrived)
  BY ReplyMade
<1>3. CASE arrived \in Arrivals
  <2>1. Len(arrived) >= 42 /\ \A s \in 1 .. MaxStarts : Port(arrived) # PortOf(s)
    <3>1. ETH + IP + UDP = 42 /\ ETH + IP = 34
      BY DEF ETH, IP, UDP
    <3> QED
      BY <1>2, <1>3, <3>1, OtherPortsAssumption DEF Port
  <2>2. socket # 0 => socket \in 1 .. MaxStarts
    BY <1>1, SocketPorts DEF ToolTyped
  <2> QED
    BY <1>2, <2>1, <2>2 DEF Mine
<1>4. CASE FromTool(arrived)
  <2>1. Request(arrived) /\ Len(arrived) >= 42 /\ RepliesTo(r, arrived) /\ r.port = Port(arrived)
    <3>1. Request(arrived) /\ Len(arrived) >= 46 /\ Len(arrived) \in Nat
      BY <1>4, LenProperties DEF FromTool, Request, WellMade
    <3>2. Len(arrived) >= 42
      BY <3>1
    <3> QED
      BY <1>2, <3>1, <3>2
  <2>2. r.token \in 0 .. TokenModulus - 1
    BY <2>1, TokenOf DEF RepliesTo
  <2>3. ASSUME NEW s \in 1 .. MaxStarts, r.port = PortOf(s) PROVE s <= socket
    <3>1. PICK u \in 1 .. socket : Port(arrived) = PortOf(u)
      BY <1>4 DEF FromTool
    <3>2. s = u
      BY <2>1, <2>3, <3>1, SocketPorts
    <3>3. socket \in Nat
      BY <1>1, SocketPorts DEF ToolTyped
    <3> QED
      BY <3>1, <3>2, <3>3
  <2>4. ASSUME Mine(r.port) PROVE InService /\ ReplyFits(r)
    <3>1. InService
      BY <1>1, <1>2, <2>1, <2>4 DEF InService
    <3>2. RequestFits(arrived)
      BY <1>1, <3>1 DEF Fitting
    <3> QED
      BY <2>1, <3>1, <3>2, ReplyOfFitting
  <2> QED
    BY <1>2, <2>1, <2>2, <2>3, <2>4
<1> QED
  BY <1>1, <1>3, <1>4 DEF UnderWay

(* The hub serves the frame, and its answer is on its way or lost.         *)
Right(r) ==
  /\ r.code \in {ACK, NAK}
  /\ \A s \in 1 .. MaxStarts :
       r.port = PortOf(s) => s <= socket /\ r.token \in 0 .. TokenModulus - 1
  /\ Mine(r.port) => InService /\ RepliesTo(r, arrived) /\ ReplyFits(r)

LEMMA ReplySent ==
  ASSUME ToolInvariant, HubServes
  PROVE  \/ toTool' = toTool
         \/ \E r : toTool' = toTool \union {r} /\ Right(r) /\ answer' # <<>>
<1>1. Process
  BY DEF HubServes
<1>2. CASE answer' # <<>> /\ IsUDP(answer')
  <2>1. Right(Reply(answer'))
    <3>1. PICK r : r = Reply(answer')
      OBVIOUS
    <3>2. Right(r)
      BY <1>1, <1>2, <3>1, ReplyFollows DEF Right
    <3> QED
      BY <3>1, <3>2
  <2>2. toTool' = toTool \union {Reply(answer')} \/ toTool' = toTool
    BY <1>2 DEF HubServes
  <2> QED
    BY <1>2, <2>1, <2>2
<1>3. CASE ~(answer' # <<>> /\ IsUDP(answer'))
  BY <1>3 DEF HubServes
<1> QED
  BY <1>2, <1>3

(* What it adds to the replies of the tool that is running.                *)
LEMMA ReplyComes ==
  ASSUME ToolInvariant, HubServes
  PROVE  \/ Come' = Come
         \/ \E r : /\ Come' = Come \union {r} /\ answer' # <<>>
                   /\ InService /\ RepliesTo(r, arrived) /\ ReplyFits(r)
<1>1. socket' = socket
  BY DEF HubServes
<1>2. CASE toTool' = toTool
  BY <1>1, <1>2 DEF Come, Mine
<1>3. ASSUME NEW r, toTool' = toTool \union {r}, Right(r), answer' # <<>>
      PROVE  \/ Come' = Come
             \/ /\ Come' = Come \union {r} /\ answer' # <<>>
                /\ InService /\ RepliesTo(r, arrived) /\ ReplyFits(r)
  <2>1. CASE Mine(r.port)
    <3>1. Come' = Come \union {r}
      BY <1>1, <1>3, <2>1 DEF Come, Mine
    <3> QED
      BY <1>3, <2>1, <3>1 DEF Right
  <2>2. CASE ~Mine(r.port)
    BY <1>1, <1>3, <2>2 DEF Come, Mine
  <2> QED
    BY <2>1, <2>2
<1> QED
  BY <1>2, <1>3, ReplySent

LEMMA ServeStep ==
  ASSUME ToolInvariant, HubServes
  PROVE  ToolInvariant'
<1>1. Invariant /\ ToolTyped /\ UnderWay /\ Fitting /\ Single /\ AcceptsOwnReply /\ DiesForReason
  BY DEF ToolInvariant
<1>2. /\ Process /\ pc = "process" /\ pc' = "extras" /\ arrived' = arrived
      /\ UNCHANGED <<tool, token, socket, peer, command, toHub, accepted, requests, copied>>
  BY DEF HubServes, Process
<1>3. Invariant'
  BY <1>1, <1>2, ProcessStep
<1>4. InHub' = InHub /\ ~InService'
  BY <1>2 DEF InHub, InService, Mine
<1>6. ToolTyped'
  BY <1>1, <1>2 DEF ToolTyped
<1>7. UnderWay'
  <2>1. \A i \in 1 .. Len(toHub') : FromTool(toHub[i])'
    BY <1>1, <1>2 DEF UnderWay, FromTool
  <2>2. \A r \in toTool' : /\ r.code \in {ACK, NAK}
                           /\ \A s \in 1 .. MaxStarts :
                                r.port = PortOf(s) => s <= socket /\ r.token \in 0 .. TokenModulus - 1
    BY <1>1, ReplySent DEF UnderWay, Right
  <2> QED
    BY <1>2, <2>1, <2>2 DEF UnderWay
<1>8. \/ Come' = Come
      \/ \E r : /\ Come' = Come \union {r} /\ InService /\ RepliesTo(r, arrived) /\ ReplyFits(r)
  BY ReplyComes
<1>9. Fitting'
  <2>1. \A i \in InHub' : RequestFits(toHub[i])'
    BY <1>1, <1>2, <1>4 DEF Fitting, RequestFits, Fits
  <2>2. \A r \in Come' : ReplyFits(r)
    BY <1>1, <1>8 DEF Fitting
  <2>3. \A r \in Come' : ReplyFits(r)'
    BY <1>2, <2>2 DEF ReplyFits, Fits
  <2> QED
    BY <1>4, <2>1, <2>3 DEF Fitting
<1>10. Single'
  <2> SUFFICES ASSUME ~copied PROVE Single'
    BY <1>2 DEF Single
  <2>1. CASE Come' = Come
    BY <1>1, <1>2, <1>4, <2>1 DEF Single
  <2>2. ASSUME NEW r, Come' = Come \union {r}, InService, RepliesTo(r, arrived) PROVE Single'
    <3>1. /\ InHub = {} /\ Come = {} /\ tool = "waiting"
          /\ At(arrived, 43) = token % TokenModulus
      BY <1>1, <2>2 DEF Single
    <3>2. InHub' = {} /\ Come' = {r} /\ tool' = "waiting" /\ r.token = token % TokenModulus
      BY <1>2, <1>4, <2>2, <3>1 DEF RepliesTo
    <3> QED
      BY <1>2, <1>4, <3>2 DEF Single
  <2> QED
    BY <1>8, <2>1, <2>2
<1>11. AcceptsOwnReply' /\ DiesForReason'
  BY <1>1, <1>2 DEF AcceptsOwnReply, DiesForReason
<1> QED
  BY <1>3, <1>6, <1>7, <1>9, <1>10, <1>11 DEF ToolInvariant

(* The steps that nothing under way takes part in: Extras_Task, the clock, *)
(* and the tool's end.                                                     *)
LEMMA QuietStep ==
  ASSUME ToolInvariant, HubElse \/ exit_ui \/ UNCHANGED allVars
  PROVE  ToolInvariant'
<1>1. Invariant /\ ToolTyped /\ UnderWay /\ Fitting /\ Single /\ AcceptsOwnReply /\ DiesForReason
  BY DEF ToolInvariant
<1>2. /\ UNCHANGED <<token, socket, peer, command, toHub, toTool, accepted, copied>>
      /\ tool' = tool \/ (tool = "ready" /\ tool' = "closed")
  BY DEF HubElse, exit_ui, allVars, toolVars
<1>3. SendExtra \/ Restart \/ Second \/ Blink \/ UNCHANGED vars
  BY DEF HubElse, exit_ui, allVars
<1>4. arrived' = arrived /\ (pc' = "process" => pc = "process")
  BY <1>3 DEF SendExtra, Restart, Second, Blink, vars
<1>5. Invariant'
  BY <1>1, <1>3, SendExtraStep, RestartStep, BlinkStep, SecondStep
<1>6. ToolTyped'
  BY <1>1, <1>2 DEF ToolTyped
<1>7. UnderWay'
  <2>1. \A i \in 1 .. Len(toHub') : FromTool(toHub[i])'
    BY <1>1, <1>2 DEF UnderWay, FromTool
  <2>2. FromTool(arrived) => FromTool(arrived)'
    BY <1>2, <1>4 DEF FromTool
  <2> QED
    BY <1>1, <1>2, <1>4, <2>1, <2>2 DEF UnderWay
<1>8. InHub' = InHub /\ (InService' => InService) /\ Come' = Come
  BY <1>2, <1>4 DEF InHub, InService, Come, Mine
<1>9. Fitting'
  BY <1>1, <1>2, <1>4, <1>8 DEF Fitting, RequestFits, ReplyFits, Fits
<1>10. Single'
  BY <1>1, <1>2, <1>4, <1>8 DEF Single
<1>11. AcceptsOwnReply' /\ DiesForReason'
  BY <1>1, <1>2 DEF AcceptsOwnReply, DiesForReason
<1> QED
  BY <1>5, <1>6, <1>7, <1>9, <1>10, <1>11 DEF ToolInvariant

(* recv returns a reply: it is one of the tool that waits, and unless it   *)
(* comes again there is no other.                                          *)
LEMMA ReplyTaken ==
  ASSUME ToolInvariant, NEW r \in toTool, Received(r), tool' \in {"closed", "ready", "dead"},
         UNCHANGED <<vars, token, socket, peer, command, toHub>>
  PROVE  /\ Invariant' /\ ToolTyped' /\ UnderWay' /\ Fitting' /\ Single'
         /\ r \in Come /\ (~copied' => ~copied)
<1>1. Invariant /\ ToolTyped /\ UnderWay /\ Fitting /\ Single /\ tool = "waiting" /\ r.port = PortOf(socket)
  BY DEF ToolInvariant, Received
<1>2. \/ toTool' = toTool \ {r} /\ copied' = copied
      \/ toTool' = toTool /\ copied' = TRUE
  BY DEF Received
<1>3. r \in Come
  BY <1>1 DEF Come, Mine, ToolTyped
<1>4. Invariant'
  BY <1>1, SecondStep
<1>5. ToolTyped'
  BY <1>1, <1>2 DEF ToolTyped
<1>6. pc' = pc /\ arrived' = arrived
  BY DEF vars
<1>7. UnderWay'
  <2>1. \A i \in 1 .. Len(toHub') : FromTool(toHub[i])'
    BY <1>1 DEF UnderWay, FromTool
  <2>2. FromTool(arrived) => FromTool(arrived)'
    BY <1>6 DEF FromTool
  <2> QED
    BY <1>1, <1>2, <1>6, <2>1, <2>2 DEF UnderWay
<1>8. InHub' = InHub /\ (InService' <=> InService) /\ Come' \subseteq Come
      /\ (~copied' => Come' = Come \ {r} /\ ~copied)
  BY <1>2, <1>6 DEF InHub, InService, Come, Mine
<1>9. Fitting'
  <2>1. \A i \in InHub : RequestFits(toHub[i])'
    BY <1>1 DEF Fitting, RequestFits, Fits
  <2>2. InService => RequestFits(arrived)'
    BY <1>1, <1>6 DEF Fitting, RequestFits, Fits
  <2>3. \A q \in Come : ReplyFits(q)'
    BY <1>1 DEF Fitting, ReplyFits, Fits
  <2> QED
    BY <1>8, <2>1, <2>2, <2>3 DEF Fitting
<1>10. Single'
  <2> SUFFICES ASSUME ~copied' PROVE Single'
    BY DEF Single
  <2>1. InHub' = {} /\ ~InService' /\ Come' = {}
    BY <1>1, <1>3, <1>8 DEF Single
  <2> QED
    BY <2>1 DEF Single
<1> QED
  BY <1>3, <1>4, <1>5, <1>7, <1>8, <1>9, <1>10

(* The reply with the last token answers the last command.                 *)
LEMMA AcceptStep ==
  ASSUME ToolInvariant, Accept
  PROVE  ToolInvariant'
<1>1. PICK r \in toTool :
        /\ Received(r) /\ OwnToken(r)
        /\ tool' = (IF r.code = ACK /\ command.op \in Exits THEN "closed" ELSE "ready")
        /\ accepted' = [command |-> command, op |-> r.op, text |-> r.text]
        /\ UNCHANGED <<vars, token, socket, peer, command, toHub, requests, lost>>
  BY DEF Accept
<1>2. /\ Invariant' /\ ToolTyped' /\ UnderWay' /\ Fitting' /\ Single'
      /\ r \in Come
  BY <1>1, ReplyTaken
<1>3. ReplyFits(r) /\ r.token \in 0 .. TokenModulus - 1
  BY <1>2, SocketPorts DEF ToolInvariant, Fitting, UnderWay, Come, Mine, ToolTyped
<1>4. r.token = token /\ token < TokenModulus
  BY <1>1, <1>3, SocketPorts DEF OwnToken
<1>5. r.op = command.op /\ (OperandLength(r.op) = 6 => (r.text # <<>> => IsPrefix(r.text, command.argument)))
  BY <1>3, <1>4 DEF ReplyFits, Fits, ToolInvariant, ToolTyped
<1>6. AcceptsOwnReply'
  <2>1. OperandLength(r.op) > 0 => OperandLength(r.op) = 6
    BY OperandIs
  <2> QED
    BY <1>1, <1>5, <2>1 DEF AcceptsOwnReply
<1>7. DiesForReason'
  BY <1>1 DEF DiesForReason
<1> QED
  BY <1>2, <1>6, <1>7 DEF ToolInvariant

(* The tool dies only of a reply that came twice, or when its token is     *)
(* beyond what a byte can hold.                                            *)
LEMMA DieStep ==
  ASSUME ToolInvariant, Die
  PROVE  ToolInvariant'
<1>1. PICK r \in toTool :
        /\ Received(r) /\ (~OwnToken(r) \/ r.code \notin {ACK, NAK})
        /\ tool' = "dead"
        /\ UNCHANGED <<vars, token, socket, peer, command, toHub, accepted, requests, lost>>
  BY DEF Die
<1>2. /\ Invariant' /\ ToolTyped' /\ UnderWay' /\ Fitting' /\ Single'
      /\ r \in Come /\ (~copied' => ~copied)
  BY <1>1, ReplyTaken
<1>3. AcceptsOwnReply'
  BY <1>1 DEF ToolInvariant, AcceptsOwnReply
<1>4. DiesForReason'
  <2> SUFFICES ASSUME ~copied' PROVE token >= TokenModulus
    BY <1>1, <1>2 DEF DiesForReason, ToolTyped
  <2>1. r.token = token % TokenModulus /\ r.code \in {ACK, NAK}
    BY <1>2 DEF ToolInvariant, Single, UnderWay
  <2>2. token \in Nat /\ r.token # token
    BY <1>1, <2>1 DEF ToolInvariant, ToolTyped, OwnToken
  <2>3. ~(token < TokenModulus)
    BY <2>1, <2>2, Remainder
  <2> QED
    BY <2>2, <2>3, SocketPorts
<1> QED
  BY <1>2, <1>3, <1>4 DEF ToolInvariant

-----------------------------------------------------------------------------
(* The addresses that stand for an empty or zero input.                    *)
LEMMA DefaultBytes ==
  /\ \A d \in {<<2, 0, 2, 0, 2, 0>>, <<2, 80, 139, 0, 0, 1>>} : Bytes(d, 6)
  /\ \A d \in {<<192, 168, 108, 127>>, <<192, 168, 108, 1>>} : Bytes(d, 4)
<1>1. Bytes(<<2, 0, 2, 0, 2, 0>>, 6) /\ Bytes(<<2, 80, 139, 0, 0, 1>>, 6)
  BY DEF Bytes, Byte
<1>2. Bytes(<<192, 168, 108, 127>>, 4) /\ Bytes(<<192, 168, 108, 1>>, 4)
  BY DEF Bytes, Byte
<1> QED
  BY <1>1, <1>2

(* What the user chooses is a command: an operation, and its operand if it *)
(* takes one.                                                              *)
LEMMA Chosen ==
  ASSUME NEW f \in MenuChoices, NEW a \in Arguments(functions[f]), NEW op, op = Letter(functions[f])
  PROVE  op \in Byte /\ \E n \in {0, 6} : Bytes(a, n) /\ (OperandLength(op) = 6 => n = 6)
<1> DEFINE c == functions[f]
<1>1. c \in {">", "0", "A", "M", "I", "T", "e", "E", "F", "u", "c", "a", "p", "t", "b"}
  <2>1. f \in DOMAIN functions
    BY Entered, Zenon
  <2> QED
    BY <2>1 DEF functions
<1> HIDE DEF c
<1>2. Letter(c) \in Byte
  BY <1>1, Letters DEF Byte
<1>3. CASE c \in {"A", "M"}
  <2>1. PICK d \in {<<2, 0, 2, 0, 2, 0>>, <<2, 80, 139, 0, 0, 1>>} : a \in EnteredMAC(d)
    BY <1>3 DEF Arguments, c
  <2>2. a \in MACs \/ a = d
    BY <2>1 DEF EnteredMAC, OrDefault
  <2>3. Bytes(a, 6)
    BY <2>2, Entered, DefaultBytes
  <2> QED
    BY <1>2, <2>3 DEF c
<1>4. CASE c \in {"I", "T"}
  <2>0. PICK d \in {<<192, 168, 108, 127>>, <<192, 168, 108, 1>>} : a \in EnteredIPPort(d)
    BY <1>4 DEF Arguments, c
  <2>a. PICK typed \in IPs, entered \in Ports :
          a = OrDefault(typed, ZeroIP(typed), d) \o LE16(OrDefault(entered, entered = 0, 7073))
    BY <2>0 DEF EnteredIPPort
  <2> DEFINE ip   == OrDefault(typed, ZeroIP(typed), d)
             port == OrDefault(entered, entered = 0, 7073)
  <2>1. a = ip \o LE16(port) /\ (ip = typed \/ ip = d) /\ (port = entered \/ port = 7073)
    BY <2>a DEF OrDefault
  <2> HIDE DEF ip, port
  <2>2. Bytes(ip, 4) /\ port \in Int
    <3>1. Bytes(typed, 4) /\ entered \in Int /\ Bytes(d, 4)
      BY Entered, DefaultBytes, Zenon
    <3> QED
      BY <2>1, <3>1
  <2>3. Bytes(LE16(port), 2)
    BY <2>2, WordBytes DEF Bytes
  <2>4. Bytes(ip, 4) /\ Bytes(LE16(port), 2)
    BY <2>2, <2>3
  <2>5. Bytes(a, 6)
    BY <2>1, <2>4, BytesCat
  <2> QED
    BY <1>2, <2>5 DEF c
<1>5. CASE c \notin {"A", "M", "I", "T"}
  <2>1. a = <<>>
    BY <1>1, <1>5 DEF Arguments, c
  <2>2. Bytes(a, 0)
    BY <2>1, EmptySeq DEF Bytes
  <2>3. OperandLength(Letter(c)) # 6
    <3>1. Letter(c) \notin {84, 73, 77, 65}
      BY <1>1, <1>5, Letters
    <3> QED
      BY <3>1, OperandIs
  <2> QED
    BY <1>2, <2>2, <2>3 DEF c
<1> QED
  BY <1>3, <1>4, <1>5

LEMMA ToolInit1 == ToolInit => ToolInvariant
<1> SUFFICES ASSUME ToolInit PROVE ToolInvariant
  OBVIOUS
<1>1. Init /\ pc = "idle" /\ tool = "closed" /\ token = 0 /\ socket = 0 /\ toHub = <<>> /\ toTool = {}
      /\ accepted = NoAccepted /\ copied = FALSE
  BY DEF ToolInit, Init
<1>2. Invariant
  BY <1>1, InitInvariant
<1>3. <<>> \in Seq(Seq(Byte)) /\ Len(<<>>) = 0
  BY EmptySeq
<1>4. InHub = {} /\ ~InService /\ Come = {}
  BY <1>1, <1>3 DEF InHub, InService, Come
<1>5. ToolTyped
  <2>1. 0 \in Nat /\ 0 \in 0 .. MaxStarts
    BY SocketPorts
  <2>2. token \in Nat /\ socket \in 0 .. MaxStarts
    BY <1>1, <2>1, Zenon
  <2>3. tool \in {"closed", "ready", "waiting", "dead"} /\ (tool # "closed" => socket # 0 /\ Bytes(peer, 12))
    BY <1>1, Zenon
  <2>4. toHub \in Seq(Seq(Byte)) /\ copied \in BOOLEAN
    BY <1>1, <1>3, Zenon
  <2> QED
    BY <2>2, <2>3, <2>4, Zenon DEF ToolTyped
<1>7. UnderWay
  BY <1>1, <1>3 DEF UnderWay
<1>8. Fitting
  BY <1>4 DEF Fitting
<1>9. Single
  BY <1>4 DEF Single
<1>6. AcceptsOwnReply /\ DiesForReason
  BY <1>1 DEF AcceptsOwnReply, DiesForReason, NoAccepted, NoCommand
<1> QED
  BY <1>2, <1>5, <1>6, <1>7, <1>8, <1>9 DEF ToolInvariant

LEMMA ToolNextInvariant == ToolInvariant /\ [ToolNext]_allVars => ToolInvariant'
<1> SUFFICES ASSUME ToolInvariant, [ToolNext]_allVars PROVE ToolInvariant'
  OBVIOUS
<1>1. CASE Open
  BY <1>1, OpenStep
<1>2. CASE Ui
  <2>a. PICK f \in MenuChoices : \E a \in Arguments(functions[f]) :
                                   Send([op |-> Letter(functions[f]), argument |-> a])
    BY <1>2 DEF Ui
  <2>1. PICK a \in Arguments(functions[f]) : Send([op |-> Letter(functions[f]), argument |-> a])
    BY <2>a
  <2>2. PICK c : c = [op |-> Letter(functions[f]), argument |-> a]
    OBVIOUS
  <2>3. PICK n \in {0, 6} : Bytes(a, n) /\ (OperandLength(Letter(functions[f])) = 6 => n = 6)
    BY Chosen
  <2>4. Send(c) /\ c.op \in Byte /\ Bytes(c.argument, n) /\ (OperandLength(c.op) = 6 => n = 6)
    BY <2>1, <2>2, <2>3, Chosen
  <2> QED
    BY <2>4, SendStep
<1>3. CASE exit_ui \/ HubElse \/ UNCHANGED allVars
  BY <1>3, QuietStep
<1>4. CASE Tool
  BY <1>4, AcceptStep, DieStep DEF Tool
<1>5. CASE HubReceives
  BY <1>5, TakeStep
<1>6. CASE OtherFrame
  BY <1>6, OtherStep
<1>7. CASE HubServes
  BY <1>7, ServeStep
<1> QED
  BY <1>1, <1>2, <1>3, <1>4, <1>5, <1>6, <1>7 DEF ToolNext

LEMMA ToolInvariantHolds == ToolSpec => []ToolInvariant
BY ToolInit1, ToolNextInvariant, PTL DEF ToolSpec

-----------------------------------------------------------------------------
(* The reply that cstool.pl accepts is the reply to its last request,      *)
(* although replies may come twice, the tool may be started again, and     *)
(* other frames are answered in between: it names the operation, and an    *)
(* operand comes back as far as the server returns it.                     *)
THEOREM AcceptsItsReply == ToolSpec => []AcceptsOwnReply
<1>1. ToolInvariant => AcceptsOwnReply
  BY DEF ToolInvariant
<1> QED
  BY <1>1, ToolInvariantHolds, PTL

(* The tool dies of a wrong token or code only after the network doubled a *)
(* reply, or when its token has outgrown the byte it is sent in.           *)
THEOREM DiesOnlyForReason == ToolSpec => []DiesForReason
<1>1. ToolInvariant => DiesForReason
  BY DEF ToolInvariant
<1> QED
  BY <1>1, ToolInvariantHolds, PTL

(* In the dialogue too the hub's answers go back where they belong and are *)
(* well formed, and the notices name their frames, however many requests   *)
(* the tool sends and whatever it sets.                                    *)
THEOREM DialogueIsSound == ToolSpec => [](AnswersGoBack /\ WellFormed /\ NoticeNamesFrame)
<1>1. ToolInvariant => AnswersGoBack /\ WellFormed /\ NoticeNamesFrame
  BY DEF ToolInvariant, Invariant
<1> QED
  BY <1>1, ToolInvariantHolds, PTL

-----------------------------------------------------------------------------
(* What an acknowledged command leaves.                                    *)

(* The settings that the command c made, and what its reply told of them.  *)
Taken(c, text) ==
  /\ c.op = 84 => Field(config, TIP, 6) = c.argument
  /\ c.op = 73 => Field(config, SIP, 6) = c.argument
  /\ c.op = 77 => Field(config, SMAC, 6) = c.argument
  /\ c.op = 65 => Field(config, AMAC, 6) = c.argument
  /\ c.op = 101 => text = Field(config, 0, ConfigLength)
  /\ c.op = 116 => \E n \in 0 .. clock : text = LE32(n)

(* A restart that is still to come is the command's own.                   *)
Settled(c, text) == Taken(c, text) /\ (pc = "extras" => Restarts(c.op, extra.flag))

(* A request that repeats the command.                                     *)
Repeats(f, c) ==
  At(f, 42) = c.op /\ (OperandLength(c.op) = 6 => Field(f, 46, 6) = c.argument)

(* A command that has been acknowledged stays in force until another one   *)
(* is: the requests that are still under way repeat it.                    *)
InForce ==
  accepted.command = command /\ (tool # "waiting" \/ token >= 2) =>
    /\ Settled(command, accepted.text)
    /\ \A i \in 1 .. Len(toHub) : Repeats(toHub[i], command)
    /\ pc = "process" => arrived \in Arrivals \/ Repeats(arrived, command)

(* When a reply with the last token has come, the command is in force and  *)
(* no request is under way any more.                                       *)
Answered(r) ==
  token < TokenModulus /\ r.token = token =>
    /\ Settled(command, r.text) /\ toHub = <<>>
    /\ pc = "process" => arrived \in Arrivals

(* Behind the request with the last token there is no other.               *)
Newest(f) == token < TokenModulus /\ At(f, 43) = token

Settlement ==
  /\ InForce
  /\ \A r \in Come : Answered(r)
  /\ InService /\ Newest(arrived) => toHub = <<>>
  /\ \A i \in InHub : Newest(toHub[i]) => i = Len(toHub)

(* The tokens begin with 1, and the tool is ready again only after a reply *)
(* to its last command.                                                    *)
Numbered ==
  /\ tool = "ready" /\ token >= 1 => accepted.command = command
  /\ tool = "waiting" => token >= 1
  /\ token < TokenModulus =>
       /\ \A i \in InHub : At(toHub[i], 43) >= 1
       /\ InService => At(arrived, 43) >= 1
       /\ \A r \in Come : r.token >= 1

SettlementInvariant == ToolInvariant /\ Settlement /\ Numbered

(* The time as the tool shows it is not beyond the time it was told.       *)
LEMMA UptimeOf ==
  ASSUME NEW n \in Nat
  PROVE  Uptime(LE32(n)) \in Nat /\ Uptime(LE32(n)) <= n
<1> DEFINE w(x) == ((x \div 256) % 256) * 256 + (x % 256)
           a == n % 65536
           b == n \div 65536
<1>1. ASSUME NEW x \in Nat PROVE w(x) \in Nat /\ w(x) <= x
  BY SMT
<1>2. a \in Nat /\ b \in Nat /\ 65536 * b + a = n
  BY SMT
<1> HIDE DEF a, b
<1>3. /\ At(LE32(n), 0) = a % 256 /\ At(LE32(n), 1) = (a \div 256) % 256
      /\ At(LE32(n), 2) = b % 256 /\ At(LE32(n), 3) = (b \div 256) % 256
  <2> DEFINE s == LE16(a)
             t == LE16(b)
  <2>1. LE32(n) = s \o t
    BY DEF LE32, a, b
  <2>2. s \in Seq(Byte) /\ Len(s) = 2 /\ t \in Seq(Byte) /\ Len(t) = 2
    BY <1>2, WordBytes
  <2>3. s[1] = a % 256 /\ s[2] = (a \div 256) % 256 /\ t[1] = b % 256 /\ t[2] = (b \div 256) % 256
    BY DEF LE16
  <2> HIDE DEF s, t
  <2>4. (s \o t)[1] = s[1] /\ (s \o t)[2] = s[2] /\ (s \o t)[2 + 1] = t[1] /\ (s \o t)[2 + 2] = t[2]
    BY <2>2, Cat
  <2>5. /\ At(LE32(n), 0) = s[1] /\ At(LE32(n), 1) = s[2]
        /\ At(LE32(n), 2) = t[1] /\ At(LE32(n), 3) = t[2]
    <3>1. 0 + 1 = 1 /\ 1 + 1 = 2 /\ 2 + 1 = 3 /\ 3 + 1 = 4 /\ 2 + 2 = 4
      OBVIOUS
    <3> QED
      BY <2>1, <2>4, <3>1, Zenon DEF At
  <2> QED
    BY <2>3, <2>5, Zenon
<1>4. Uptime(LE32(n)) = 65536 * w(b) + w(a)
  <2>1. /\ a % 256 \in Nat /\ (a \div 256) % 256 \in Nat /\ b % 256 \in Nat /\ (b \div 256) % 256 \in Nat
    BY <1>2, SMT
  <2> QED
    BY <1>3, <2>1, SMT DEF Uptime
<1>5. w(a) \in Nat /\ w(a) <= a /\ w(b) \in Nat /\ w(b) <= b
  BY <1>1, <1>2, SMT
<1> HIDE DEF w
<1> QED
  BY <1>2, <1>4, <1>5, SMT

(* What the tool shows of a configuration.                                 *)
LEMMA ShownOf ==
  ASSUME NEW c \in Configs
  PROVE  Shown(Field(c, 0, ConfigLength)) =
           [target |-> Field(c, TIP, 6), server |-> Field(c, SIP, 6),
            serverMAC |-> ServerMAC(c), adapterMAC |-> AdapterMAC(c)]
<1>1. Bytes(c, 30) /\ ConfigLength = 30
  BY DEF Configs, ConfigLength, Bytes
<1>2. Field(c, 0, ConfigLength) = c
  BY <1>1, WholeField
<1> QED
  BY <1>2 DEF Shown, TIP, SIP, SMAC, AMAC, ServerMAC, AdapterMAC

(* What the invariant says is what the tool may rely on.                   *)
LEMMA InForceMeans ==
  ASSUME ToolInvariant, InForce
  PROVE  SettingsInForce
<1> SUFFICES ASSUME tool # "waiting", accepted.command = command PROVE SettingsInForce
  BY DEF SettingsInForce
<1>1. Taken(command, accepted.text)
  BY DEF InForce, Settled
<1>2. config \in Configs
  BY DEF ToolInvariant, Invariant, Typed
<1>3. command.op = 101 =>
        Shown(accepted.text) = [target |-> Field(config, TIP, 6), server |-> Field(config, SIP, 6),
                                serverMAC |-> ServerMAC(config), adapterMAC |-> AdapterMAC(config)]
  BY <1>1, <1>2, ShownOf DEF Taken
<1>4. ASSUME command.op = 116 PROVE Uptime(accepted.text) <= clock
  <2>1. PICK n \in 0 .. clock : accepted.text = LE32(n)
    BY <1>1, <1>4 DEF Taken
  <2>2. n \in Nat /\ n <= clock /\ clock \in Nat
    BY BoundsAssumption DEF ToolInvariant, Invariant, Typed
  <2>3. Uptime(LE32(n)) \in Nat /\ Uptime(LE32(n)) <= n
    BY <2>2, UptimeOf
  <2> QED
    BY <2>1, <2>2, <2>3
<1> QED
  BY <1>1, <1>3, <1>4, Letters DEF SettingsInForce, Taken

(* What processing a frame does to the settings: one of another sender     *)
(* does nothing to them, a request of the tool has its operation's effect  *)
(* or none, and it has the effect when it is answered.                     *)
Carried(f) ==
  /\ Sets(At(f, 42), Field(f, 46, OperandLength(At(f, 42))), config')
  /\ Restarts(At(f, 42), extra'.flag)

LEMMA SettingsProcessed ==
  ASSUME ToolInvariant, Process
  PROVE  /\ clock' = clock
         /\ arrived \in Arrivals => config' = config /\ extra'.flag \notin {"REBOOT", "BOOTLOADER"}
         /\ Request(arrived) => (config' = config /\ extra'.flag = "PACKET") \/ Carried(arrived)
         /\ Request(arrived) /\ answer' # <<>> => Carried(arrived)
<1> DEFINE q == arrived
           b == buffer
           in == HeaderEnd(b)
           l == Len(q)
<1>1. Typed /\ Round /\ InFront(q, b) /\ clock' = clock
  BY DEF ToolInvariant, Invariant, Round, Process
<1>2. PICK d \in Machines :
        /\ config' = d.config /\ extra' = d.extra /\ answer' = Field(d.buffer, 0, d.size)
        /\ Acted(d.size # 0 /\ IsUDP(q), b, in + 8, d)
  BY <1>1, Processed
<1>3. /\ Bytes(q, l) /\ l \in Nat /\ 14 <= l /\ l <= BufferSize /\ Bytes(b, BufferSize) /\ BufferSize \in Nat
      /\ IsIP(q) => At(b, 14) = At(q, 14) /\ in = HeaderEnd(q)
  BY <1>1, FrontMakes, Room DEF InFront
<1>4. in \in Nat /\ (At(b, 14) = 69 => in = 34)
  <2>1. HeaderEnd(b) \in 14 .. 74 /\ (At(b, 14) = 69 => HeaderEnd(b) = 34)
    BY ONLY <1>3, HeaderEndIs
  <2> QED
    BY <2>1
<1> HIDE DEF in, l, b, q
<1>5. ASSUME NEW i \in Nat, i + 1 <= l PROVE At(b, i) = At(q, i)
  <2>1. i + 1 <= BufferSize
    BY <1>3, <1>5
  <2>2. Field(b, i, 1) = Field(q, i, 1)
    BY <1>1, <1>5, FrontField DEF l
  <2> QED
    BY <1>3, <1>5, <2>1, <2>2, SameByte
<1>6. CASE ~(d.size # 0 /\ IsUDP(q))
  <2>1. config' = config /\ extra'.flag = "PACKET"
    BY <1>2, <1>6 DEF Acted
  <2>2. ASSUME Request(q) PROVE answer' = <<>>
    <3>1. d.size = 0
      BY <1>6, <2>2 DEF Request
    <3>2. Bytes(d.buffer, BufferSize) /\ 0 + 0 <= BufferSize
      BY <1>3, MachineParts
    <3>3. Bytes(Field(d.buffer, 0, 0), 0)
      BY <1>3, <3>2, BytesField
    <3>4. answer' \in Seq(Byte) /\ Len(answer') = 0
      BY <1>2, <3>1, <3>3 DEF Bytes
    <3> QED
      BY <3>4, EmptySeq
  <2> QED
    BY <1>1, <2>1, <2>2 DEF q
<1>7. CASE d.size # 0 /\ IsUDP(q)
  <2> DEFINE op == At(b, in + 8)
  <2>1. /\ Sets(op, Field(b, in + 8 + 4, OperandLength(op)), config')
        /\ Restarts(op, extra'.flag)
    BY <1>2, <1>7 DEF Acted, Effect
  <2>2. ASSUME q \in Arrivals PROVE config' = config /\ extra'.flag \notin {"REBOOT", "BOOTLOADER"}
    <3>1. UDP = 8 /\ IsIP(q)
      BY <1>7 DEF UDP, IsUDP
    <3>2. l > in + 8 /\ At(q, in + 8) \notin Setting
      BY <1>3, <1>7, <2>2, <3>1, OthersAskAssumption DEF l
    <3>3. in + 8 \in Nat /\ in + 8 + 1 <= l
      BY <1>3, <1>4, <3>2
    <3>4. op \notin Setting
      BY <1>5, <3>2, <3>3
    <3> HIDE DEF op
    <3>5. op \notin {84, 73, 77, 65, 69, 70, 48, 62}
      BY <3>4, Letters DEF Setting
    <3> QED
      BY <2>1, <3>5 DEF Sets, Restarts
  <2>3. ASSUME Request(q) PROVE Carried(q)
    <3>1. At(q, 14) = 69 /\ IsIP(q) /\ 46 <= l
      BY <1>7, <2>3 DEF Request, Plain, IsUDP, ETH, l
    <3>2. in + 8 = 42 /\ in + 8 + 4 = 46
      BY <1>3, <1>4, <3>1
    <3>3. 42 + 1 <= l
      BY <1>3, <3>1
    <3>4. op = At(q, 42)
      BY <1>5, <3>2, <3>3
    <3> HIDE DEF op
    <3> DEFINE n == OperandLength(op)
    <3>5. n \in Nat /\ 46 + n <= l
      <4>1. n \in {0, 6}
        BY OperandIs
      <4>2. n = 6 => l = 52
        BY <2>3, <3>4 DEF Request, l
      <4> HIDE DEF n
      <4> QED
        BY <1>3, <3>1, <4>1, <4>2
    <3>6. Field(b, 46, n) = Field(q, 46, n)
      BY <1>1, <3>5, FrontField DEF l
    <3> QED
      BY <2>1, <3>2, <3>4, <3>6 DEF Carried
  <2> QED
    BY <1>1, <2>2, <2>3 DEF q
<1> QED
  BY <1>6, <1>7

(* The steps of the hub leave a command in force that is.                  *)
LEMMA ServesSettled ==
  ASSUME ToolInvariant, Process, NEW c, NEW text, Taken(c, text),
         arrived \in Arrivals \/ (Request(arrived) /\ Repeats(arrived, c))
  PROVE  Settled(c, text)'
<1>1. clock' = clock
  BY SettingsProcessed
<1>2. CASE config' = config /\ extra'.flag \notin {"REBOOT", "BOOTLOADER"}
  BY <1>1, <1>2 DEF Settled, Taken, Restarts
<1>3. CASE Request(arrived) /\ Repeats(arrived, c) /\ Carried(arrived)
  <2>1. At(arrived, 42) = c.op /\ (OperandLength(c.op) = 6 => Field(arrived, 46, 6) = c.argument)
    BY <1>3 DEF Repeats
  <2>2. c.op \in {84, 73, 77, 65} => Field(arrived, 46, OperandLength(c.op)) = c.argument
    BY <2>1, OperandIs
  <2>3. Sets(c.op, Field(arrived, 46, OperandLength(c.op)), config') /\ Restarts(c.op, extra'.flag)
    BY <1>3, <2>1 DEF Carried
  <2>4. Taken(c, text)'
    BY <1>1, <2>2, <2>3 DEF Sets, Taken
  <2> QED
    BY <2>3, <2>4 DEF Settled, Restarts
<1> QED
  BY <1>2, <1>3, SettingsProcessed

(* A blink is nobody's but the tool's, and sets nothing.                   *)
LEMMA BlinkSettled ==
  ASSUME ToolInvariant, Blink, NEW c, NEW text, arrived \in Arrivals \/ Repeats(arrived, c)
  PROVE  Settled(c, text)'
<1> DEFINE q == arrived
           b == buffer
           in == HeaderEnd(b)
           l == Len(q)
<1>1. InFront(q, b) /\ UnderWay /\ pc = "process" /\ pc' = "idle" /\ Blinks
  BY DEF ToolInvariant, Invariant, Round, Blink
<1>2. IsUDP(b) /\ At(b, in + 8) = 98 /\ 98 \in Setting
  BY <1>1, Letters DEF Blinks, ForServer, UDP, Setting
<1>3. /\ l \in Nat /\ l <= BufferSize /\ Bytes(q, l) /\ Bytes(b, BufferSize) /\ BufferSize \in Nat
      /\ Type(b) = Type(q)
      /\ IsIP(q) => At(b, 14) = At(q, 14) /\ At(b, 23) = At(q, 23) /\ in = HeaderEnd(q)
  BY <1>1, FrontMakes, Room DEF InFront
<1>4. in \in Nat /\ (At(b, 14) = 69 => in = 34)
  <2>1. HeaderEnd(b) \in 14 .. 74 /\ (At(b, 14) = 69 => HeaderEnd(b) = 34)
    BY ONLY <1>3, HeaderEndIs
  <2> QED
    BY <2>1
<1>5. IsUDP(q) /\ IsIP(q)
  <2>1. ETH + 9 = 23
    BY DEF ETH
  <2> HIDE DEF in, b, q
  <2> QED
    BY <1>2, <1>3, <2>1 DEF IsUDP, IsIP
<1> HIDE DEF in, l, b, q
<1>6. ASSUME NEW i \in Nat, i + 1 <= l PROVE At(b, i) = At(q, i)
  <2>1. i + 1 <= BufferSize
    BY <1>3, <1>6
  <2>2. Field(b, i, 1) = Field(q, i, 1)
    BY <1>1, <1>6, FrontField DEF l
  <2> QED
    BY <1>3, <1>6, <2>1, <2>2, SameByte
<1>7. ASSUME q \in Arrivals PROVE FALSE
  <2>1. UDP = 8
    BY DEF UDP
  <2>2. l > in + 8 /\ At(q, in + 8) \notin Setting
    BY <1>3, <1>5, <1>7, <2>1, OthersAskAssumption DEF l
  <2>3. in + 8 \in Nat /\ in + 8 + 1 <= l
    BY <1>3, <1>4, <2>2
  <2> QED
    BY <1>2, <1>6, <2>2, <2>3
<1>8. c.op = 98
  <2>1. Request(q) /\ At(q, 42) = c.op
    BY <1>1, <1>7 DEF q, UnderWay, FromTool, Repeats
  <2>2. At(q, 14) = 69 /\ 46 <= l
    BY <2>1 DEF Request, Plain, ETH, l
  <2>3. in + 8 = 42 /\ 42 + 1 <= l
    BY <1>3, <1>4, <1>5, <2>2
  <2> QED
    BY <1>2, <1>6, <2>1, <2>3
<1> QED
  BY <1>1, <1>8 DEF Settled, Taken

LEMMA ElseSettled ==
  ASSUME ToolInvariant, HubElse, NEW c, NEW text, Settled(c, text),
         pc = "process" => arrived \in Arrivals \/ Repeats(arrived, c)
  PROVE  Settled(c, text)'
<1>1. CASE SendExtra
  BY <1>1 DEF SendExtra, Settled, Taken
<1>2. CASE Second
  <2>1. /\ clock' = clock + 1 /\ config' = config /\ extra' = extra /\ pc' = pc
    BY <1>2 DEF Second
  <2>2. \A n \in 0 .. clock : n \in 0 .. clock'
    BY <2>1, BoundsAssumption DEF ToolInvariant, Invariant, Typed
  <2> QED
    BY <2>1, <2>2 DEF Settled, Taken, Restarts
<1>3. CASE Restart
  <2>1. /\ pc = "extras" /\ pc' = "idle" /\ extra.flag \in {"REBOOT", "BOOTLOADER"}
        /\ extra.flag = "REBOOT" => config' = config
    BY <1>3 DEF Restart
  <2>2. Restarts(c.op, extra.flag) /\ Taken(c, text)
    BY <2>1 DEF Settled
  <2>3. CASE extra.flag = "REBOOT"
    <3>1. c.op \in {48, 69, 70, 77, 65} /\ config' = config
      BY <2>1, <2>2, <2>3 DEF Restarts
    <3> QED
      BY <2>1, <2>2, <3>1 DEF Settled, Taken
  <2>4. CASE extra.flag = "BOOTLOADER"
    <3>1. c.op = 62
      BY <2>2, <2>4 DEF Restarts
    <3> QED
      BY <2>1, <3>1 DEF Settled, Taken
  <2> QED
    BY <2>1, <2>3, <2>4
<1>4. CASE Blink
  BY <1>4, BlinkSettled DEF Blink
<1> QED
  BY <1>1, <1>2, <1>3, <1>4 DEF HubElse

(* What has come to the running tool, and what is under way from it, has   *)
(* a token up to its last one.                                             *)
LEMMA NotAhead ==
  ASSUME ToolInvariant, token < TokenModulus
  PROVE  /\ token \in Nat /\ token + 1 \in Nat
         /\ \A i \in InHub : At(toHub[i], 43) \in Nat /\ At(toHub[i], 43) <= token
         /\ InService => At(arrived, 43) \in Nat /\ At(arrived, 43) <= token
         /\ \A r \in Come : r.token \in Nat /\ r.token <= token
<1>1. ToolTyped /\ UnderWay /\ Fitting
  BY DEF ToolInvariant
<1>2. token \in Nat /\ \A n \in 0 .. TokenModulus - 1 : n \in Nat
  BY <1>1, SocketPorts DEF ToolTyped
<1>3. ASSUME NEW i \in InHub PROVE At(toHub[i], 43) \in Nat /\ At(toHub[i], 43) <= token
  <2>1. Request(toHub[i]) /\ RequestFits(toHub[i])
    BY <1>1, <1>3 DEF InHub, UnderWay, FromTool, Fitting
  <2> QED
    BY <1>2, <2>1, TokenOf DEF RequestFits, Fits
<1>4. ASSUME InService PROVE At(arrived, 43) \in Nat /\ At(arrived, 43) <= token
  <2>1. Request(arrived) /\ RequestFits(arrived)
    BY <1>1, <1>4, ServiceIs DEF FromTool, Fitting
  <2> QED
    BY <1>2, <2>1, TokenOf DEF RequestFits, Fits
<1>5. ASSUME NEW r \in Come PROVE r.token \in Nat /\ r.token <= token
  <2>1. ReplyFits(r) /\ r \in toTool /\ r.port = PortOf(socket) /\ socket \in 1 .. MaxStarts
    BY <1>1, <1>5, SocketPorts DEF Come, Mine, ToolTyped, Fitting
  <2>2. r.token \in 0 .. TokenModulus - 1
    BY <1>1, <2>1 DEF UnderWay
  <2> QED
    BY <1>2, <2>1, <2>2 DEF ReplyFits, Fits
<1> QED
  BY <1>2, <1>3, <1>4, <1>5

(* The tool is started.                                                    *)
LEMMA OpenSettles ==
  ASSUME SettlementInvariant, Open
  PROVE  Settlement' /\ Numbered'
<1>1. InForce /\ ToolInvariant
  BY DEF SettlementInvariant, Settlement
<1>2. /\ UNCHANGED vars /\ tool \in {"closed", "dead"} /\ tool' = "ready" /\ token' = 0
      /\ UNCHANGED <<command, toHub, toTool, accepted>>
  BY DEF Open
<1>3. InHub' = {} /\ ~InService' /\ Come' = {}
  BY <1>1, OpenFresh
<1>4. InForce'
  BY <1>1, <1>2 DEF InForce, Settled, Taken, Repeats, vars
<1>5. Numbered'
  BY <1>2, <1>3 DEF Numbered
<1> QED
  BY <1>3, <1>4, <1>5 DEF Settlement

(* A request is sent: if the command is one that is in force, it repeats   *)
(* it.                                                                     *)
LEMMA SendSettles ==
  ASSUME SettlementInvariant, NEW c, Send(c), c.op \in Byte, NEW n \in {0, 6}, Bytes(c.argument, n),
         OperandLength(c.op) = 6 => n = 6
  PROVE  Settlement' /\ Numbered'
<1> DEFINE l == Len(toHub)
<1>1. ToolInvariant /\ InForce /\ Numbered /\ tool = "ready"
  BY DEF SettlementInvariant, Settlement, Send
<1>a. PICK d : Sent(d, c)
  BY <1>1, RequestSent
<1>2. /\ Request(d) /\ Port(d) = PortOf(socket) /\ Repeats(d, c)
      /\ token + 1 < TokenModulus => At(d, 43) = token + 1
      /\ toHub' = Append(toHub, d)
  BY <1>a DEF Sent, Repeats
<1>3. /\ UNCHANGED vars /\ token' = token + 1 /\ command' = c
      /\ tool' = "waiting" /\ UNCHANGED <<socket, toTool, accepted>> /\ arrived' = arrived /\ pc' = pc
  BY DEF Send, vars
<1>4. token \in Nat /\ toHub \in Seq(Seq(Byte)) /\ TokenModulus \in Nat
  BY <1>1, SocketPorts DEF ToolInvariant, ToolTyped
<1>5. /\ l \in Nat /\ Len(toHub') = l + 1 /\ toHub'[l + 1] = d
      /\ \A i \in 1 .. l : toHub'[i] = toHub[i]
  <2>1. d \in Seq(Byte)
    BY <1>2 DEF Request, WellMade
  <2> QED
    BY <1>2, <1>4, <2>1, AppendProperties, LenProperties
<1>6. (\A i \in InHub' : i \in InHub \/ i = l + 1) /\ InHub \subseteq 1 .. l
      /\ (InService' <=> InService) /\ Come' = Come
  <2>1. \A i \in 1 .. Len(toHub') : i \in 1 .. l \/ i = l + 1
    BY <1>5
  <2>2. InHub \subseteq 1 .. l
    BY DEF InHub
  <2> HIDE DEF l
  <2>3. ASSUME NEW i \in InHub' PROVE i \in InHub \/ i = l + 1
    BY <1>3, <1>5, <2>1, <2>3 DEF InHub, Mine, l
  <2> QED
    BY <1>3, <2>2, <2>3 DEF InService, Come, Mine
<1> HIDE DEF l
<1>7. InForce'
  <2> SUFFICES ASSUME accepted' = accepted, accepted.command = c, token + 1 >= 2 PROVE InForce'
    BY <1>3 DEF InForce
  <2>1. accepted.command = command /\ command = c
    <3>1. token >= 1
      BY <1>4
    <3> QED
      BY <1>1, <3>1 DEF Numbered
  <2>2. /\ Settled(command, accepted.text)
        /\ \A i \in 1 .. l : Repeats(toHub[i], command)
        /\ pc = "process" => arrived \in Arrivals \/ Repeats(arrived, command)
    BY <1>1, <2>1 DEF InForce, l
  <2>3. Settled(command, accepted.text)'
    BY <1>3, <2>1, <2>2 DEF Settled, Taken, vars
  <2>4. \A i \in 1 .. Len(toHub') : Repeats(toHub'[i], c)
    <3>1. \A i \in 1 .. l + 1 : i \in 1 .. l \/ i = l + 1
      BY <1>5
    <3> QED
      BY <1>2, <1>5, <2>1, <2>2, <3>1
  <2> QED
    BY <1>3, <2>1, <2>2, <2>3, <2>4 DEF InForce, Repeats
<1>8. ASSUME token' < TokenModulus
      PROVE  /\ token < TokenModulus /\ token + 1 # 0 /\ At(d, 43) = token + 1 /\ token + 1 >= 1
             /\ \A k \in Nat : k <= token => k # token + 1
  BY <1>2, <1>3, <1>4, <1>8
<1>9. ~(token + 1 < TokenModulus) \/
        /\ \A i \in InHub : At(toHub[i], 43) # token + 1
        /\ InService => At(arrived, 43) # token + 1
        /\ \A r \in Come : r.token # token + 1
  BY <1>1, <1>3, <1>8, NotAhead
<1>10. Settlement'
  <2>1. \A r \in Come' : Answered(r)'
    BY <1>3, <1>6, <1>9 DEF Answered
  <2>2. InService' => ~Newest(arrived)'
    BY <1>3, <1>6, <1>9 DEF Newest
  <2>3. \A i \in InHub' : Newest(toHub[i])' => i = Len(toHub')
    BY <1>3, <1>5, <1>6, <1>9 DEF Newest
  <2> QED
    BY <1>7, <2>1, <2>2, <2>3 DEF Settlement
<1>11. Numbered'
  <2>1. token' >= 1 /\ tool' # "ready"
    BY <1>3, <1>4
  <2>2. ASSUME token' < TokenModulus
        PROVE  /\ \A i \in InHub' : At(toHub'[i], 43) >= 1
               /\ InService' => At(arrived', 43) >= 1
               /\ \A r \in Come' : r.token >= 1
    <3>1. /\ \A i \in InHub : At(toHub[i], 43) >= 1
          /\ InService => At(arrived, 43) >= 1
          /\ \A r \in Come : r.token >= 1
      BY <1>1, <1>8, <2>2 DEF Numbered
    <3>2. At(d, 43) >= 1
      BY <1>8, <2>2
    <3> QED
      BY <1>3, <1>5, <1>6, <3>1, <3>2
  <2> QED
    BY <2>1, <2>2 DEF Numbered
<1> QED
  BY <1>10, <1>11

(* The hub's other steps, the tool's end, and a step of nobody.            *)
LEMMA QuietSettles ==
  ASSUME SettlementInvariant, HubElse \/ exit_ui \/ UNCHANGED allVars
  PROVE  Settlement' /\ Numbered'
<1>1. ToolInvariant /\ Settlement /\ Numbered
  BY DEF SettlementInvariant
<1>2. /\ UNCHANGED <<token, socket, command, toHub, toTool, accepted>>
      /\ tool' = tool \/ (tool = "ready" /\ tool' = "closed")
  BY DEF HubElse, exit_ui, allVars, toolVars
<1>3. arrived' = arrived /\ (pc' = "process" => pc = "process")
  BY DEF HubElse, exit_ui, allVars, SendExtra, Restart, Second, Blink, vars
<1>4. ASSUME NEW c, NEW text, Settled(c, text), pc = "process" => arrived \in Arrivals \/ Repeats(arrived, c)
      PROVE  Settled(c, text)'
  <2>1. CASE HubElse
    BY <1>1, <1>4, <2>1, ElseSettled
  <2>2. CASE UNCHANGED vars
    BY <1>4, <2>2 DEF Settled, Taken, vars
  <2> QED
    BY <2>1, <2>2 DEF exit_ui, allVars
<1>5. InHub' = InHub /\ (InService' => InService) /\ Come' = Come
  BY <1>2, <1>3 DEF InHub, InService, Come, Mine
<1>6. InForce'
  <2> SUFFICES ASSUME accepted.command = command, tool # "waiting" \/ token >= 2 PROVE InForce'
    BY <1>2 DEF InForce
  <2>1. /\ Settled(command, accepted.text)
        /\ \A i \in 1 .. Len(toHub) : Repeats(toHub[i], command)
        /\ pc = "process" => arrived \in Arrivals \/ Repeats(arrived, command)
    BY <1>1 DEF Settlement, InForce
  <2>2. Settled(command, accepted.text)'
    <3>1. PICK c, text : c = command /\ text = accepted.text
      OBVIOUS
    <3>2. Settled(c, text)'
      BY <1>4, <2>1, <3>1
    <3> QED
      BY <1>2, <3>1, <3>2
  <2> QED
    BY <1>2, <1>3, <2>1, <2>2 DEF InForce, Repeats
<1>7. ASSUME NEW r \in Come PROVE Answered(r)'
  <2> SUFFICES ASSUME token < TokenModulus, r.token = token PROVE Answered(r)'
    BY <1>2 DEF Answered
  <2>1. Settled(command, r.text) /\ toHub = <<>> /\ (pc = "process" => arrived \in Arrivals)
    BY <1>1 DEF Settlement, Answered
  <2>2. Settled(command, r.text)'
    <3>1. PICK c : c = command
      OBVIOUS
    <3>2. Settled(c, r.text)'
      BY <1>4, <2>1, <3>1
    <3> QED
      BY <1>2, <3>1, <3>2
  <2> QED
    BY <1>2, <1>3, <2>1, <2>2 DEF Answered
<1>8. Settlement'
  BY <1>1, <1>2, <1>3, <1>5, <1>6, <1>7 DEF Settlement, Newest
<1>9. Numbered'
  BY <1>1, <1>2, <1>3, <1>5 DEF Numbered
<1> QED
  BY <1>8, <1>9

(* The reply with the last token is accepted: its command is in force.     *)
LEMMA AcceptSettles ==
  ASSUME SettlementInvariant, Accept
  PROVE  Settlement' /\ Numbered'
<1>1. ToolInvariant /\ Settlement /\ Numbered
  BY DEF SettlementInvariant
<1>2. PICK r \in toTool :
        /\ Received(r) /\ OwnToken(r)
        /\ tool' = (IF r.code = ACK /\ command.op \in Exits THEN "closed" ELSE "ready")
        /\ accepted' = [command |-> command, op |-> r.op, text |-> r.text]
        /\ UNCHANGED <<vars, token, socket, peer, command, toHub, requests, lost>>
  BY DEF Accept
<1>3. r \in Come /\ r.token = token /\ toTool' \subseteq toTool
  <2>1. tool' \in {"closed", "ready", "dead"}
    BY <1>2
  <2>2. r \in Come
    BY <1>1, <1>2, <2>1, ReplyTaken
  <2> QED
    BY <1>2, <2>2 DEF OwnToken, Received
<1>4. token < TokenModulus
  <2>1. r.token \in 0 .. TokenModulus - 1
    BY <1>1, <1>3, SocketPorts DEF ToolInvariant, UnderWay, Come, Mine, ToolTyped
  <2> QED
    BY <1>3, <2>1, SocketPorts
<1>5. Settled(command, r.text) /\ toHub = <<>> /\ (pc = "process" => arrived \in Arrivals)
  BY <1>1, <1>3, <1>4 DEF Settlement, Answered
<1>6. /\ UNCHANGED <<vars, token, socket, command, toHub>> /\ pc' = pc /\ arrived' = arrived
      /\ accepted'.command = command /\ accepted'.text = r.text /\ tool' \in {"closed", "ready"}
  BY <1>2 DEF vars
<1>7. ASSUME NEW c, NEW text, Settled(c, text) PROVE Settled(c, text)'
  BY <1>6, <1>7 DEF Settled, Taken, vars
<1>8. Settled(command, accepted.text)'
  <2>1. PICK c : c = command
    OBVIOUS
  <2>2. Settled(c, r.text)'
    BY <1>5, <1>7, <2>1
  <2> QED
    BY <1>6, <2>1, <2>2
<1>9. InForce'
  <2>1. Len(toHub') = 0
    BY <1>5, <1>6
  <2>2. \A i \in 1 .. Len(toHub') : Repeats(toHub[i], command)'
    BY <2>1
  <2> QED
    BY <1>5, <1>6, <1>8, <2>2 DEF InForce
<1>10. InHub' = InHub /\ (InService' <=> InService) /\ Come' \subseteq Come
  BY <1>3, <1>6 DEF InHub, InService, Come, Mine
<1>11. ASSUME NEW q \in Come PROVE Answered(q)'
  <2> SUFFICES ASSUME q.token = token PROVE Answered(q)'
    BY <1>6 DEF Answered
  <2>1. Settled(command, q.text)
    BY <1>1, <1>4 DEF Settlement, Answered
  <2>2. Settled(command, q.text)'
    <3>1. PICK c : c = command
      OBVIOUS
    <3>2. Settled(c, q.text)'
      BY <1>7, <2>1, <3>1
    <3> QED
      BY <1>6, <3>1, <3>2
  <2> QED
    BY <1>5, <1>6, <2>2 DEF Answered
<1>12. Settlement'
  BY <1>1, <1>6, <1>9, <1>10, <1>11 DEF Settlement, Newest
<1>13. Numbered'
  BY <1>1, <1>6, <1>10 DEF Numbered
<1> QED
  BY <1>12, <1>13

(* The tool dies: not while it waits for the answer to its first request,  *)
(* so what was in force before its last one still is.                      *)
LEMMA DieSettles ==
  ASSUME SettlementInvariant, Die
  PROVE  Settlement' /\ Numbered'
<1>1. ToolInvariant /\ Settlement /\ Numbered
  BY DEF SettlementInvariant
<1>2. PICK r \in toTool :
        /\ Received(r) /\ (~OwnToken(r) \/ r.code \notin {ACK, NAK})
        /\ tool' = "dead"
        /\ UNCHANGED <<vars, token, socket, peer, command, toHub, accepted, requests, lost>>
  BY DEF Die
<1>3. r \in Come /\ r.token # token /\ toTool' \subseteq toTool /\ tool = "waiting"
  <2>1. r \in Come
    BY <1>1, <1>2, ReplyTaken
  <2>2. r.code \in {ACK, NAK}
    BY <1>1 DEF ToolInvariant, UnderWay
  <2> QED
    BY <1>2, <2>1, <2>2 DEF OwnToken, Received
<1>4. token >= 2
  <2>1. token \in Nat /\ token >= 1 /\ TokenModulus \in Nat /\ 2 <= TokenModulus
    BY <1>1, <1>3, SocketPorts DEF ToolInvariant, ToolTyped, Numbered
  <2>2. token < TokenModulus => r.token \in Nat /\ r.token <= token /\ r.token >= 1
    BY <1>1, <1>3, NotAhead DEF Numbered
  <2> QED
    BY <1>3, <2>1, <2>2
<1>5. /\ UNCHANGED <<vars, token, socket, command, toHub, accepted>> /\ pc' = pc /\ arrived' = arrived
      /\ tool' = "dead"
  BY <1>2 DEF vars
<1>6. InForce'
  BY <1>1, <1>4, <1>5 DEF Settlement, InForce, Settled, Taken, Repeats, vars
<1>7. InHub' = InHub /\ (InService' <=> InService) /\ Come' \subseteq Come
  BY <1>3, <1>5 DEF InHub, InService, Come, Mine
<1>8. ASSUME NEW q \in Come PROVE Answered(q)'
  BY <1>1, <1>5 DEF Settlement, Answered, Settled, Taken, vars
<1>9. Settlement'
  BY <1>1, <1>5, <1>6, <1>7, <1>8 DEF Settlement, Newest
<1>10. Numbered'
  BY <1>1, <1>5, <1>7 DEF Numbered
<1> QED
  BY <1>9, <1>10

(* The hub takes a request: one that has the last token leaves none behind *)
(* it, and no reply has come that has it.                                  *)
LEMMA TakeSettles ==
  ASSUME SettlementInvariant, HubReceives
  PROVE  Settlement' /\ Numbered'
<1> DEFINE l == Len(toHub)
<1>1. ToolInvariant /\ Settlement /\ Numbered
  BY DEF SettlementInvariant
<1>2. PICK f : f = Head(toHub)
  OBVIOUS
<1>3. /\ toHub # <<>> /\ Receive(f) /\ toHub' = Tail(toHub)
      /\ UNCHANGED <<tool, token, socket, command, toTool, accepted>>
  BY <1>2 DEF HubReceives
<1>4. pc' = "process" /\ arrived' = f /\ config' = config /\ clock' = clock
  BY <1>3 DEF Receive
<1>5. /\ toHub' \in Seq(Seq(Byte)) /\ l \in Nat /\ 1 \in 1 .. l /\ Len(toHub') = l - 1 /\ f = toHub[1]
      /\ \A i \in 1 .. l - 1 : toHub'[i] = toHub[i + 1]
  BY <1>1, <1>2, <1>3, OldestTaken DEF ToolInvariant, ToolTyped
<1> HIDE DEF l
<1>6. \A i \in 1 .. l - 1 : i + 1 \in 1 .. l /\ (i + 1 = l => i = l - 1)
  BY <1>5
<1>7. IsUDP(f)
  BY <1>1, <1>5 DEF ToolInvariant, UnderWay, FromTool, Request, l
<1>8. /\ \A i \in InHub' : i \in 1 .. l - 1 /\ i + 1 \in InHub
      /\ InService' <=> 1 \in InHub
      /\ Come' = Come
  <2>1. \A i \in InHub' : i \in 1 .. l - 1 /\ i + 1 \in InHub
    BY <1>3, <1>5, <1>6 DEF InHub, Mine, l
  <2>2. InService' <=> 1 \in InHub
    BY <1>3, <1>4, <1>5, <1>7 DEF InService, InHub, Mine, l
  <2>3. Come' = Come
    BY <1>3 DEF Come, Mine
  <2> QED
    BY <2>1, <2>2, <2>3
<1>9. InForce'
  <2> SUFFICES ASSUME accepted.command = command, tool # "waiting" \/ token >= 2 PROVE InForce'
    BY <1>3 DEF InForce
  <2>1. Settled(command, accepted.text) /\ \A i \in 1 .. l : Repeats(toHub[i], command)
    BY <1>1 DEF Settlement, InForce, l
  <2>2. Settled(command, accepted.text)'
    BY <1>3, <1>4, <2>1 DEF Settled, Taken
  <2>3. Repeats(f, command) /\ \A i \in 1 .. l - 1 : Repeats(toHub'[i], command)
    BY <1>5, <1>6, <2>1
  <2>4. \A i \in 1 .. Len(toHub') : Repeats(toHub'[i], command)
    BY <1>5, <2>3
  <2> QED
    BY <1>3, <1>4, <2>2, <2>3, <2>4 DEF InForce, Repeats
<1>10. \A r \in Come : ~(token < TokenModulus /\ r.token = token)
  BY <1>1, <1>3 DEF Settlement, Answered
<1>11. ASSUME 1 \in InHub, Newest(f) PROVE toHub' = <<>>
  <2>1. 1 = l
    BY <1>1, <1>5, <1>11 DEF Settlement, l
  <2>2. Len(toHub') = 0
    BY <1>5, <2>1
  <2> QED
    BY <1>5, <2>2, EmptySeq
<1>12. ASSUME NEW i \in InHub', Newest(toHub'[i]) PROVE i = Len(toHub')
  <2>1. i \in 1 .. l - 1 /\ i + 1 \in InHub /\ Newest(toHub[i + 1])
    BY <1>5, <1>8, <1>12
  <2>2. i + 1 = l
    BY <1>1, <2>1 DEF Settlement, l
  <2> QED
    BY <1>5, <1>6, <2>1, <2>2
<1>13. Settlement'
  <2>1. \A r \in Come' : Answered(r)'
    BY <1>3, <1>8, <1>10 DEF Answered
  <2>2. InService' /\ Newest(arrived)' => toHub' = <<>>
    BY <1>3, <1>4, <1>8, <1>11 DEF Newest
  <2>3. \A i \in InHub' : Newest(toHub[i])' => i = Len(toHub')
    BY <1>3, <1>12 DEF Newest
  <2> QED
    BY <1>9, <2>1, <2>2, <2>3 DEF Settlement
<1>14. Numbered'
  <2> SUFFICES ASSUME token < TokenModulus
               PROVE  /\ \A i \in InHub' : At(toHub'[i], 43) >= 1
                      /\ InService' => At(arrived', 43) >= 1
                      /\ \A r \in Come' : r.token >= 1
    BY <1>1, <1>3 DEF Numbered
  <2>1. (\A i \in InHub : At(toHub[i], 43) >= 1) /\ \A r \in Come : r.token >= 1
    BY <1>1 DEF Numbered
  <2> QED
    BY <1>4, <1>5, <1>8, <2>1
<1> QED
  BY <1>13, <1>14

(* A frame of another sender arrives.                                      *)
LEMMA OtherSettles ==
  ASSUME SettlementInvariant, OtherFrame
  PROVE  Settlement' /\ Numbered'
<1>1. ToolInvariant /\ Settlement /\ Numbered
  BY DEF SettlementInvariant
<1>2. arrived' \in Arrivals /\ ~InService' /\ InHub' = InHub /\ Come' = Come
  BY <1>1, OtherFresh
<1>3. /\ pc = "idle" /\ pc' = "process" /\ config' = config /\ clock' = clock
      /\ UNCHANGED <<tool, token, command, toHub, accepted>>
  BY DEF OtherFrame, Arrive, Receive, toolVars
<1>4. InForce'
  BY <1>1, <1>2, <1>3 DEF Settlement, InForce, Settled, Taken, Repeats
<1>5. ASSUME NEW r \in Come PROVE Answered(r)'
  BY <1>1, <1>2, <1>3 DEF Settlement, Answered, Settled, Taken
<1>6. Settlement'
  BY <1>1, <1>2, <1>3, <1>4, <1>5 DEF Settlement, Newest
<1>7. Numbered'
  BY <1>1, <1>2, <1>3 DEF Numbered
<1> QED
  BY <1>6, <1>7

(* The hub serves what has arrived.  A request of the tool that is         *)
(* answered leaves its command in force, and of another sender's frame the *)
(* settings take no notice.                                                *)
LEMMA AnswerSettles ==
  ASSUME SettlementInvariant, Process, InService, answer' # <<>>, NEW r, RepliesTo(r, arrived),
         ReplyFits(r), token < TokenModulus, r.token = token, command' = command
  PROVE  Settled(command, r.text)'
<1>1. ToolInvariant /\ Request(arrived) /\ RequestFits(arrived)
  BY ServiceIs DEF SettlementInvariant, ToolInvariant, FromTool, Fitting
<1>2. /\ At(arrived, 42) = command.op /\ At(arrived, 43) = token
      /\ OperandLength(command.op) = 6 => Field(arrived, 46, 6) = command.argument
      /\ At(arrived, 42) = 101 => r.text = Field(config, 0, ConfigLength)
      /\ At(arrived, 42) = 116 => r.text = LE32(clock)
  BY <1>1 DEF RepliesTo, RequestFits, Fits
<1>3. Carried(arrived) /\ clock' = clock
  BY <1>1, SettingsProcessed
<1> DEFINE op == command.op
<1>4. op \in {84, 73, 77, 65} => Field(arrived, 46, OperandLength(op)) = command.argument
  BY <1>2, OperandIs
<1>5. Sets(op, Field(arrived, 46, OperandLength(op)), config') /\ Restarts(op, extra'.flag)
  BY <1>2, <1>3 DEF Carried
<1>6. op = 116 => \E n \in 0 .. clock' : r.text = LE32(n)
  <2>1. clock \in 0 .. clock
    BY <1>1, BoundsAssumption DEF ToolInvariant, Invariant, Typed
  <2> QED
    BY <1>2, <1>3, <2>1
<1>7. op = 101 => r.text = Field(config', 0, ConfigLength)
  BY <1>2, <1>5 DEF Sets
<1>8. Taken(command, r.text)'
  BY <1>4, <1>5, <1>6, <1>7 DEF Sets, Taken
<1> QED
  BY <1>5, <1>8 DEF Settled, Restarts

LEMMA ServeSettles ==
  ASSUME SettlementInvariant, HubServes
  PROVE  Settlement' /\ Numbered'
<1>1. ToolInvariant /\ Settlement /\ Numbered
  BY DEF SettlementInvariant
<1>2. /\ Process /\ pc = "process" /\ pc' = "extras" /\ arrived' = arrived
      /\ UNCHANGED <<tool, token, socket, command, toHub, accepted>>
  BY DEF HubServes, Process
<1>3. arrived \in Arrivals \/ Request(arrived)
  BY <1>1, <1>2 DEF ToolInvariant, UnderWay, FromTool
<1>4. InHub' = InHub /\ ~InService'
  BY <1>2 DEF InHub, InService, Mine
<1>5. ASSUME NEW c, NEW text, Settled(c, text), arrived \in Arrivals \/ Repeats(arrived, c)
      PROVE  Settled(c, text)'
  BY <1>1, <1>2, <1>3, <1>5, ServesSettled DEF Settled
<1>6. InForce'
  <2> SUFFICES ASSUME accepted.command = command, tool # "waiting" \/ token >= 2 PROVE InForce'
    BY <1>2 DEF InForce
  <2>1. /\ Settled(command, accepted.text)
        /\ \A i \in 1 .. Len(toHub) : Repeats(toHub[i], command)
        /\ arrived \in Arrivals \/ Repeats(arrived, command)
    BY <1>1, <1>2 DEF Settlement, InForce
  <2>2. Settled(command, accepted.text)'
    <3>1. PICK c, text : c = command /\ text = accepted.text
      OBVIOUS
    <3>2. Settled(c, text)'
      BY <1>5, <2>1, <3>1
    <3> QED
      BY <1>2, <3>1, <3>2
  <2> QED
    BY <1>2, <2>1, <2>2 DEF InForce, Repeats
<1>7. ASSUME NEW r \in Come PROVE Answered(r)'
  <2> SUFFICES ASSUME token < TokenModulus, r.token = token PROVE Answered(r)'
    BY <1>2 DEF Answered
  <2>1. Settled(command, r.text) /\ toHub = <<>> /\ arrived \in Arrivals
    BY <1>1, <1>2 DEF Settlement, Answered
  <2>2. Settled(command, r.text)'
    <3>1. PICK c : c = command
      OBVIOUS
    <3>2. Settled(c, r.text)'
      BY <1>5, <2>1, <3>1
    <3> QED
      BY <1>2, <3>1, <3>2
  <2> QED
    BY <1>2, <2>1, <2>2 DEF Answered
<1>8. ASSUME NEW r, answer' # <<>>, InService, RepliesTo(r, arrived), ReplyFits(r)
      PROVE  Answered(r)' /\ (token < TokenModulus => r.token >= 1)
  <2>1. r.token = At(arrived, 43)
    BY <1>8 DEF RepliesTo
  <2>2. token < TokenModulus => r.token >= 1
    BY <1>1, <1>8, <2>1 DEF Numbered
  <2>3. ASSUME token < TokenModulus, r.token = token PROVE Answered(r)'
    <3>1. Settled(command, r.text)'
      BY <1>2, <1>8, <2>3, AnswerSettles
    <3>2. toHub = <<>>
      BY <1>1, <1>8, <2>1, <2>3 DEF Settlement, Newest
    <3> QED
      BY <1>2, <3>1, <3>2 DEF Answered
  <2> QED
    BY <1>2, <2>2, <2>3 DEF Answered
<1>9. /\ \A r \in Come' : Answered(r)'
      /\ token < TokenModulus => \A r \in Come' : r.token >= 1
  <2>1. token < TokenModulus => \A r \in Come : r.token >= 1
    BY <1>1 DEF Numbered
  <2>2. CASE Come' = Come
    BY <1>7, <2>1, <2>2
  <2>3. ASSUME NEW r, Come' = Come \union {r}, answer' # <<>>, InService, RepliesTo(r, arrived), ReplyFits(r)
        PROVE  /\ \A q \in Come' : Answered(q)'
               /\ token < TokenModulus => \A q \in Come' : q.token >= 1
    <3>1. Answered(r)' /\ (token < TokenModulus => r.token >= 1)
      BY <1>8, <2>3
    <3> QED
      BY <1>7, <2>1, <2>3, <3>1
  <2> QED
    BY <1>1, <2>2, <2>3, ReplyComes
<1>10. Settlement'
  BY <1>1, <1>2, <1>4, <1>6, <1>9 DEF Settlement, Newest
<1>11. Numbered'
  BY <1>1, <1>2, <1>4, <1>9 DEF Numbered
<1> QED
  BY <1>10, <1>11

LEMMA InitSettles == ToolInit => Settlement /\ Numbered
<1> SUFFICES ASSUME ToolInit PROVE Settlement /\ Numbered
  OBVIOUS
<1>1. /\ pc = "idle" /\ tool = "closed" /\ token = 0 /\ socket = 0 /\ toHub = <<>> /\ toTool = {}
      /\ accepted = NoAccepted /\ command = NoCommand
  BY DEF ToolInit, Init
<1>2. InHub = {} /\ ~InService /\ Come = {}
  BY <1>1, EmptySeq DEF InHub, InService, Come
<1>3. command.op = 0 /\ Len(toHub) = 0
  BY <1>1, EmptySeq DEF NoCommand
<1>4. Settled(command, accepted.text)
  BY <1>1, <1>3 DEF Settled, Taken
<1>5. InForce
  BY <1>1, <1>3, <1>4 DEF InForce
<1> QED
  BY <1>1, <1>2, <1>5 DEF Settlement, Numbered

LEMMA NextSettles == SettlementInvariant /\ [ToolNext]_allVars => SettlementInvariant'
<1> SUFFICES ASSUME SettlementInvariant, [ToolNext]_allVars PROVE SettlementInvariant'
  OBVIOUS
<1>1. ToolInvariant'
  BY ToolNextInvariant DEF SettlementInvariant
<1>2. Settlement' /\ Numbered'
  <2>1. CASE Open
    BY <2>1, OpenSettles
  <2>2. CASE Ui
    <3>a. PICK f \in MenuChoices : \E a \in Arguments(functions[f]) :
                                     Send([op |-> Letter(functions[f]), argument |-> a])
      BY <2>2 DEF Ui
    <3>1. PICK a \in Arguments(functions[f]) : Send([op |-> Letter(functions[f]), argument |-> a])
      BY <3>a
    <3>2. PICK c : c = [op |-> Letter(functions[f]), argument |-> a]
      OBVIOUS
    <3>3. PICK n \in {0, 6} : Bytes(a, n) /\ (OperandLength(Letter(functions[f])) = 6 => n = 6)
      BY Chosen
    <3>4. Send(c) /\ c.op \in Byte /\ Bytes(c.argument, n) /\ (OperandLength(c.op) = 6 => n = 6)
      BY <3>1, <3>2, <3>3, Chosen
    <3> QED
      BY <3>4, SendSettles
  <2>3. CASE exit_ui \/ HubElse \/ UNCHANGED allVars
    BY <2>3, QuietSettles
  <2>4. CASE Tool
    BY <2>4, AcceptSettles, DieSettles DEF Tool
  <2>5. CASE HubReceives
    BY <2>5, TakeSettles
  <2>6. CASE OtherFrame
    BY <2>6, OtherSettles
  <2>7. CASE HubServes
    BY <2>7, ServeSettles
  <2> QED
    BY <2>1, <2>2, <2>3, <2>4, <2>5, <2>6, <2>7 DEF ToolNext
<1> QED
  BY <1>1, <1>2 DEF SettlementInvariant

(* What the user has been told is so, although requests of a tool that has *)
(* been stopped may still be under way, replies come twice or are lost,    *)
(* and other senders ask in between: the address that the last             *)
(* acknowledged command set is the hub's, the configuration it showed is   *)
(* the one in force, and the hub's clock has not gone back behind the time *)
(* it showed.                                                              *)
THEOREM SettingsStayInForce == ToolSpec => []SettingsInForce
<1>1. ToolInit => SettlementInvariant
  BY ToolInit1, InitSettles DEF SettlementInvariant
<1>2. SettlementInvariant => SettingsInForce
  BY InForceMeans DEF SettlementInvariant, Settlement
<1> QED
  BY <1>1, <1>2, NextSettles, PTL DEF ToolSpec

=============================================================================
