----------------------------- MODULE FramesProofs -----------------------------
(***************************************************************************)
(* A connection delivers the messages that were sent, for any messages,    *)
(* any number of frames and any way in which the stream is cut.            *)
(*                                                                         *)
(* The argument keeps the whole stream that was ever sent, S, although no  *)
(* variable holds it: where each frame starts in it, and which pieces of   *)
(* it are with the sender, in the socket and with the receiver.            *)
(***************************************************************************)
EXTENDS Frames, SequenceTheorems, TLAPS

Fields == Seq(Nat)

\* The fields s are those of S from position a on.
Segment(s, S, a) ==
  /\ s \in Fields
  /\ a \in Nat
  /\ a + Len(s) <= Len(S)
  /\ \A j \in 1..Len(s) : s[j] = S[a + j]

-----------------------------------------------------------------------------
(***************************************************************************)
(* Cutting and joining pieces of the stream.                               *)
(***************************************************************************)
\* The first n fields of a sequence.
LEMMA FrontIs ==
  ASSUME NEW s \in Fields, NEW n \in 0..Len(s)
  PROVE  /\ SubSeq(s, 1, n) \in Fields /\ Len(SubSeq(s, 1, n)) = n
         /\ \A j \in 1..n : SubSeq(s, 1, n)[j] = s[j]
<1>1. Len(s) \in Nat /\ \A i \in 1..n : s[i] \in Nat
  BY ElementOfSeq DEF Fields
<1>2. /\ SubSeq(s, 1, n) \in Seq(Nat)
      /\ Len(SubSeq(s, 1, n)) = IF 1 <= n THEN n - 1 + 1 ELSE 0
      /\ \A i \in 1..(n - 1 + 1) : SubSeq(s, 1, n)[i] = s[1 + i - 1]
  BY <1>1, SubSeqProperties
<1> QED
  BY <1>1, <1>2 DEF Fields

\* The other fields of it.
LEMMA BackIs ==
  ASSUME NEW s \in Fields, NEW n \in 0..Len(s)
  PROVE  /\ SubSeq(s, n + 1, Len(s)) \in Fields
         /\ Len(SubSeq(s, n + 1, Len(s))) = Len(s) - n
         /\ \A j \in 1..(Len(s) - n) : SubSeq(s, n + 1, Len(s))[j] = s[n + j]
<1>1. PICK m : m = Len(s)
  BY Zenon
<1>2. m \in Nat /\ n \in Nat /\ n <= m /\ \A i \in (n + 1)..m : s[i] \in Nat
  BY <1>1, ElementOfSeq DEF Fields
<1>3. PICK c : c = n + 1
  BY Zenon
<1>4. c \in Int /\ m \in Int /\ \A i \in c..m : s[i] \in Nat
  BY <1>2, <1>3
<1>5. /\ SubSeq(s, c, m) \in Seq(Nat)
      /\ Len(SubSeq(s, c, m)) = IF c <= m THEN m - c + 1 ELSE 0
      /\ \A i \in 1..(m - c + 1) : SubSeq(s, c, m)[i] = s[c + i - 1]
  BY <1>4, SubSeqProperties
<1>6. /\ m - c + 1 = m - n
      /\ (IF c <= m THEN m - c + 1 ELSE 0) = m - n
      /\ \A i \in 1..(m - n) : c + i - 1 = n + i
  BY <1>2, <1>3
<1> QED
  BY <1>1, <1>3, <1>5, <1>6, Zenon DEF Fields

\* One sequence after another.
LEMMA JoinIs ==
  ASSUME NEW s \in Fields, NEW u \in Fields
  PROVE  /\ s \o u \in Fields /\ Len(s \o u) = Len(s) + Len(u)
         /\ Len(s) \in Nat /\ Len(u) \in Nat
         /\ \A j \in 1..Len(s) : (s \o u)[j] = s[j]
         /\ \A j \in 1..Len(u) : (s \o u)[Len(s) + j] = u[j]
<1>1. Len(s) \in Nat /\ Len(u) \in Nat
  BY DEF Fields
<1>2. /\ s \o u \in Seq(Nat) /\ Len(s \o u) = Len(s) + Len(u)
      /\ \A i \in 1..(Len(s) + Len(u)) :
           (s \o u)[i] = IF i <= Len(s) THEN s[i] ELSE u[i - Len(s)]
  BY ConcatProperties DEF Fields
<1>3. \A j \in 1..Len(s) : (s \o u)[j] = s[j]
  BY <1>1, <1>2
<1>4. ASSUME NEW j \in 1..Len(u) PROVE (s \o u)[Len(s) + j] = u[j]
  <2>1. /\ Len(s) + j \in 1..(Len(s) + Len(u)) /\ ~(Len(s) + j <= Len(s))
        /\ (Len(s) + j) - Len(s) = j
    BY <1>1
  <2> QED
    BY <1>2, <2>1
<1> QED
  BY <1>1, <1>2, <1>3, <1>4, Zenon DEF Fields

\* w has the m fields of s and then the n fields of u.
Joins(w, s, m, u, n) ==
  /\ w \in Fields /\ Len(w) = m + n
  /\ \A j \in 1..m : w[j] = s[j]
  /\ \A j \in 1..n : w[m + j] = u[j]

\* The same, with names for the lengths and the result.
LEMMA Joined ==
  ASSUME NEW s \in Fields, NEW u \in Fields, NEW w, w = s \o u
  PROVE  Joins(w, s, Len(s), u, Len(u))
BY JoinIs, Zenon DEF Joins

\* A piece cut in two.
LEMMA SegmentCut ==
  ASSUME NEW S \in Fields, NEW s, NEW a, Segment(s, S, a), NEW n \in 0..Len(s)
  PROVE  /\ Segment(SubSeq(s, 1, n), S, a) /\ Len(SubSeq(s, 1, n)) = n
         /\ Segment(SubSeq(s, n + 1, Len(s)), S, a + n)
         /\ Len(SubSeq(s, n + 1, Len(s))) = Len(s) - n
<1>1. PICK m, f, b : m = Len(s) /\ f = SubSeq(s, 1, n) /\ b = SubSeq(s, n + 1, Len(s))
  BY Zenon
<1>2. /\ m \in Nat /\ n \in Nat /\ n <= m /\ a \in Nat
      /\ Len(S) \in Nat /\ a + m <= Len(S) /\ \A j \in 1..m : s[j] = S[a + j]
  BY <1>1 DEF Segment, Fields
<1>3. /\ f \in Fields /\ Len(f) = n /\ \A j \in 1..n : f[j] = s[j]
      /\ b \in Fields /\ Len(b) = m - n /\ \A j \in 1..(m - n) : b[j] = s[n + j]
  BY <1>1, FrontIs, BackIs, Zenon DEF Segment
<1>4. \A j \in 1..n : f[j] = S[a + j]
  <2>1. \A j \in 1..n : j \in 1..m
    BY <1>2
  <2> QED
    BY <1>2, <1>3, <2>1, Zenon
<1>5. \A j \in 1..(m - n) : b[j] = S[(a + n) + j]
  <2> SUFFICES ASSUME NEW j \in 1..(m - n) PROVE b[j] = S[(a + n) + j]
    BY Zenon
  <2>1. n + j \in 1..m /\ a + (n + j) = (a + n) + j
    BY <1>2
  <2> QED
    BY <1>2, <1>3, <2>1
<1>6. a + n \in Nat /\ a + n <= Len(S) /\ (a + n) + (m - n) <= Len(S)
  BY <1>2
<1>7. Segment(f, S, a) /\ Segment(b, S, a + n)
  BY <1>2, <1>3, <1>4, <1>5, <1>6, Zenon DEF Segment
<1> QED
  BY <1>1, <1>3, <1>7, Zenon

CutAt(s, S, a, n, f, b) ==
  /\ S \in Fields /\ Segment(s, S, a) /\ n \in 0..Len(s)
  /\ f = SubSeq(s, 1, n) /\ b = SubSeq(s, n + 1, Len(s))

\* The same, for parts that have names.
LEMMA Cut ==
  ASSUME NEW S, NEW s, NEW a, NEW n, NEW f, NEW b, CutAt(s, S, a, n, f, b)
  PROVE  /\ Segment(f, S, a) /\ Len(f) = n
         /\ Segment(b, S, a + n) /\ Len(b) = Len(s) - n
<1>1. S \in Fields /\ Segment(s, S, a) /\ n \in 0..Len(s)
  BY Zenon DEF CutAt
<1>2. /\ Segment(SubSeq(s, 1, n), S, a) /\ Len(SubSeq(s, 1, n)) = n
      /\ Segment(SubSeq(s, n + 1, Len(s)), S, a + n)
      /\ Len(SubSeq(s, n + 1, Len(s))) = Len(s) - n
  BY <1>1, SegmentCut
<1> QED
  BY <1>2, Zenon DEF CutAt

\* Two pieces next to each other.
LEMMA SegmentJoin ==
  ASSUME NEW S \in Fields, NEW s, NEW u, NEW a, Segment(s, S, a), Segment(u, S, a + Len(s))
  PROVE  Segment(s \o u, S, a) /\ Len(s \o u) = Len(s) + Len(u)
<1>1. PICK m, n, w : m = Len(s) /\ n = Len(u) /\ w = s \o u
  BY Zenon
<1>2. /\ m \in Nat /\ n \in Nat /\ a \in Nat /\ Len(S) \in Nat /\ (a + m) + n <= Len(S)
      /\ \A j \in 1..m : s[j] = S[a + j]
      /\ \A j \in 1..n : u[j] = S[(a + m) + j]
  BY <1>1 DEF Segment, Fields
<1>3. /\ w \in Fields /\ Len(w) = m + n
      /\ \A j \in 1..m : w[j] = s[j]
      /\ \A j \in 1..n : w[m + j] = u[j]
  BY <1>1, JoinIs, Zenon DEF Segment
<1>4. \A j \in 1..(m + n) : w[j] = S[a + j]
  <2> SUFFICES ASSUME NEW j \in 1..(m + n) PROVE w[j] = S[a + j]
    BY Zenon
  <2>1. CASE j <= m
    BY <1>2, <1>3, <2>1
  <2>2. CASE j > m
    <3>1. j - m \in 1..n /\ m + (j - m) = j /\ (a + m) + (j - m) = a + j
      BY <1>2, <2>2
    <3> QED
      BY <1>2, <1>3, <3>1, ZenonT(30)
  <2> QED
    BY <1>2, <2>1, <2>2
<1>5. a + (m + n) <= Len(S)
  BY <1>2
<1> QED
  BY <1>1, <1>2, <1>3, <1>4, <1>5, Zenon DEF Segment

\* The stream may grow.
LEMMA SegmentKept ==
  ASSUME NEW S \in Fields, NEW e \in Fields, NEW s, NEW a, Segment(s, S, a)
  PROVE  Segment(s, S \o e, a)
<1>1. PICK m, k, w : m = Len(S) /\ k = Len(s) /\ w = S \o e
  BY Zenon
<1>2. /\ m \in Nat /\ Len(e) \in Nat /\ Len(w) = m + Len(e)
      /\ \A j \in 1..m : w[j] = S[j]
  BY <1>1, JoinIs
<1>3. a \in Nat /\ k \in Nat /\ a + k <= m /\ \A j \in 1..k : s[j] = S[a + j]
  <2>1. s \in Seq(Nat) /\ a \in Nat /\ a + k <= m /\ \A j \in 1..k : s[j] = S[a + j]
    BY <1>1, Zenon DEF Segment, Fields
  <2> QED
    BY <1>1, <2>1, LenProperties, Zenon
<1>4. \A j \in 1..k : s[j] = w[a + j]
  BY <1>2, <1>3
<1>5. a + k <= Len(w)
  BY <1>2, <1>3
<1> QED
  BY <1>1, <1>4, <1>5 DEF Segment

\* Two pieces of the same length at the same place are the same.
LEMMA SegmentsEqual ==
  ASSUME NEW S, NEW s, NEW u, NEW a, Segment(s, S, a), Segment(u, S, a), Len(s) = Len(u)
  PROVE  s = u
BY SeqEqual DEF Segment, Fields

-----------------------------------------------------------------------------
(***************************************************************************)
(* Where a message has its fields.                                         *)
(***************************************************************************)
\* Short sequences of fields.
LEMMA ShortFields ==
  ASSUME NEW x \in Nat, NEW y \in Nat
  PROVE  /\ <<x>> \in Fields /\ Len(<<x>>) = 1 /\ <<x>>[1] = x
         /\ <<x, y>> \in Fields /\ Len(<<x, y>>) = 2 /\ <<x, y>>[1] = x /\ <<x, y>>[2] = y
BY DEF Fields

VectorLaid(w, v) ==
  /\ w \in Fields /\ Len(w) = 1 + 2 * Dimensions
  /\ w[1] = Dimensions
  /\ \A i \in 0..(Dimensions - 1) :
       /\ w[2 + 2 * i] = IF i \in DOMAIN v THEN 1 ELSE 0
       /\ w[3 + 2 * i] = IF i \in DOMAIN v THEN v[i] ELSE 0

\* The fields of a vector.
LEMMA VectorLayout ==
  ASSUME NEW D, D \subseteq 0..(Dimensions - 1), NEW v \in [D -> Nat]
  PROVE  VectorLaid(put_vector(v), v)
<1> DEFINE n == 1 + 2 * Dimensions
           w == put_vector(v)
<1>1. Dimensions \in Nat /\ n \in Nat
  BY MessageAssumption
<1>2. /\ w = [k \in 1..n |-> w[k]]
      /\ \A k \in 1..n : w[k] = LET d == (k - 2) \div 2
                                IN  IF k = 1 THEN Dimensions
                                    ELSE IF d \notin DOMAIN v THEN 0
                                    ELSE IF k % 2 = 0 THEN 1 ELSE v[d]
  BY Zenon DEF put_vector
<1> HIDE DEF w
<1>3. \A k \in 1..n : w[k] \in Nat
  BY <1>1, <1>2
<1>4. w \in [1..n -> Nat]
  BY <1>2, <1>3, Zenon
<1>5. w \in Fields /\ Len(w) = n
  BY <1>1, <1>4 DEF Fields
<1>6. w[1] = Dimensions
  BY <1>1, <1>2
<1>7. ASSUME NEW i \in 0..(Dimensions - 1)
      PROVE  /\ w[2 + 2 * i] = IF i \in DOMAIN v THEN 1 ELSE 0
             /\ w[3 + 2 * i] = IF i \in DOMAIN v THEN v[i] ELSE 0
  <2>1. PICK a, b : a = 2 + 2 * i /\ b = 3 + 2 * i
    BY Zenon
  <2>2. /\ a \in 1..n /\ a # 1 /\ (a - 2) \div 2 = i /\ a % 2 = 0
        /\ b \in 1..n /\ b # 1 /\ (b - 2) \div 2 = i /\ b % 2 # 0
    BY <1>1, <2>1
  <2>3. w[a] = IF i \in DOMAIN v THEN 1 ELSE 0
    BY <1>2, <2>2, Zenon
  <2>4. w[b] = IF i \in DOMAIN v THEN v[i] ELSE 0
    BY <1>2, <2>2, Zenon
  <2> QED
    BY <2>1, <2>3, <2>4, Zenon
<1> QED
  BY <1>5, <1>6, <1>7, Zenon DEF VectorLaid, w

\* The fields of an optional.
OptionalLaid(w, x) ==
  /\ w \in Fields /\ Len(w) = (IF x = NoValue THEN 1 ELSE 2)
  /\ x = NoValue => w[1] = 0
  /\ x # NoValue => w[1] = 1 /\ w[2] = x

\* What put_optional writes is laid out as get_optional reads it.
LEMMA OptionalLayout ==
  ASSUME NEW x \in Nat \cup {NoValue}
  PROVE  OptionalLaid(put_optional(x), x)
<1>1. CASE x = NoValue
  BY <1>1, ShortFields, Zenon DEF OptionalLaid, put_optional
<1>2. CASE x # NoValue
  <2>1. put_optional(x) = <<1, x>> /\ x \in Nat
    BY <1>2, Zenon DEF put_optional
  <2>2. /\ <<1, x>> \in Fields /\ Len(<<1, x>>) = 2
        /\ <<1, x>>[1] = 1 /\ <<1, x>>[2] = x
    BY <2>1, ShortFields, Zenon
  <2> QED
    BY <1>2, <2>1, <2>2, Zenon DEF OptionalLaid
<1> QED
  BY <1>1, <1>2, Zenon

\* The fields of a list.
ListLaid(w, s) ==
  /\ w \in Fields /\ Len(w) = 1 + Len(s)
  /\ w[1] = Len(s)
  /\ \A j \in 1..Len(s) : w[1 + j] = s[j]

\* What put_list writes is laid out as get_list reads it.
LEMMA ListLayout ==
  ASSUME NEW s \in Fields
  PROVE  ListLaid(put_list(s), s)
<1>1. PICK n, h : n = Len(s) /\ h = <<n>>
  BY Zenon
<1>2. n \in Nat /\ h \in Fields /\ Len(h) = 1 /\ h[1] = n
  BY <1>1, ShortFields DEF Fields
<1>3. PICK w : w = h \o s
  BY Zenon
<1>4. /\ w \in Fields /\ Len(w) = 1 + n
      /\ \A j \in 1..1 : w[j] = h[j]
      /\ \A j \in 1..n : w[1 + j] = s[j]
  BY <1>1, <1>2, <1>3, JoinIs
<1>5. w[1] = n
  BY <1>2, <1>4
<1> QED
  BY <1>1, <1>3, <1>4, <1>5, Zenon DEF ListLaid, put_list

\* p is the encoding e, or e and more.
Whole(p, e) == p \in Fields /\ Len(e) <= Len(p) /\ \A j \in 1..Len(e) : p[j] = e[j]

\* p is the encoding e without its end.
Partial(p, e) == p \in Fields /\ Len(p) < Len(e) /\ \A j \in 1..Len(p) : p[j] = e[j]

RequestLaid(e, q, g, n) ==
  /\ e \in Fields /\ n = Len(q.name) /\ n \in Nat
  /\ g = (IF q.group = NoValue THEN 1 ELSE 2)
  /\ Len(e) = g + n + 2 * Dimensions + 4
  /\ e[1] = q.type
  /\ q.group = NoValue => e[2] = 0
  /\ q.group # NoValue => e[2] = 1 /\ e[3] = q.group
  /\ e[2 + g] = n
  /\ \A j \in 1..n : e[2 + g + j] = q.name[j]
  /\ e[3 + g + n] = Dimensions
  /\ \A i \in 0..(Dimensions - 1) :
       /\ e[g + n + 4 + 2 * i] = IF i \in DOMAIN q.req THEN 1 ELSE 0
       /\ e[g + n + 5 + 2 * i] = IF i \in DOMAIN q.req THEN q.req[i] ELSE 0
  /\ e[g + n + 2 * Dimensions + 4] = SentTime(q.at)

\* Where encode_request puts the fields of a request.
LEMMA RequestLayout ==
  ASSUME NEW q, RequestTyped(q)
  PROVE  \E g, n : RequestLaid(encode_request(q), q, g, n)
<1>1. PICK D \in SUBSET (0..(Dimensions - 1)) :
        q \in [type : Nat, group : Nat \cup {NoValue}, name : Seq(Nat), req : [D -> Nat], at : Int]
  BY Zenon DEF RequestTyped
<1>2. /\ q.type \in Nat /\ q.group \in Nat \cup {NoValue} /\ q.name \in Fields
      /\ q.req \in [D -> Nat] /\ q.at \in Int
  BY <1>1 DEF Fields
<1>3. PICK a1, a2, a3, a4, a5 :
        /\ a1 = <<q.type>> /\ a2 = put_optional(q.group) /\ a3 = put_list(q.name)
        /\ a4 = put_vector(q.req) /\ a5 = <<SentTime(q.at)>>
  BY Zenon
<1>4. SentTime(q.at) \in Nat
  BY <1>2 DEF SentTime
<1>5. a1 \in Fields /\ Len(a1) = 1 /\ a1[1] = q.type
  BY <1>2, <1>3, ShortFields, Zenon
<1>6. a5 \in Fields /\ Len(a5) = 1 /\ a5[1] = SentTime(q.at)
  BY <1>3, <1>4, ShortFields, Zenon
<1>7. OptionalLaid(a2, q.group)
  BY <1>2, <1>3, OptionalLayout, Zenon
<1>8. ListLaid(a3, q.name)
  BY <1>2, <1>3, ListLayout, Zenon
<1>9. VectorLaid(a4, q.req)
  BY <1>2, <1>3, VectorLayout, Zenon
<1>10. PICK g, n : g = Len(a2) /\ n = Len(q.name)
  BY Zenon
<1>11. /\ n \in Nat /\ Dimensions \in Nat /\ g \in {1, 2}
       /\ g = (IF q.group = NoValue THEN 1 ELSE 2)
       /\ a2 \in Fields /\ a3 \in Fields /\ a4 \in Fields
       /\ Len(a3) = 1 + n /\ Len(a4) = 1 + 2 * Dimensions
  <2>1. n \in Nat
    BY <1>2, <1>10, LenProperties DEF Fields
  <2> QED
    BY <1>7, <1>8, <1>9, <1>10, <2>1, MessageAssumption DEF OptionalLaid, ListLaid, VectorLaid
<1>12. PICK b2, b3, b4, e : b2 = a1 \o a2 /\ b3 = b2 \o a3 /\ b4 = b3 \o a4 /\ e = b4 \o a5
  BY Zenon
<1>13. Joins(b2, a1, 1, a2, g)
  BY <1>5, <1>10, <1>11, <1>12, Joined, Zenon
<1>14. Joins(b3, b2, 1 + g, a3, 1 + n)
  <2>1. b2 \in Fields /\ Len(b2) = 1 + g
    BY <1>13, Zenon DEF Joins
  <2> QED
    BY <1>11, <1>12, <2>1, Joined, Zenon
<1>15. Joins(b4, b3, (1 + g) + (1 + n), a4, 1 + 2 * Dimensions)
  <2>1. b3 \in Fields /\ Len(b3) = (1 + g) + (1 + n)
    BY <1>14, Zenon DEF Joins
  <2> QED
    BY <1>11, <1>12, <2>1, Joined, Zenon
<1>16. PICK m : m = (1 + g) + (1 + n) + (1 + 2 * Dimensions)
  BY Zenon
<1>17. Joins(e, b4, m, a5, 1)
  <2>1. b4 \in Fields /\ Len(b4) = m
    BY <1>15, <1>16, Zenon DEF Joins
  <2> QED
    BY <1>6, <1>12, <2>1, Joined, Zenon
<1>18. e = encode_request(q)
  BY <1>3, <1>12, Zenon DEF encode_request
<1>19. m = g + n + 2 * Dimensions + 3
  BY <1>11, <1>16
<1>20. \A j \in 1..(2 + g + n) : e[j] = b3[j]
  <2>1. \A j \in 1..(2 + g + n) : j \in 1..m /\ j \in 1..((1 + g) + (1 + n))
    BY <1>11, <1>16
  <2> QED
    BY <1>15, <1>17, <2>1, Zenon DEF Joins
<1>21. \A j \in 1..(1 + g) : e[j] = b2[j]
  <2>1. \A j \in 1..(1 + g) : j \in 1..(2 + g + n)
    BY <1>11
  <2> QED
    BY <1>14, <1>20, <2>1, Zenon DEF Joins
<1>22. e[1] = q.type
  <2>1. 1 \in 1..(1 + g) /\ 1 \in 1..1
    BY <1>11
  <2> QED
    BY <1>5, <1>13, <1>21, <2>1, Zenon DEF Joins
<1>23. \A j \in 1..g : e[1 + j] = a2[j]
  <2>1. \A j \in 1..g : 1 + j \in 1..(1 + g)
    BY <1>11
  <2> QED
    BY <1>13, <1>21, <2>1, Zenon DEF Joins
<1>24. /\ q.group = NoValue => e[2] = 0
       /\ q.group # NoValue => e[2] = 1 /\ e[3] = q.group
  <2>1. e[2] = a2[1] /\ (g = 2 => e[3] = a2[2])
    <3>1. 1 \in 1..g /\ 1 + 1 = 2 /\ (g = 2 => 2 \in 1..g) /\ 1 + 2 = 3
      BY <1>11
    <3> QED
      BY <1>23, <3>1
  <2> QED
    BY <1>7, <1>11, <2>1, Zenon DEF OptionalLaid
<1>25. \A j \in 1..(1 + n) : e[1 + g + j] = a3[j]
  <2>1. \A j \in 1..(1 + n) : (1 + g) + j \in 1..(2 + g + n)
    BY <1>11
  <2> QED
    BY <1>14, <1>20, <2>1, Zenon DEF Joins
<1>26. e[2 + g] = n /\ \A j \in 1..n : e[2 + g + j] = q.name[j]
  <2>1. 1 \in 1..(1 + n) /\ 1 + g + 1 = 2 + g
    BY <1>11
  <2>2. \A j \in 1..n : 1 + j \in 1..(1 + n) /\ 1 + g + (1 + j) = 2 + g + j
    BY <1>11
  <2>3. e[2 + g] = a3[1]
    BY <1>25, <2>1, Zenon
  <2>4. \A j \in 1..n : e[2 + g + j] = a3[1 + j]
    BY <1>25, <2>2, Zenon
  <2> QED
    BY <1>8, <1>10, <2>3, <2>4, Zenon DEF ListLaid
<1>27. \A j \in 1..(1 + 2 * Dimensions) : e[2 + g + n + j] = a4[j]
  <2>1. \A j \in 1..(1 + 2 * Dimensions) :
          (1 + g) + (1 + n) + j = 2 + g + n + j /\ 2 + g + n + j \in 1..m
    BY <1>11, <1>16
  <2> QED
    BY <1>15, <1>17, <2>1, Zenon DEF Joins
<1>28. e[3 + g + n] = Dimensions
  <2>1. 1 \in 1..(1 + 2 * Dimensions) /\ 2 + g + n + 1 = 3 + g + n
    BY <1>11
  <2> QED
    BY <1>9, <1>27, <2>1, Zenon DEF VectorLaid
<1>29. ASSUME NEW i \in 0..(Dimensions - 1)
       PROVE  e[g + n + 4 + 2 * i] = a4[2 + 2 * i] /\ e[g + n + 5 + 2 * i] = a4[3 + 2 * i]
  <2>1. /\ 2 + 2 * i \in 1..(1 + 2 * Dimensions) /\ 2 + g + n + (2 + 2 * i) = g + n + 4 + 2 * i
        /\ 3 + 2 * i \in 1..(1 + 2 * Dimensions) /\ 2 + g + n + (3 + 2 * i) = g + n + 5 + 2 * i
    BY <1>11
  <2> QED
    BY <1>27, <2>1, Zenon
<1>30. e[g + n + 2 * Dimensions + 4] = SentTime(q.at)
  <2>1. 1 \in 1..1 /\ m + 1 = g + n + 2 * Dimensions + 4
    BY <1>11, <1>16
  <2> QED
    BY <1>6, <1>17, <2>1, Zenon DEF Joins
<1>31. Len(e) = g + n + 2 * Dimensions + 4
  BY <1>11, <1>17, <1>19 DEF Joins
<1>32. RequestLaid(e, q, g, n)
  BY <1>9, <1>10, <1>11, <1>17, <1>22, <1>24, <1>26, <1>28, <1>29, <1>30, <1>31, Zenon
     DEF RequestLaid, VectorLaid, Joins
<1> QED
  BY <1>18, <1>32, Zenon

-----------------------------------------------------------------------------
(***************************************************************************)
(* Reading a message.                                                      *)
(***************************************************************************)
\* What the reader finds at an offset within the encoding.
LEMMA ReadWhole ==
  ASSUME NEW e \in Fields, NEW p, Whole(p, e), NEW k \in Nat, k < Len(e)
  PROVE  u8(p, k) = e[k + 1] /\ u8(p, k) \in Nat
<1>1. Len(e) \in Nat /\ Len(p) \in Nat /\ Len(e) <= Len(p)
  BY LenProperties DEF Whole, Fields
<1>2. k < Len(p) /\ k + 1 \in 1..Len(e)
  BY <1>1
<1>3. p[k + 1] = e[k + 1]
  BY <1>2, Zenon DEF Whole
<1>4. e[k + 1] \in Nat
  BY <1>2, ElementOfSeq DEF Fields
<1> QED
  BY <1>2, <1>3, <1>4, Zenon DEF u8

\* The vector v is written at an offset.
VectorAt(p, off, D, v) ==
  /\ off \in Nat /\ D \in SUBSET (0..(Dimensions - 1)) /\ v \in [D -> Nat]
  /\ u8(p, off) = Dimensions
  /\ \A i \in 0..(Dimensions - 1) :
       /\ u8(p, off + 1 + 2 * i) = IF i \in D THEN 1 ELSE 0
       /\ u8(p, off + 2 + 2 * i) = IF i \in D THEN v[i] ELSE 0

\* A vector is read as it was written.
LEMMA VectorRead ==
  ASSUME NEW p, NEW off, NEW D, NEW v, VectorAt(p, off, D, v)
  PROVE  /\ VectorOk(p, off)
         /\ vector(p, off) = v
         /\ AfterVector(p, off) = off + 1 + 2 * Dimensions
<1>0. /\ off \in Nat /\ D \in SUBSET (0..(Dimensions - 1)) /\ v \in [D -> Nat]
      /\ u8(p, off) = Dimensions
      /\ \A i \in 0..(Dimensions - 1) :
           /\ u8(p, off + 1 + 2 * i) = IF i \in D THEN 1 ELSE 0
           /\ u8(p, off + 2 + 2 * i) = IF i \in D THEN v[i] ELSE 0
  BY DEF VectorAt
<1> USE <1>0
<1>1. Dimensions \in Nat
  BY MessageAssumption
<1>2. AfterVector(p, off) = off + 1 + 2 * Dimensions
  BY Zenon DEF AfterVector
<1>3. {i \in 0..(Dimensions - 1) : u8(p, off + 1 + 2 * i) # 0} = D
  <2>1. \A i \in 0..(Dimensions - 1) : u8(p, off + 1 + 2 * i) # 0 <=> i \in D
    <3> SUFFICES ASSUME NEW i \in 0..(Dimensions - 1)
                 PROVE  u8(p, off + 1 + 2 * i) # 0 <=> i \in D
      BY Zenon
    <3>1. u8(p, off + 1 + 2 * i) = IF i \in D THEN 1 ELSE 0
      BY Zenon
    <3> QED
      BY <3>1
  <2> QED
    BY <2>1, Zenon
<1>4. vector(p, off) = [d \in D |-> u8(p, off + 2 + 2 * d)]
  BY <1>3, Zenon DEF vector
<1>5. \A d \in D : u8(p, off + 2 + 2 * d) = v[d]
  BY Zenon
<1>6. vector(p, off) = v
  BY <1>4, <1>5
<1>7. ASSUME NEW i \in 1..Dimensions PROVE u8(p, off + 2 * i) >= 0
  <2>1. PICK j : j = i - 1
    BY Zenon
  <2>2. j \in 0..(Dimensions - 1) /\ off + 2 * i = off + 2 + 2 * j
    BY <1>1, <2>1
  <2>3. u8(p, off + 2 * i) = IF j \in D THEN v[j] ELSE 0
    BY <2>2, Zenon
  <2>4. j \in D => v[j] \in Nat
    BY Zenon
  <2> QED
    BY <2>3, <2>4
<1> QED
  BY <1>1, <1>2, <1>6, <1>7 DEF VectorOk

\* An optional is read as it was written.
LEMMA OptionalRead ==
  ASSUME NEW p, NEW off \in Nat, NEW x \in Nat \cup {NoValue},
         x = NoValue => u8(p, off) = 0,
         x # NoValue => u8(p, off) = 1 /\ u8(p, off + 1) = x
  PROVE  /\ optional(p, off) = x
         /\ AfterOptional(p, off) = off + (IF x = NoValue THEN 1 ELSE 2)
<1>1. CASE x = NoValue
  BY <1>1, Zenon DEF optional, AfterOptional
<1>2. CASE x # NoValue
  <2>1. u8(p, off) # 0
    BY <1>2
  <2> QED
    BY <1>2, <2>1, Zenon DEF optional, AfterOptional
<1> QED
  BY <1>1, <1>2, Zenon

\* The list s, of n fields, is written at an offset.
ListAt(p, off, s, n) ==
  /\ p \in Fields /\ off \in Nat /\ s \in Fields /\ n = Len(s)
  /\ u8(p, off) = n /\ off + 1 + n <= Len(p)
  /\ \A j \in 1..n : p[off + 1 + j] = s[j]

\* A list is read as it was written.
LEMMA ListRead ==
  ASSUME NEW p, NEW off, NEW s, NEW n, ListAt(p, off, s, n)
  PROVE  list(p, off) = s /\ AfterList(p, off) = off + 1 + n
<1>0. /\ p \in Fields /\ off \in Nat /\ s \in Fields /\ n = Len(s)
      /\ u8(p, off) = n /\ off + 1 + n <= Len(p)
      /\ \A j \in 1..n : p[off + 1 + j] = s[j]
  BY DEF ListAt
<1> USE <1>0
<1>1. n \in Nat /\ Len(p) \in Nat
  BY LenProperties DEF Fields
<1>2. AfterList(p, off) = off + 1 + n
  BY Zenon DEF AfterList
<1>3. PICK a, b, w : a = off + 2 /\ b = off + 1 + n /\ w = SubSeq(p, a, b)
  BY Zenon
<1>4. a \in Int /\ b \in Int /\ \A i \in a..b : p[i] \in Nat
  <2>1. \A i \in a..b : i \in 1..Len(p)
    BY <1>1, <1>3
  <2>2. \A i \in 1..Len(p) : p[i] \in Nat
    BY ElementOfSeq DEF Fields
  <2> QED
    BY <1>1, <1>3, <2>1, <2>2
<1>5. /\ w \in Seq(Nat)
      /\ Len(w) = IF a <= b THEN b - a + 1 ELSE 0
      /\ \A i \in 1..(b - a + 1) : w[i] = p[a + i - 1]
  BY <1>3, <1>4, SubSeqProperties
<1>6. /\ b - a + 1 = n /\ (IF a <= b THEN b - a + 1 ELSE 0) = n
      /\ \A i \in 1..n : a + i - 1 = off + 1 + i
  BY <1>1, <1>3
<1>7. Len(w) = n /\ \A i \in 1..n : w[i] = s[i]
  BY <1>5, <1>6, Zenon
<1>8. w = s
  BY <1>5, <1>7, SeqEqual, Zenon DEF Fields
<1>9. list(p, off) = w
  BY <1>3, Zenon DEF list
<1> QED
  BY <1>2, <1>8, <1>9, Zenon

\* decode_request makes of an encoded request what its sender meant.
LEMMA RequestDecoded ==
  ASSUME NEW q, RequestTyped(q), NEW p, Whole(p, encode_request(q))
  PROVE  decode_request(p) = IF Len(q.name) > MaxString THEN Malformed
                             ELSE [q EXCEPT !.at = SentTime(q.at)]
<1>1. PICK D \in SUBSET (0..(Dimensions - 1)) :
        q \in [type : Nat, group : Nat \cup {NoValue}, name : Seq(Nat), req : [D -> Nat], at : Int]
  BY Zenon DEF RequestTyped
<1>2. /\ q.type \in Nat /\ q.group \in Nat \cup {NoValue} /\ q.name \in Fields
      /\ q.req \in [D -> Nat] /\ q.at \in Int /\ DOMAIN q.req = D
  BY <1>1 DEF Fields
<1>3. PICK e : e = encode_request(q)
  BY Zenon
<1>4. PICK g, n : RequestLaid(e, q, g, n)
  BY <1>3, RequestLayout, Zenon
<1>5. /\ e \in Fields /\ n = Len(q.name) /\ n \in Nat /\ g \in {1, 2} /\ Dimensions \in Nat
      /\ g = (IF q.group = NoValue THEN 1 ELSE 2)
      /\ Len(e) = g + n + 2 * Dimensions + 4
  BY <1>4, MessageAssumption DEF RequestLaid
<1>6. Whole(p, e) /\ p \in Fields /\ Len(p) \in Nat /\ Len(e) <= Len(p)
  BY <1>3, LenProperties DEF Whole, Fields
<1> DEFINE L == Len(e)
           P == Len(p)
<1>n. /\ n \in Nat /\ g \in Nat /\ 1 <= g /\ g <= 2 /\ Dimensions \in Nat
      /\ L = g + n + 2 * Dimensions + 4 /\ P \in Nat /\ L <= P
  <2>1. g \in Nat /\ 1 <= g /\ g <= 2
    BY <1>5
  <2> QED
    BY <1>5, <1>6, <2>1, Zenon
<1>7. ASSUME NEW k \in Nat, k < L PROVE u8(p, k) = e[k + 1]
  BY <1>5, <1>6, <1>7, ReadWhole, Zenon
<1> HIDE DEF L, P
<1>8. u8(p, 0) = q.type
  <2>1. 0 \in Nat /\ 0 < L /\ 0 + 1 = 1
    BY <1>n
  <2> QED
    BY <1>4, <1>7, <2>1, Zenon DEF RequestLaid
<1>9. optional(p, 1) = q.group /\ AfterOptional(p, 1) = 1 + g
  <2>1. u8(p, 1) = e[2] /\ u8(p, 2) = e[3]
    <3>1. 1 \in Nat /\ 1 < L /\ 1 + 1 = 2 /\ 2 \in Nat /\ 2 < L /\ 2 + 1 = 3
      BY <1>n
    <3> QED
      BY <1>7, <3>1, Zenon
  <2>2. /\ q.group = NoValue => u8(p, 1) = 0
        /\ q.group # NoValue => u8(p, 1) = 1 /\ u8(p, 1 + 1) = q.group
    <3>1. 1 + 1 = 2
      OBVIOUS
    <3> QED
      BY <1>4, <2>1, <3>1, Zenon DEF RequestLaid
  <2>3. /\ optional(p, 1) = q.group
        /\ AfterOptional(p, 1) = 1 + (IF q.group = NoValue THEN 1 ELSE 2)
    <3>1. 1 \in Nat
      OBVIOUS
    <3> QED
      BY <1>2, <2>2, <3>1, OptionalRead, Zenon
  <2> QED
    BY <1>5, <2>3, Zenon
<1>10. PICK a, b, c : a = 1 + g /\ b = 2 + g + n /\ c = g + n + 2 * Dimensions + 3
  BY Zenon
<1>11. /\ a \in Nat /\ b \in Nat /\ c \in Nat /\ b = a + 1 + n /\ c = b + 1 + 2 * Dimensions
       /\ L = c + 1
  BY <1>n, <1>10
<1>12. u8(p, a) = n
  <2>1. a < L /\ a + 1 = 2 + g
    BY <1>n, <1>10, <1>11
  <2> QED
    BY <1>4, <1>7, <1>11, <2>1, Zenon DEF RequestLaid
<1>13. list(p, a) = q.name /\ AfterList(p, a) = b
  <2>1. \A j \in 1..n : p[a + 1 + j] = q.name[j]
    <3> SUFFICES ASSUME NEW j \in 1..n PROVE p[a + 1 + j] = q.name[j]
      BY Zenon
    <3>1. a + 1 + j \in 1..L /\ a + 1 + j = 2 + g + j
      BY <1>n, <1>10, <1>11
    <3>2. p[a + 1 + j] = e[2 + g + j]
      BY <1>6, <3>1, Zenon DEF Whole, L
    <3> QED
      BY <1>4, <3>2, Zenon DEF RequestLaid
  <2>2. a + 1 + n <= P
    BY <1>n, <1>10, <1>11
  <2>3. list(p, a) = q.name /\ AfterList(p, a) = a + 1 + n
    <3>1. PICK s : s = q.name
      BY Zenon
    <3>2. ListAt(p, a, s, n)
      BY <1>2, <1>5, <1>6, <1>11, <1>12, <2>1, <2>2, <3>1, Zenon DEF P, ListAt
    <3>3. list(p, a) = s /\ AfterList(p, a) = a + 1 + n
      BY <3>2, ListRead, Zenon
    <3> QED
      BY <3>1, <3>3, Zenon
  <2> QED
    BY <1>11, <2>3, Zenon
<1>14. VectorOk(p, b) /\ vector(p, b) = q.req /\ AfterVector(p, b) = c
  <2>1. u8(p, b) = Dimensions
    <3>1. b < L /\ b + 1 = 3 + g + n
      BY <1>n, <1>10, <1>11
    <3> QED
      BY <1>4, <1>7, <1>11, <3>1, Zenon DEF RequestLaid
  <2>2. ASSUME NEW i \in 0..(Dimensions - 1)
        PROVE  /\ u8(p, b + 1 + 2 * i) = IF i \in D THEN 1 ELSE 0
               /\ u8(p, b + 2 + 2 * i) = IF i \in D THEN q.req[i] ELSE 0
    <3>1. PICK k, l : k = b + 1 + 2 * i /\ l = b + 2 + 2 * i
      BY Zenon
    <3>2. /\ k \in Nat /\ k < L /\ k + 1 = g + n + 4 + 2 * i
          /\ l \in Nat /\ l < L /\ l + 1 = g + n + 5 + 2 * i
      BY <1>n, <1>10, <1>11, <3>1
    <3>3. u8(p, k) = e[g + n + 4 + 2 * i] /\ u8(p, l) = e[g + n + 5 + 2 * i]
      BY <1>7, <3>2, Zenon
    <3> QED
      BY <1>2, <1>4, <3>1, <3>3, Zenon DEF RequestLaid
  <2>3. VectorOk(p, b) /\ vector(p, b) = q.req /\ AfterVector(p, b) = b + 1 + 2 * Dimensions
    <3>1. PICK v : v = q.req
      BY Zenon
    <3>2. VectorAt(p, b, D, v)
      BY <1>2, <1>11, <2>1, <2>2, <3>1, Zenon DEF VectorAt
    <3>3. VectorOk(p, b) /\ vector(p, b) = v /\ AfterVector(p, b) = b + 1 + 2 * Dimensions
      BY <3>2, VectorRead, Zenon
    <3> QED
      BY <3>1, <3>3, Zenon
  <2> QED
    BY <1>11, <2>3, Zenon
<1>15. u8(p, c) = SentTime(q.at) /\ c < P
  <2>1. c < L /\ c < P /\ c + 1 = g + n + 2 * Dimensions + 4
    BY <1>n, <1>10, <1>11
  <2> QED
    BY <1>4, <1>7, <1>11, <2>1, Zenon DEF RequestLaid
<1>16. StringOk(p, a) <=> ~(n > MaxString)
  BY <1>5, <1>12, MessageAssumption DEF StringOk
<1>17. decode_request(p) =
         IF StringOk(p, a)
         THEN [type |-> q.type, group |-> q.group, name |-> q.name, req |-> q.req,
               at |-> SentTime(q.at)]
         ELSE Malformed
  BY <1>8, <1>9, <1>10, <1>13, <1>14, <1>15, Zenon DEF decode_request, P
<1>18. [q EXCEPT !.at = SentTime(q.at)] =
         [type |-> q.type, group |-> q.group, name |-> q.name, req |-> q.req,
          at |-> SentTime(q.at)]
  BY <1>1
<1> QED
  BY <1>5, <1>16, <1>17, <1>18, Zenon

\* What the reader finds when the end is missing: zeros past it.
LEMMA ReadPartial ==
  ASSUME NEW e \in Fields, NEW p, Partial(p, e), NEW k \in Nat
  PROVE  /\ k < Len(p) => u8(p, k) = e[k + 1]
         /\ ~(k < Len(p)) => u8(p, k) = 0
<1>1. Len(p) \in Nat
  BY LenProperties DEF Partial, Fields
<1>2. k < Len(p) => k + 1 \in 1..Len(p)
  BY <1>1
<1> QED
  BY <1>2, Zenon DEF u8, Partial

\* A request without its end is malformed.
LEMMA RequestCut ==
  ASSUME NEW q, RequestTyped(q), NEW p, Partial(p, encode_request(q))
  PROVE  decode_request(p) = Malformed
<1>1. PICK e : e = encode_request(q)
  BY Zenon
<1>2. PICK g, n : RequestLaid(e, q, g, n)
  BY <1>1, RequestLayout, Zenon
<1>3. /\ e \in Fields /\ n \in Nat
      /\ g = (IF q.group = NoValue THEN 1 ELSE 2)
      /\ Len(e) = g + n + 2 * Dimensions + 4
  BY <1>2, Zenon DEF RequestLaid
<1>4. Partial(p, e) /\ p \in Fields /\ Len(p) < Len(e)
  BY <1>1, Zenon DEF Partial
<1> DEFINE P == Len(p)
           L == Len(e)
<1>5. ASSUME NEW k \in Nat
      PROVE  /\ k < P => u8(p, k) = e[k + 1]
             /\ ~(k < P) => u8(p, k) = 0
  BY <1>3, <1>4, ReadPartial, Zenon
<1>6. /\ n \in Nat /\ g \in Nat /\ 1 <= g /\ Dimensions \in Nat
      /\ L = g + n + 2 * Dimensions + 4 /\ P \in Nat /\ P < L
  <2>1. g \in Nat /\ 1 <= g
    BY <1>3
  <2>2. P \in Nat
    BY <1>4, LenProperties DEF Fields
  <2> QED
    BY <1>3, <1>4, <2>1, <2>2, MessageAssumption, Zenon
<1> HIDE DEF P, L
<1>7. PICK a, b, c : /\ a = AfterOptional(p, 1) /\ b = AfterList(p, a) /\ c = AfterVector(p, b)
  BY Zenon
<1>8. a \in Nat /\ (a < P => a = 1 + g)
  <2>1. CASE 1 < P
    <3>1. u8(p, 1) = e[2]
      <4>1. 1 \in Nat /\ 1 + 1 = 2
        OBVIOUS
      <4> QED
        BY <1>5, <2>1, <4>1, Zenon
    <3>2. (u8(p, 1) # 0) <=> (q.group # NoValue)
      <4>1. 1 # 0
        OBVIOUS
      <4> QED
        BY <1>2, <3>1, <4>1, Zenon DEF RequestLaid
    <3>3. a = 1 + g
      BY <1>3, <1>7, <3>2, Zenon DEF AfterOptional
    <3> QED
      BY <1>6, <3>3
  <2>2. CASE ~(1 < P)
    <3>1. u8(p, 1) = 0
      <4>1. 1 \in Nat
        OBVIOUS
      <4> QED
        BY <1>5, <2>2, <4>1, Zenon
    <3>2. a = 1 + 1
      BY <1>7, <3>1, Zenon DEF AfterOptional
    <3> QED
      BY <1>6, <2>2, <3>2
  <2> QED
    BY <2>1, <2>2, Zenon
<1>9. b \in Nat /\ (b < P => b = 2 + g + n)
  <2>1. b = a + 1 + u8(p, a)
    BY <1>7, Zenon DEF AfterList
  <2>2. CASE a < P
    <3>1. a = 1 + g
      BY <1>8, <2>2
    <3>2. u8(p, a) = e[a + 1]
      BY <1>5, <1>8, <2>2, Zenon
    <3>3. a + 1 = 2 + g
      BY <1>6, <3>1
    <3>4. u8(p, a) = n
      BY <1>2, <3>2, <3>3, Zenon DEF RequestLaid
    <3> QED
      BY <1>6, <2>1, <3>1, <3>4
  <2>3. CASE ~(a < P)
    <3>1. u8(p, a) = 0
      BY <1>5, <1>8, <2>3, Zenon
    <3> QED
      BY <1>6, <1>8, <2>1, <2>3, <3>1
  <2> QED
    BY <2>2, <2>3, Zenon
<1>10. ~(c < P)
  <2>1. c = b + 1 + 2 * u8(p, b)
    BY <1>7, Zenon DEF AfterVector
  <2>2. CASE b < P
    <3>1. b = 2 + g + n
      BY <1>9, <2>2
    <3>2. u8(p, b) = e[b + 1]
      BY <1>5, <1>9, <2>2, Zenon
    <3>3. b + 1 = 3 + g + n
      BY <1>6, <3>1
    <3>4. u8(p, b) = Dimensions
      BY <1>2, <3>2, <3>3, Zenon DEF RequestLaid
    <3> QED
      BY <1>6, <2>1, <3>1, <3>4
  <2>3. CASE ~(b < P)
    <3>1. u8(p, b) = 0
      BY <1>5, <1>9, <2>3, Zenon
    <3> QED
      BY <1>6, <1>9, <2>1, <2>3, <3>1
  <2> QED
    BY <2>2, <2>3, Zenon
<1> QED
  BY <1>7, <1>10, Zenon DEF decode_request, P

-----------------------------------------------------------------------------
\* Where encode_response puts the fields of a response.
ResponseLaid(e, r, m, n) ==
  /\ e \in Fields /\ m = Len(r.message) /\ m \in Nat /\ n = Len(r.recall) /\ n \in Nat
  /\ Len(e) = m + n + 5
  /\ e[1] = r.ok
  /\ e[2] = m /\ \A j \in 1..m : e[2 + j] = r.message[j]
  /\ e[3 + m] = IF r.limiting_dimension = NoValue THEN 255 ELSE r.limiting_dimension
  /\ e[4 + m] = n /\ \A j \in 1..n : e[4 + m + j] = r.recall[j]
  /\ e[5 + m + n] = r.epoch

\* What encode_response writes is laid out as decode_response reads it.
LEMMA ResponseLayout ==
  ASSUME NEW r, ResponseTyped(r)
  PROVE  \E m, n : ResponseLaid(encode_response(r), r, m, n)
<1>1. /\ r.ok \in Nat /\ r.message \in Fields /\ r.recall \in Fields /\ r.epoch \in Nat
      /\ r.limiting_dimension \in (Nat \ {255}) \cup {NoValue}
  BY DEF ResponseTyped, Fields
<1>2. PICK d : d = IF r.limiting_dimension = NoValue THEN 255 ELSE r.limiting_dimension
  BY Zenon
<1>3. d \in Nat
  BY <1>1, <1>2
<1>4. PICK a1, a2, a3, a4, a5 :
        /\ a1 = <<r.ok>> /\ a2 = put_list(r.message) /\ a3 = <<d>>
        /\ a4 = put_list(r.recall) /\ a5 = <<r.epoch>>
  BY Zenon
<1>5. /\ a1 \in Fields /\ Len(a1) = 1 /\ a1[1] = r.ok
      /\ a3 \in Fields /\ Len(a3) = 1 /\ a3[1] = d
      /\ a5 \in Fields /\ Len(a5) = 1 /\ a5[1] = r.epoch
  BY <1>1, <1>3, <1>4, ShortFields, Zenon
<1>6. ListLaid(a2, r.message) /\ ListLaid(a4, r.recall)
  BY <1>1, <1>4, ListLayout, Zenon
<1>7. PICK m, n : m = Len(r.message) /\ n = Len(r.recall)
  BY Zenon
<1>8. m \in Nat /\ n \in Nat
  BY <1>1, <1>7, LenProperties DEF Fields
<1>9. /\ a2 \in Fields /\ Len(a2) = 1 + m /\ a4 \in Fields /\ Len(a4) = 1 + n
      /\ a2[1] = m /\ \A j \in 1..m : a2[1 + j] = r.message[j]
      /\ a4[1] = n /\ \A j \in 1..n : a4[1 + j] = r.recall[j]
  BY <1>6, <1>7, Zenon DEF ListLaid
<1>10. PICK b2, b3, b4, e : b2 = a1 \o a2 /\ b3 = b2 \o a3 /\ b4 = b3 \o a4 /\ e = b4 \o a5
  BY Zenon
<1>11. Joins(b2, a1, 1, a2, 1 + m)
  BY <1>5, <1>9, <1>10, Joined, Zenon
<1>12. Joins(b3, b2, 1 + (1 + m), a3, 1)
  <2>1. b2 \in Fields /\ Len(b2) = 1 + (1 + m)
    BY <1>11, Zenon DEF Joins
  <2> QED
    BY <1>5, <1>10, <2>1, Joined, Zenon
<1>13. Joins(b4, b3, 1 + (1 + m) + 1, a4, 1 + n)
  <2>1. b3 \in Fields /\ Len(b3) = 1 + (1 + m) + 1
    BY <1>12, Zenon DEF Joins
  <2> QED
    BY <1>9, <1>10, <2>1, Joined, Zenon
<1>14. Joins(e, b4, 1 + (1 + m) + 1 + (1 + n), a5, 1)
  <2>1. b4 \in Fields /\ Len(b4) = 1 + (1 + m) + 1 + (1 + n)
    BY <1>13, Zenon DEF Joins
  <2> QED
    BY <1>5, <1>10, <2>1, Joined, Zenon
<1>15. e = encode_response(r)
  BY <1>2, <1>4, <1>10, Zenon DEF encode_response
<1>16. /\ 1 + (1 + m) = 2 + m /\ 1 + (1 + m) + 1 = 3 + m
       /\ 1 + (1 + m) + 1 + (1 + n) = 4 + m + n
  BY <1>8
<1>17. /\ Joins(b3, b2, 2 + m, a3, 1) /\ Joins(b4, b3, 3 + m, a4, 1 + n)
       /\ Joins(e, b4, 4 + m + n, a5, 1)
  BY <1>12, <1>13, <1>14, <1>16, Zenon
<1>18. Len(e) = m + n + 5
  <2>1. Len(e) = 4 + m + n + 1
    BY <1>17, Zenon DEF Joins
  <2> QED
    BY <1>8, <2>1
<1>19. \A j \in 1..(2 + m) : e[j] = b2[j]
  <2>1. \A j \in 1..(2 + m) : j \in 1..(3 + m) /\ j \in 1..(4 + m + n)
    BY <1>8
  <2> QED
    BY <1>17, <2>1, Zenon DEF Joins
<1>20. e[1] = r.ok
  <2>1. 1 \in 1..(2 + m) /\ 1 \in 1..1
    BY <1>8
  <2> QED
    BY <1>5, <1>11, <1>19, <2>1, Zenon DEF Joins
<1>21. e[2] = m /\ \A j \in 1..m : e[2 + j] = r.message[j]
  <2>1. \A j \in 1..(1 + m) : e[1 + j] = a2[j]
    <3>1. \A j \in 1..(1 + m) : 1 + j \in 1..(2 + m)
      BY <1>8
    <3> QED
      BY <1>11, <1>19, <3>1, Zenon DEF Joins
  <2>2. 1 \in 1..(1 + m) /\ 1 + 1 = 2
    BY <1>8
  <2>3. \A j \in 1..m : 1 + j \in 1..(1 + m) /\ 1 + (1 + j) = 2 + j
    BY <1>8
  <2>4. e[2] = a2[1] /\ \A j \in 1..m : e[2 + j] = a2[1 + j]
    BY <2>1, <2>2, <2>3, Zenon
  <2> QED
    BY <1>9, <2>4, Zenon
<1>22. e[3 + m] = d
  <2>1. 1 \in 1..1 /\ 2 + m + 1 = 3 + m /\ 3 + m \in 1..(3 + m) /\ 3 + m \in 1..(4 + m + n)
    BY <1>8
  <2>2. e[3 + m] = b4[3 + m] /\ b4[3 + m] = b3[3 + m]
    BY <1>17, <2>1, Zenon DEF Joins
  <2>3. b3[3 + m] = a3[1]
    BY <1>17, <2>1, Zenon DEF Joins
  <2> QED
    BY <1>5, <2>2, <2>3, Zenon
<1>23. e[4 + m] = n /\ \A j \in 1..n : e[4 + m + j] = r.recall[j]
  <2>1. \A j \in 1..(1 + n) : e[3 + m + j] = a4[j]
    <3>1. \A j \in 1..(1 + n) : 3 + m + j \in 1..(4 + m + n)
      BY <1>8
    <3> QED
      BY <1>17, <3>1, Zenon DEF Joins
  <2>2. 1 \in 1..(1 + n) /\ 3 + m + 1 = 4 + m
    BY <1>8
  <2>3. \A j \in 1..n : 1 + j \in 1..(1 + n) /\ 3 + m + (1 + j) = 4 + m + j
    BY <1>8
  <2>4. e[4 + m] = a4[1] /\ \A j \in 1..n : e[4 + m + j] = a4[1 + j]
    BY <2>1, <2>2, <2>3, Zenon
  <2> QED
    BY <1>9, <2>4, Zenon
<1>24. e[5 + m + n] = r.epoch
  <2>1. 1 \in 1..1 /\ 4 + m + n + 1 = 5 + m + n
    BY <1>8
  <2> QED
    BY <1>5, <1>17, <2>1, Zenon DEF Joins
<1>25. ResponseLaid(e, r, m, n)
  BY <1>2, <1>7, <1>8, <1>17, <1>18, <1>20, <1>21, <1>22, <1>23, <1>24, Zenon
     DEF ResponseLaid, Joins
<1> QED
  BY <1>15, <1>25, Zenon

\* decode_response makes of an encoded response what its sender meant.
LEMMA ResponseDecoded ==
  ASSUME NEW r, ResponseTyped(r), NEW p, Whole(p, encode_response(r))
  PROVE  decode_response(p) = IF Len(r.message) > MaxString THEN Malformed ELSE r
<1>1. /\ r.ok \in Nat /\ r.message \in Fields /\ r.recall \in Fields /\ r.epoch \in Nat
      /\ r.limiting_dimension \in (Nat \ {255}) \cup {NoValue}
      /\ r = [ok |-> r.ok, message |-> r.message, limiting_dimension |-> r.limiting_dimension,
              recall |-> r.recall, epoch |-> r.epoch]
  BY DEF ResponseTyped, Fields
<1>2. PICK e : e = encode_response(r)
  BY Zenon
<1>3. PICK m, n : ResponseLaid(e, r, m, n)
  BY <1>2, ResponseLayout, Zenon
<1>4. /\ e \in Fields /\ m = Len(r.message) /\ n = Len(r.recall)
      /\ Whole(p, e) /\ p \in Fields /\ Len(e) <= Len(p)
  BY <1>2, <1>3, Zenon DEF ResponseLaid, Whole
<1> DEFINE L == Len(e)
           P == Len(p)
<1>5. m \in Nat /\ n \in Nat /\ L = m + n + 5 /\ P \in Nat /\ L <= P
  <2>1. P \in Nat
    BY <1>4, LenProperties DEF Fields
  <2> QED
    BY <1>3, <1>4, <2>1, Zenon DEF ResponseLaid
<1>6. ASSUME NEW k \in Nat, k < L PROVE u8(p, k) = e[k + 1]
  BY <1>4, <1>6, ReadWhole, Zenon
<1>7. \A j \in 1..L : p[j] = e[j]
  BY <1>4, Zenon DEF Whole
<1> HIDE DEF L, P
<1>8. u8(p, 0) = r.ok /\ u8(p, 1) = m
  <2>1. /\ 0 \in Nat /\ 0 < L /\ 0 + 1 = 1
        /\ 1 \in Nat /\ 1 < L /\ 1 + 1 = 2
    BY <1>5
  <2> QED
    BY <1>3, <1>6, <2>1, Zenon DEF ResponseLaid
<1>9. list(p, 1) = r.message /\ AfterList(p, 1) = 2 + m
  <2>1. \A j \in 1..m : p[1 + 1 + j] = r.message[j]
    <3>1. \A j \in 1..m : 1 + 1 + j \in 1..L /\ 1 + 1 + j = 2 + j
      BY <1>5
    <3> QED
      BY <1>3, <1>7, <3>1, Zenon DEF ResponseLaid
  <2>2. 1 \in Nat /\ 1 + 1 + m <= P /\ 1 + 1 + m = 2 + m
    BY <1>5
  <2>3. ListAt(p, 1, r.message, m)
    BY <1>1, <1>4, <1>8, <2>1, <2>2, Zenon DEF ListAt, P
  <2>4. list(p, 1) = r.message /\ AfterList(p, 1) = 1 + 1 + m
    BY <2>3, ListRead, Zenon
  <2> QED
    BY <2>2, <2>4, Zenon
<1>10. PICK a, b, c : a = 2 + m /\ b = 3 + m /\ c = 4 + m + n
  BY Zenon
<1>11. /\ a \in Nat /\ a < L /\ a + 1 = 3 + m /\ b = a + 1
       /\ b \in Nat /\ b < L /\ b + 1 = 4 + m
       /\ c \in Nat /\ c < L /\ c + 1 = 5 + m + n /\ c < P
  BY <1>5, <1>10
<1>12. /\ u8(p, a) = IF r.limiting_dimension = NoValue THEN 255 ELSE r.limiting_dimension
       /\ u8(p, b) = n /\ u8(p, c) = r.epoch
  BY <1>3, <1>6, <1>11, Zenon DEF ResponseLaid
<1>13. list(p, b) = r.recall /\ AfterList(p, b) = c
  <2>1. \A j \in 1..n : p[b + 1 + j] = r.recall[j]
    <3>1. \A j \in 1..n : b + 1 + j \in 1..L /\ b + 1 + j = 4 + m + j
      BY <1>5, <1>10
    <3> QED
      BY <1>3, <1>7, <3>1, Zenon DEF ResponseLaid
  <2>2. b + 1 + n <= P /\ b + 1 + n = c
    BY <1>5, <1>10
  <2>3. ListAt(p, b, r.recall, n)
    BY <1>1, <1>4, <1>11, <1>12, <2>1, <2>2, Zenon DEF ListAt, P
  <2>4. list(p, b) = r.recall /\ AfterList(p, b) = b + 1 + n
    BY <2>3, ListRead, Zenon
  <2> QED
    BY <2>2, <2>4, Zenon
<1>14. (IF u8(p, a) = 255 THEN NoValue ELSE u8(p, a)) = r.limiting_dimension
  BY <1>1, <1>12
<1>15. StringOk(p, 1) <=> ~(m > MaxString)
  BY <1>5, <1>8, MessageAssumption DEF StringOk
<1>16. decode_response(p) =
         IF StringOk(p, 1)
         THEN [ok |-> r.ok, message |-> r.message, limiting_dimension |-> r.limiting_dimension,
               recall |-> r.recall, epoch |-> r.epoch]
         ELSE Malformed
  <2>1. AfterList(p, 1) = a /\ AfterList(p, a + 1) = c /\ list(p, a + 1) = r.recall
    BY <1>9, <1>10, <1>11, <1>13, Zenon
  <2>2. decode_response(p) =
          IF c < P /\ StringOk(p, 1)
          THEN [ok |-> u8(p, 0), message |-> list(p, 1),
                limiting_dimension |-> IF u8(p, a) = 255 THEN NoValue ELSE u8(p, a),
                recall |-> list(p, a + 1), epoch |-> u8(p, c)]
          ELSE Malformed
    BY <2>1, Zenon DEF decode_response, P
  <2> QED
    BY <1>8, <1>9, <1>11, <1>12, <1>14, <2>1, <2>2, Zenon
<1> QED
  BY <1>1, <1>4, <1>15, <1>16, Zenon

\* A response without its end is malformed.
LEMMA ResponseCut ==
  ASSUME NEW r, ResponseTyped(r), NEW p, Partial(p, encode_response(r))
  PROVE  decode_response(p) = Malformed
<1>1. PICK e : e = encode_response(r)
  BY Zenon
<1>2. PICK m, n : ResponseLaid(e, r, m, n)
  BY <1>1, ResponseLayout, Zenon
<1>3. e \in Fields /\ Partial(p, e) /\ p \in Fields /\ Len(p) < Len(e)
  BY <1>1, <1>2, Zenon DEF ResponseLaid, Partial
<1> DEFINE P == Len(p)
           L == Len(e)
<1>4. ASSUME NEW k \in Nat
      PROVE  /\ k < P => u8(p, k) = e[k + 1]
             /\ ~(k < P) => u8(p, k) = 0
  BY <1>3, ReadPartial, Zenon
<1>5. m \in Nat /\ n \in Nat /\ L = m + n + 5 /\ P \in Nat /\ P < L
  <2>1. P \in Nat
    BY <1>3, LenProperties DEF Fields
  <2> QED
    BY <1>2, <1>3, <2>1, Zenon DEF ResponseLaid
<1> HIDE DEF P, L
<1>6. PICK a, b, c : a = AfterList(p, 1) /\ b = a + 1 /\ c = AfterList(p, b)
  BY Zenon
<1>7. a \in Nat /\ (a < P => a = 2 + m)
  <2>1. a = 1 + 1 + u8(p, 1)
    BY <1>6, Zenon DEF AfterList
  <2>2. 1 \in Nat /\ 1 + 1 = 2
    OBVIOUS
  <2>3. CASE 1 < P
    <3>1. u8(p, 1) = m
      BY <1>2, <1>4, <2>2, <2>3, Zenon DEF ResponseLaid
    <3> QED
      BY <1>5, <2>1, <3>1
  <2>4. CASE ~(1 < P)
    <3>1. u8(p, 1) = 0
      BY <1>4, <2>2, <2>4, Zenon
    <3> QED
      BY <1>5, <2>1, <2>4, <3>1
  <2> QED
    BY <2>3, <2>4, Zenon
<1>8. ~(c < P)
  <2>1. c = b + 1 + u8(p, b)
    BY <1>6, Zenon DEF AfterList
  <2>2. b \in Nat /\ (b < P => b = 3 + m /\ b + 1 = 4 + m)
    BY <1>5, <1>6, <1>7
  <2>3. CASE b < P
    <3>1. u8(p, b) = n
      BY <1>2, <1>4, <2>2, <2>3, Zenon DEF ResponseLaid
    <3> QED
      BY <1>5, <2>1, <2>2, <2>3, <3>1
  <2>4. CASE ~(b < P)
    <3>1. u8(p, b) = 0
      BY <1>4, <2>2, <2>4, Zenon
    <3> QED
      BY <1>5, <2>1, <2>2, <2>4, <3>1
  <2> QED
    BY <2>3, <2>4, Zenon
<1> QED
  BY <1>6, <1>8, Zenon DEF decode_response, P

-----------------------------------------------------------------------------
(***************************************************************************)
(* The payload of a frame, and what the other end makes of it.             *)
(***************************************************************************)
CutShort(e, missing) == SubSeq(e, 1, Len(e) - missing)

\* A payload that was cut is Partial, any other is Whole.
LEMMA CutShortIs ==
  ASSUME NEW e \in Fields, Len(e) > 0, NEW missing \in Nat
  PROVE  /\ CutShort(e, missing) \in Fields
         /\ missing > 0 => Partial(CutShort(e, missing), e)
         /\ ~(missing > 0) => Whole(CutShort(e, missing), e)
<1>1. PICK w, L, n : w = CutShort(e, missing) /\ L = Len(e) /\ n = L - missing
  BY Zenon
<1>2. L \in Nat /\ L > 0 /\ n \in Int
  BY <1>1, LenProperties DEF Fields
<1>3. w = SubSeq(e, 1, n)
  BY <1>1, Zenon DEF CutShort
<1>4. CASE n >= 0
  <2>1. n \in 0..Len(e)
    BY <1>1, <1>2, <1>4
  <2>2. w \in Fields /\ Len(w) = n /\ \A j \in 1..n : w[j] = e[j]
    BY <1>3, <2>1, FrontIs, Zenon
  <2>3. missing > 0 => n < L
    BY <1>1, <1>2
  <2>4. ~(missing > 0) => n = L /\ L <= n
    BY <1>1, <1>2
  <2>5. missing > 0 => Partial(w, e)
    BY <1>1, <2>2, <2>3, Zenon DEF Partial
  <2>6. ~(missing > 0) => Whole(w, e)
    BY <1>1, <2>2, <2>4, Zenon DEF Whole
  <2> QED
    BY <1>1, <2>2, <2>5, <2>6, Zenon
<1>5. CASE n < 0
  <2>1. n < 1 /\ 1 \in Int /\ missing > 0
    BY <1>1, <1>2, <1>5
  <2>2. w = <<>>
    BY <1>2, <1>3, <2>1, SubSeqEmpty, Zenon
  <2>3. <<>> \in Fields /\ Len(<<>>) = 0 /\ 1..0 = {}
    BY EmptySeq DEF Fields
  <2>4. 0 < L
    BY <1>2
  <2>5. Partial(w, e)
    BY <1>1, <2>2, <2>3, <2>4, Zenon DEF Partial
  <2> QED
    BY <1>1, <2>1, <2>2, <2>3, <2>5, Zenon
<1> QED
  BY <1>2, <1>4, <1>5

\* The payload of a request, and how it is read.
LEMMA RequestPayload ==
  ASSUME NEW f \in Requests
  PROVE  Payload(f) \in Fields /\ decode_request(Payload(f)) = Reading(f)
<1>1. PICK q, e, w : q = f.message /\ e = encode_request(q) /\ w = CutShort(e, f.missing)
  BY Zenon
<1>2. RequestTyped(q) /\ f.missing \in Nat
  BY <1>1, FrameAssumption, Zenon
<1>3. IsRequest(q)
  BY <1>2 DEF IsRequest, RequestTyped
<1>4. Payload(f) = w
  BY <1>1, <1>3, Zenon DEF Payload, CutShort
<1>5. e \in Fields /\ Len(e) > 0
  <2>1. PICK g, n : RequestLaid(e, q, g, n)
    BY <1>1, <1>2, RequestLayout, Zenon
  <2>2. /\ e \in Fields /\ n \in Nat /\ Len(e) = g + n + 2 * Dimensions + 4
        /\ g = (IF q.group = NoValue THEN 1 ELSE 2)
    BY <2>1, Zenon DEF RequestLaid
  <2>3. g \in Nat
    BY <2>2
  <2>4. PICK L : L = Len(e)
    BY Zenon
  <2>5. L = g + n + 2 * Dimensions + 4 /\ n \in Nat
    BY <2>2, <2>4, Zenon
  <2>6. L > 0
    BY <2>3, <2>5, MessageAssumption
  <2> QED
    BY <2>2, <2>4, <2>6, Zenon
<1>6. /\ w \in Fields
      /\ f.missing > 0 => Partial(w, e)
      /\ ~(f.missing > 0) => Whole(w, e)
  BY <1>1, <1>2, <1>5, CutShortIs, Zenon
<1>7. Reading(f) = IF f.missing > 0 \/ Len(q.name) > MaxString THEN Malformed
                   ELSE [q EXCEPT !.at = SentTime(q.at)]
  BY <1>1, <1>3, Zenon DEF Reading
<1>8. f.missing > 0 => decode_request(w) = Malformed
  BY <1>1, <1>2, <1>6, RequestCut, Zenon
<1>9. ~(f.missing > 0) => decode_request(w) = IF Len(q.name) > MaxString THEN Malformed
                                          ELSE [q EXCEPT !.at = SentTime(q.at)]
  BY <1>1, <1>2, <1>6, RequestDecoded, Zenon
<1> QED
  BY <1>4, <1>6, <1>7, <1>8, <1>9, Zenon

\* The payload of a response, and how it is read.
LEMMA ResponsePayload ==
  ASSUME NEW f \in Responses
  PROVE  Payload(f) \in Fields /\ decode_response(Payload(f)) = Reading(f)
<1>1. PICK r, e, w : r = f.message /\ e = encode_response(r) /\ w = CutShort(e, f.missing)
  BY Zenon
<1>2. ResponseTyped(r) /\ f.missing \in Nat
  BY <1>1, FrameAssumption, Zenon
<1>3. ~IsRequest(r)
  BY <1>2 DEF IsRequest, ResponseTyped
<1>4. Payload(f) = w
  BY <1>1, <1>3, Zenon DEF Payload, CutShort
<1>5. e \in Fields /\ Len(e) > 0
  <2>1. PICK m, n : ResponseLaid(e, r, m, n)
    BY <1>1, <1>2, ResponseLayout, Zenon
  <2>2. PICK L : L = Len(e)
    BY Zenon
  <2>3. e \in Fields /\ m \in Nat /\ n \in Nat /\ L = m + n + 5
    BY <2>1, <2>2, Zenon DEF ResponseLaid
  <2>4. L > 0
    BY <2>3
  <2> QED
    BY <2>2, <2>3, <2>4, Zenon
<1>6. /\ w \in Fields
      /\ f.missing > 0 => Partial(w, e)
      /\ ~(f.missing > 0) => Whole(w, e)
  BY <1>1, <1>2, <1>5, CutShortIs, Zenon
<1>7. Reading(f) = IF f.missing > 0 \/ Len(r.message) > MaxString THEN Malformed ELSE r
  BY <1>1, <1>3, Zenon DEF Reading
<1>8. f.missing > 0 => decode_response(w) = Malformed
  BY <1>1, <1>2, <1>6, ResponseCut, Zenon
<1>9. ~(f.missing > 0) => decode_response(w) = IF Len(r.message) > MaxString THEN Malformed ELSE r
  BY <1>1, <1>2, <1>6, ResponseDecoded, Zenon
<1> QED
  BY <1>4, <1>6, <1>7, <1>8, <1>9, Zenon

\* The frames a direction carries.
Carried == IF direction = "requests" THEN Requests ELSE Responses

\* A payload is read as its sender meant it (message.cpp).
LEMMA PayloadRead ==
  ASSUME NEW f \in Carried
  PROVE  Payload(f) \in Fields /\ Decode(Payload(f)) = Reading(f)
<1>1. CASE direction = "requests"
  BY <1>1, RequestPayload, Zenon DEF Carried, Decode
<1>2. CASE direction # "requests"
  BY <1>2, ResponsePayload, Zenon DEF Carried, Decode
<1> QED
  BY <1>1, <1>2, Zenon

\* The fields of a frame: a header of three, and the payload.
LEMMA FrameFields ==
  ASSUME NEW f \in Carried
  PROVE  /\ encode_frame(f) \in Fields
         /\ Len(Payload(f)) \in Nat
         /\ Len(encode_frame(f)) = 3 + Len(Payload(f))
         /\ encode_frame(f)[1] = kFrameMagic
         /\ encode_frame(f)[2] = f.version
         /\ encode_frame(f)[3] = Len(Payload(f))
         /\ \A j \in 1..Len(Payload(f)) : encode_frame(f)[3 + j] = Payload(f)[j]
<1>1. PICK w, n, v, h, e : /\ w = Payload(f) /\ n = Len(w) /\ v = f.version
                           /\ h = <<kFrameMagic, v, n>> /\ e = h \o w
  BY Zenon
<1>2. w \in Fields
  BY <1>1, PayloadRead, Zenon
<1>3. n \in Nat
  BY <1>1, <1>2, LenProperties DEF Fields
<1>4. v \in Nat
  BY <1>1, FrameAssumption DEF Carried
<1>5. h \in Fields /\ Len(h) = 3 /\ h[1] = kFrameMagic /\ h[2] = v /\ h[3] = n
  BY <1>1, <1>3, <1>4 DEF Fields, kFrameMagic
<1>6. Joins(e, h, 3, w, n)
  BY <1>1, <1>2, <1>5, Joined, Zenon
<1>7. 1 \in 1..3 /\ 2 \in 1..3 /\ 3 \in 1..3
  OBVIOUS
<1>8. e = encode_frame(f)
  BY <1>1, Zenon DEF encode_frame
<1> QED
  BY <1>1, <1>3, <1>5, <1>6, <1>7, <1>8, Zenon DEF Joins

-----------------------------------------------------------------------------
(***************************************************************************)
(* The inductive invariant.                                                *)
(***************************************************************************)
ConnectionTyped ==
  /\ direction \in {"requests", "responses"}
  /\ peer \in BOOLEAN
  /\ sent \in Seq(Carried)

\* The frames sent lie one after the other in S, frame i from start[i] on.
Framed(S, start) ==
  /\ S \in Fields
  /\ start \in [1..(Len(sent) + 1) -> Nat]
  /\ start[Len(sent) + 1] = Len(S)
  /\ \A i \in 1..Len(sent) :
       /\ Segment(encode_frame(sent[i]), S, start[i])
       /\ start[i + 1] = start[i] + Len(encode_frame(sent[i]))

\* The socket holds S from pos on, and send_all has what follows; nothing is
\* lost as long as the sender is there.
InFlight(S, pos) ==
  /\ pos \in Nat
  /\ Segment(wire, S, pos)
  /\ Segment(sending, S, pos + Len(wire))
  /\ peer => pos + Len(wire) + Len(sending) = Len(S)
  /\ ~peer => sending = <<>>

\* recv_all is reading the header of the frame at a.
HeaderPart(S, a, pos) ==
  /\ plen = 0
  /\ Segment(got, S, a)
  /\ Len(got) < 3
  /\ pos = a + Len(got)

\* recv_all is reading the payload of the frame f at a.
PayloadPart(S, a, pos, f) ==
  /\ plen \in Nat /\ plen > 0
  /\ Acceptable(f)
  /\ plen = Len(Payload(f))
  /\ Segment(got, S, a + 3)
  /\ Len(got) < plen
  /\ pos = (a + 3) + Len(got)

Receiving(S, start, pos) ==
  status = "open" =>
    \/ HeaderPart(S, start[Len(received) + 1], pos)
    \/ /\ Len(received) < Len(sent)
       /\ PayloadPart(S, start[Len(received) + 1], pos, sent[Len(received) + 1])

Stream(S, start, pos) == Framed(S, start) /\ InFlight(S, pos) /\ Receiving(S, start, pos)

Delivered ==
  /\ received \in Seq(Fields)
  /\ Len(received) <= Len(sent)
  /\ \A i \in 1..Len(received) : received[i] = Payload(sent[i]) /\ Acceptable(sent[i])

Refused ==
  status = "refused" =>
    Len(received) < Len(sent) /\ ~Acceptable(sent[Len(received) + 1])

FInv ==
  /\ ConnectionTyped
  /\ Delivered
  /\ Refused
  /\ \E S, start, pos : Stream(S, start, pos)

\* Nothing has been sent at first.
LEMMA FirstState == Init => FInv
<1> SUFFICES ASSUME Init PROVE FInv
  BY Zenon
<1>1. /\ direction \in {"requests", "responses"} /\ peer = TRUE
      /\ sent = <<>> /\ sending = <<>> /\ wire = <<>>
      /\ plen = 0 /\ got = <<>> /\ received = <<>> /\ status = "open"
  BY DEF Init
<1>2. /\ <<>> \in Fields /\ <<>> \in Seq(Carried) /\ <<>> \in Seq(Fields)
      /\ Len(<<>>) = 0 /\ 1..0 = {}
  BY DEF Fields
<1>3. ConnectionTyped
  BY <1>1, <1>2 DEF ConnectionTyped
<1>4. Delivered
  BY <1>1, <1>2 DEF Delivered
<1>5. Refused
  BY <1>1 DEF Refused
<1>6. Segment(<<>>, <<>>, 0)
  BY <1>2 DEF Segment
<1>7. PICK start : start = [i \in 1..1 |-> 0]
  BY Zenon
<1>8. Framed(<<>>, start)
  <2>1. start \in [1..(0 + 1) -> Nat] /\ start[0 + 1] = 0
    BY <1>7
  <2> QED
    BY <1>1, <1>2, <2>1, Zenon DEF Framed
<1>9. InFlight(<<>>, 0)
  <2>1. 0 \in Nat /\ 0 + 0 = 0
    OBVIOUS
  <2> QED
    BY <1>1, <1>2, <1>6, <2>1 DEF InFlight
<1>10. Receiving(<<>>, start, 0)
  <2>1. start[0 + 1] = 0 /\ 0 + 0 = 0 /\ 0 < 3
    BY <1>7
  <2> QED
    BY <1>1, <1>2, <1>6, <2>1, Zenon DEF Receiving, HeaderPart
<1>11. Stream(<<>>, start, 0)
  BY <1>8, <1>9, <1>10, Zenon DEF Stream
<1> QED
  BY <1>3, <1>4, <1>5, <1>11, Zenon DEF FInv

\* send_frame puts a frame after all the others.
LEMMA SendKeeps == FInv /\ send_frame => FInv'
<1> SUFFICES ASSUME FInv, send_frame PROVE FInv'
  BY Zenon
<1>1. PICK f \in Carried : sent' = Append(sent, f) /\ sending' = encode_frame(f)
  BY Zenon DEF send_frame, Carried
<1>2. /\ peer /\ sending = <<>>
      /\ direction' = direction /\ wire' = wire /\ peer' = peer /\ plen' = plen
      /\ got' = got /\ received' = received /\ status' = status
  BY DEF send_frame
<1>3. PICK S, start, pos : Stream(S, start, pos)
  BY Zenon DEF FInv
<1>4. ConnectionTyped /\ Delivered /\ Refused
  BY Zenon DEF FInv
<1>5. PICK n : n = Len(sent)
  BY Zenon
<1>6. /\ n \in Nat /\ sent' \in Seq(Carried) /\ Len(sent') = n + 1
      /\ \A i \in 1..n : sent'[i] = sent[i]
      /\ sent'[n + 1] = f
  BY <1>1, <1>4, <1>5, AppendProperties DEF ConnectionTyped
<1>7. Carried' = Carried
  BY <1>2, Zenon DEF Carried
<1>8. ConnectionTyped'
  BY <1>2, <1>4, <1>6, <1>7, Zenon DEF ConnectionTyped
<1>9. Len(received) \in Nat /\ Len(received) <= n
  BY <1>4, <1>5, LenProperties DEF Delivered
<1>10. Delivered'
  <2>1. Len(received) <= n + 1 /\ \A i \in 1..Len(received) : i \in 1..n
    BY <1>6, <1>9
  <2> QED
    BY <1>2, <1>4, <1>6, <2>1, Zenon DEF Delivered
<1>11. Refused'
  <2>1. Len(received) < n => Len(received) + 1 \in 1..n /\ Len(received) < n + 1
    BY <1>6, <1>9
  <2> QED
    BY <1>2, <1>4, <1>5, <1>6, <2>1, Zenon DEF Refused
<1>12. PICK e, S2, m : e = encode_frame(f) /\ S2 = S \o e /\ m = Len(S)
  BY Zenon
<1>13. e \in Fields /\ S \in Fields
  BY <1>3, <1>12, FrameFields, Zenon DEF Stream, Framed
<1>14. Joins(S2, S, m, e, Len(e)) /\ m \in Nat /\ Len(e) \in Nat
  BY <1>12, <1>13, Joined, LenProperties, Zenon DEF Fields
<1>15. ASSUME NEW s, NEW a, Segment(s, S, a) PROVE Segment(s, S2, a)
  BY <1>12, <1>13, <1>15, SegmentKept, Zenon
<1>16. Segment(e, S2, m)
  <2>1. Len(S2) = m + Len(e) /\ \A j \in 1..Len(e) : S2[m + j] = e[j]
    BY <1>14, Zenon DEF Joins
  <2>2. m + Len(e) <= Len(S2)
    BY <1>14, <2>1
  <2> QED
    BY <1>13, <1>14, <2>1, <2>2, Zenon DEF Segment
<1>17. PICK start2 : start2 = [i \in 1..(n + 2) |-> IF i <= n + 1 THEN start[i] ELSE m + Len(e)]
  BY Zenon
<1>18. /\ start \in [1..(n + 1) -> Nat] /\ start[n + 1] = m
       /\ \A i \in 1..n : /\ Segment(encode_frame(sent[i]), S, start[i])
                          /\ start[i + 1] = start[i] + Len(encode_frame(sent[i]))
  BY <1>3, <1>5, <1>12, Zenon DEF Stream, Framed
<1>19. /\ \A i \in 1..(n + 1) : start2[i] = start[i] /\ start2[i] \in Nat
       /\ start2[n + 2] = m + Len(e) /\ start2[n + 2] \in Nat
       /\ start2 = [i \in 1..(n + 2) |-> start2[i]]
       /\ \A i \in 1..(n + 2) : i \in 1..(n + 1) \/ i = n + 2
  <2>1. /\ \A i \in 1..(n + 1) : i \in 1..(n + 2) /\ i <= n + 1
        /\ n + 2 \in 1..(n + 2) /\ ~(n + 2 <= n + 1)
        /\ \A i \in 1..(n + 2) : i \in 1..(n + 1) \/ i = n + 2
    BY <1>6
  <2>2. PICK z : z = m + Len(e)
    BY Zenon
  <2>3. z \in Nat
    BY <1>14, <2>2
  <2>4. start2 = [i \in 1..(n + 2) |-> IF i <= n + 1 THEN start[i] ELSE z]
    BY <1>17, <2>2, Zenon
  <2>5. \A i \in 1..(n + 1) : start2[i] = start[i] /\ start[i] \in Nat
    BY <1>18, <2>1, <2>4, Zenon
  <2>6. start2[n + 2] = z
    BY <2>1, <2>4, Zenon
  <2>7. start2 = [i \in 1..(n + 2) |-> start2[i]]
    BY <2>4, Zenon
  <2> QED
    BY <2>1, <2>2, <2>3, <2>5, <2>6, <2>7, Zenon
<1>20. Framed(S2, start2)'
  <2>1. start2 \in [1..(n + 2) -> Nat] /\ (n + 1) + 1 = n + 2
    <3>1. \A i \in 1..(n + 2) : start2[i] \in Nat
      BY <1>19, Zenon
    <3>2. (n + 1) + 1 = n + 2
      BY <1>6
    <3> QED
      BY <1>19, <3>1, <3>2, Zenon
  <2>2. S2 \in Fields /\ Len(S2) = m + Len(e)
    BY <1>14, Zenon DEF Joins
  <2>3. ASSUME NEW i \in 1..(n + 1)
        PROVE  /\ Segment(encode_frame(sent'[i]), S2, start2[i])
               /\ start2[i + 1] = start2[i] + Len(encode_frame(sent'[i]))
    <3>1. CASE i \in 1..n
      <4>1. i + 1 \in 1..(n + 1) /\ i \in 1..(n + 1)
        BY <1>6, <3>1
      <4> QED
        BY <1>6, <1>15, <1>18, <1>19, <3>1, <4>1, Zenon
    <3>2. CASE i = n + 1
      <4>1. i + 1 = n + 2
        BY <1>6, <3>2
      <4> QED
        BY <1>6, <1>12, <1>16, <1>18, <1>19, <3>2, <4>1, Zenon
    <3> QED
      BY <1>6, <3>1, <3>2
  <2> QED
    BY <1>6, <1>19, <2>1, <2>2, <2>3, Zenon DEF Framed, encode_frame, Payload
<1>21. InFlight(S2, pos)'
  <2>1. /\ pos \in Nat /\ Segment(wire, S, pos) /\ Len(wire) \in Nat
        /\ pos + Len(wire) + Len(<<>>) = m /\ Len(<<>>) = 0
    <3>1. Segment(wire, S, pos) /\ pos \in Nat /\ pos + Len(wire) + Len(<<>>) = m
      BY <1>2, <1>3, <1>12, Zenon DEF Stream, InFlight
    <3>2. Len(wire) \in Nat
      BY <3>1, LenProperties DEF Segment, Fields
    <3> QED
      BY <3>1, <3>2
  <2>2. pos + Len(wire) = m
    BY <2>1
  <2>3. Len(S2) = m + Len(e)
    BY <1>14, Zenon DEF Joins
  <2> QED
    BY <1>1, <1>2, <1>12, <1>15, <1>16, <2>1, <2>2, <2>3, Zenon DEF InFlight
<1>22. Receiving(S2, start2, pos)'
  <2>1. Len(received) + 1 \in 1..(n + 1)
    BY <1>6, <1>9
  <2>2. start2[Len(received) + 1] = start[Len(received) + 1]
    BY <1>19, <2>1, Zenon
  <2>3. Len(received) < n => Len(received) + 1 \in 1..n /\ Len(received) < n + 1
    BY <1>6, <1>9
  <2>4. Receiving(S, start, pos)
    BY <1>3, Zenon DEF Stream
  <2>5. ASSUME status = "open", HeaderPart(S, start[Len(received) + 1], pos)
        PROVE  HeaderPart(S2, start2[Len(received) + 1], pos)'
    BY <1>2, <1>15, <2>2, <2>5, Zenon DEF HeaderPart
  <2>6. ASSUME Len(received) < n, PayloadPart(S, start[Len(received) + 1], pos, sent[Len(received) + 1])
        PROVE  Len(received) < n + 1 /\ PayloadPart(S2, start2[Len(received) + 1], pos, sent[Len(received) + 1])'
    <3>1. sent'[Len(received) + 1] = sent[Len(received) + 1]
      BY <1>6, <2>3, <2>6, Zenon
    <3> QED
      BY <1>2, <1>15, <2>2, <2>3, <2>6, <3>1, Zenon DEF PayloadPart
  <2> QED
    BY <1>2, <1>5, <1>6, <2>4, <2>5, <2>6, Zenon DEF Receiving
<1> QED
  BY <1>8, <1>10, <1>11, <1>20, <1>21, <1>22, Zenon DEF FInv, Stream

\* A step that only moves fields towards the receiver, or loses them.
LEMMA MovingKeeps ==
  ASSUME FInv, NEW S, NEW start, NEW pos, Stream(S, start, pos), InFlight(S, pos)',
         UNCHANGED <<direction, sent, plen, got, received, status>>, peer' \in BOOLEAN
  PROVE  FInv'
<1>1. /\ direction' = direction /\ sent' = sent /\ plen' = plen /\ got' = got
      /\ received' = received /\ status' = status
  OBVIOUS
<1>2. Framed(S, start)'
  BY <1>1, Zenon DEF Stream, Framed, encode_frame, Payload
<1>3. Receiving(S, start, pos)'
  BY <1>1, Zenon DEF Stream, Receiving, HeaderPart, PayloadPart
<1>4. ConnectionTyped' /\ Delivered' /\ Refused'
  BY <1>1, Zenon DEF FInv, ConnectionTyped, Carried, Delivered, Refused
<1> QED
  BY <1>2, <1>3, <1>4, Zenon DEF FInv, Stream

\* send_all hands over some of what is left.
LEMMA SendAllKeeps == FInv /\ send_all => FInv'
<1> SUFFICES ASSUME FInv, send_all PROVE FInv'
  BY Zenon
<1>1. PICK n \in 1..Len(sending) :
        /\ wire' = wire \o SubSeq(sending, 1, n)
        /\ sending' = SubSeq(sending, n + 1, Len(sending))
  BY Zenon DEF send_all
<1>2. peer /\ peer' = peer /\ UNCHANGED <<direction, sent, plen, got, received, status>>
  BY DEF send_all
<1>3. PICK S, start, pos : Stream(S, start, pos)
  BY Zenon DEF FInv
<1>4. PICK a, w, s : a = Len(wire) /\ w = wire /\ s = sending
  BY Zenon
<1>5. /\ S \in Fields /\ pos \in Nat /\ Segment(w, S, pos) /\ Segment(s, S, pos + a)
      /\ pos + a + Len(s) = Len(S)
  BY <1>2, <1>3, <1>4, Zenon DEF Stream, Framed, InFlight
<1>6. a \in Nat /\ Len(s) \in Nat
  BY <1>4, <1>5, LenProperties DEF Segment, Fields
<1>7. n \in 0..Len(s) /\ n \in Nat
  BY <1>4, <1>6
<1>8. PICK front, back : front = SubSeq(s, 1, n) /\ back = SubSeq(s, n + 1, Len(s))
  BY Zenon
<1>9. /\ Segment(front, S, pos + a) /\ Len(front) = n
      /\ Segment(back, S, (pos + a) + n) /\ Len(back) = Len(s) - n
  <2>1. CutAt(s, S, pos + a, n, front, back)
    BY <1>5, <1>7, <1>8, Zenon DEF CutAt
  <2> QED
    BY <2>1, Cut
<1>10. Segment(w \o front, S, pos) /\ Len(w \o front) = a + n
  <2>1. Segment(front, S, pos + Len(w))
    BY <1>4, <1>9, Zenon
  <2> QED
    BY <1>4, <1>5, <1>9, <2>1, SegmentJoin, Zenon
<1>11. wire' = w \o front /\ sending' = back
  BY <1>1, <1>4, <1>8, Zenon
<1>12. (pos + a) + n = pos + (a + n) /\ pos + (a + n) + (Len(s) - n) = Len(S)
  BY <1>5, <1>6, <1>7
<1>13. InFlight(S, pos)'
  BY <1>2, <1>5, <1>9, <1>10, <1>11, <1>12, Zenon DEF InFlight
<1>14. peer' \in BOOLEAN
  BY <1>2, Zenon DEF FInv, ConnectionTyped
<1> QED
  BY <1>2, <1>3, <1>13, <1>14, MovingKeeps, Zenon

\* The sender goes away; what is in the socket may be cut short.
LEMMA LostKeeps ==
  ASSUME FInv, peer' = FALSE, sending' = <<>>,
         UNCHANGED <<direction, sent, plen, got, received, status>>,
         \E n \in 0..Len(wire) : wire' = SubSeq(wire, 1, n)
  PROVE  FInv'
<1>1. PICK n \in 0..Len(wire) : wire' = SubSeq(wire, 1, n)
  BY Zenon
<1>2. PICK S, start, pos : Stream(S, start, pos)
  BY Zenon DEF FInv
<1>3. S \in Fields /\ pos \in Nat /\ Segment(wire, S, pos)
  BY <1>2, Zenon DEF Stream, Framed, InFlight
<1>4. Segment(wire', S, pos) /\ Len(wire') = n
  <2>1. PICK w, f, b : w = wire /\ f = wire' /\ b = SubSeq(w, n + 1, Len(w))
    BY Zenon
  <2>2. CutAt(w, S, pos, n, f, b)
    BY <1>1, <1>3, <2>1, Zenon DEF CutAt
  <2>3. Segment(f, S, pos) /\ Len(f) = n
    BY <2>2, Cut
  <2> QED
    BY <2>1, <2>3, Zenon
<1>5. Len(S) \in Nat /\ n \in Nat /\ pos + n <= Len(S)
  <2>1. Len(S) \in Nat /\ Len(wire) \in Nat
    BY <1>3, LenProperties DEF Segment, Fields
  <2>2. pos + Len(wire) <= Len(S)
    BY <1>3, Zenon DEF Segment
  <2> QED
    BY <1>3, <2>1, <2>2
<1>6. Segment(<<>>, S, pos + n)
  <2>1. <<>> \in Fields /\ Len(<<>>) = 0 /\ 1..0 = {}
    BY DEF Fields
  <2>2. pos + n \in Nat /\ pos + n + 0 <= Len(S)
    BY <1>3, <1>5
  <2> QED
    BY <2>1, <2>2, Zenon DEF Segment
<1>7. InFlight(S, pos)'
  BY <1>3, <1>4, <1>6, Zenon DEF InFlight
<1>8. peer' \in BOOLEAN
  BY Zenon
<1> QED
  BY <1>2, <1>7, <1>8, MovingKeeps, Zenon

\* send fails, or the sender ends.
LEMMA FailureKeeps == FInv /\ (SendFails \/ PeerGone) => FInv'
<1> SUFFICES ASSUME FInv, SendFails \/ PeerGone PROVE FInv'
  BY Zenon
<1>1. CASE PeerGone
  <2>1. /\ peer' = FALSE /\ sending' = <<>>
        /\ UNCHANGED <<direction, sent, plen, got, received, status>>
        /\ \E n \in 0..Len(wire) : wire' = SubSeq(wire, 1, n)
    BY <1>1, Zenon DEF PeerGone
  <2> QED
    BY <2>1, LostKeeps, Zenon
<1>2. CASE SendFails
  <2>1. /\ peer' = FALSE /\ sending' = <<>> /\ wire' = wire
        /\ UNCHANGED <<direction, sent, plen, got, received, status>>
    BY <1>2 DEF SendFails
  <2>2. wire \in Seq(Nat)
    BY Zenon DEF FInv, Stream, InFlight, Segment, Fields
  <2>3. Len(wire) \in 0..Len(wire) /\ SubSeq(wire, 1, Len(wire)) = wire
    BY <2>2
  <2>4. \E n \in 0..Len(wire) : wire' = SubSeq(wire, 1, n)
    BY <2>1, <2>3, Zenon
  <2> QED
    BY <2>1, <2>4, LostKeeps, Zenon
<1> QED
  BY <1>1, <1>2, Zenon

\* recv returns zero.
LEMMA EndKeeps == FInv /\ RecvEnds => FInv'
<1> SUFFICES ASSUME FInv, RecvEnds PROVE FInv'
  BY Zenon
<1>1. /\ status' = "ended" /\ direction' = direction /\ sent' = sent /\ sending' = sending
      /\ wire' = wire /\ peer' = peer /\ plen' = plen /\ got' = got /\ received' = received
  BY DEF RecvEnds
<1>2. PICK S, start, pos : Stream(S, start, pos)
  BY Zenon DEF FInv
<1>3. status' # "open" /\ status' # "refused"
  BY <1>1
<1>4. Framed(S, start)' /\ InFlight(S, pos)'
  BY <1>1, <1>2, Zenon DEF Stream, Framed, InFlight, encode_frame, Payload
<1>5. Receiving(S, start, pos)' /\ Refused'
  BY <1>3, Zenon DEF Receiving, Refused
<1>6. ConnectionTyped' /\ Delivered'
  BY <1>1, Zenon DEF FInv, ConnectionTyped, Carried, Delivered
<1> QED
  BY <1>4, <1>5, <1>6, Zenon DEF FInv, Stream

-----------------------------------------------------------------------------
(***************************************************************************)
(* recv_all reads what a frame has at the place it has come to.            *)
(***************************************************************************)
\* Three fields from where a frame begins are its header.
LEMMA HeaderIs ==
  ASSUME NEW S, NEW f \in Carried, NEW a, Segment(encode_frame(f), S, a),
         NEW g, Segment(g, S, a), Len(g) = 3
  PROVE  g[1] = kFrameMagic /\ g[2] = f.version /\ g[3] = Len(Payload(f))
<1>1. PICK e, n : e = encode_frame(f) /\ n = Len(Payload(f))
  BY Zenon
<1>2. /\ n \in Nat /\ Len(e) = 3 + n
      /\ e[1] = kFrameMagic /\ e[2] = f.version /\ e[3] = n
  BY <1>1, FrameFields, Zenon
<1>3. 1 \in 1..3 /\ 2 \in 1..3 /\ 3 \in 1..3 /\ \A j \in 1..3 : j \in 1..(3 + n)
  BY <1>2
<1>4. \A j \in 1..3 : g[j] = S[a + j] /\ e[j] = S[a + j]
  BY <1>1, <1>2, <1>3, Zenon DEF Segment
<1> QED
  BY <1>1, <1>2, <1>3, <1>4, Zenon

\* What follows the header, as long as the header says, is the payload.
LEMMA PayloadIs ==
  ASSUME NEW S, NEW f \in Carried, NEW a, Segment(encode_frame(f), S, a),
         NEW g, Segment(g, S, a + 3), Len(g) = Len(Payload(f))
  PROVE  g = Payload(f)
<1>1. PICK e, w, n : e = encode_frame(f) /\ w = Payload(f) /\ n = Len(w)
  BY Zenon
<1>2. n \in Nat /\ Len(e) = 3 + n /\ \A j \in 1..n : e[3 + j] = w[j]
  BY <1>1, FrameFields, Zenon
<1>3. w \in Fields /\ a \in Nat /\ a + Len(e) <= Len(S) /\ Len(S) \in Nat
  <2>1. w \in Fields
    BY <1>1, PayloadRead, Zenon
  <2>2. a \in Nat /\ a + Len(e) <= Len(S)
    BY <1>1, Zenon DEF Segment
  <2>3. Len(S) \in Nat
    BY DEF Segment
  <2> QED
    BY <2>1, <2>2, <2>3
<1>4. \A j \in 1..n : w[j] = S[(a + 3) + j]
  <2> SUFFICES ASSUME NEW j \in 1..n PROVE w[j] = S[(a + 3) + j]
    BY Zenon
  <2>1. 3 + j \in 1..(3 + n) /\ a + (3 + j) = (a + 3) + j
    BY <1>2, <1>3
  <2>2. e[3 + j] = S[a + (3 + j)]
    BY <1>1, <1>2, <2>1, Zenon DEF Segment
  <2> QED
    BY <1>2, <2>1, <2>2, Zenon
<1>5. \A j \in 1..n : g[j] = S[(a + 3) + j]
  BY <1>1, Zenon DEF Segment
<1>6. g \in Fields /\ Len(g) = n /\ \A j \in 1..n : g[j] = w[j]
  BY <1>1, <1>4, <1>5, Zenon DEF Segment
<1> QED
  BY <1>1, <1>3, <1>6, SeqEqual DEF Fields

\* Where three fields have come, a frame has been sent.
LEMMA FrameThere ==
  ASSUME ConnectionTyped, NEW S, NEW start, Framed(S, start), NEW k \in Nat, k <= Len(sent),
         NEW g, Segment(g, S, start[k + 1]), Len(g) = 3
  PROVE  k < Len(sent)
<1>1. PICK n, m : n = Len(sent) /\ m = Len(S)
  BY Zenon
<1>2. n \in Nat /\ m \in Nat /\ k <= n
  BY <1>1, LenProperties DEF ConnectionTyped, Framed, Fields
<1>3. start[n + 1] = m
  BY <1>1, Zenon DEF Framed
<1>4. start[k + 1] \in Nat /\ start[k + 1] + 3 <= m
  BY <1>1, Zenon DEF Segment
<1>5. k # n
  BY <1>2, <1>3, <1>4
<1> QED
  BY <1>1, <1>2, <1>5

\* What recv_all has after a turn of its loop, of the frame at a.
Taken(S, a, pos, g) ==
  /\ Len(g) \in Nat
  /\ \/ plen = 0 /\ Segment(g, S, a) /\ pos = a + Len(g)
     \/ /\ plen \in Nat /\ plen > 0 /\ Len(received) < Len(sent)
        /\ Acceptable(sent[Len(received) + 1])
        /\ plen = Len(Payload(sent[Len(received) + 1]))
        /\ Segment(g, S, a + 3) /\ pos = (a + 3) + Len(g)

\* What it does with it.
TurnEnds(g) ==
  \/ Len(g) < Wanted /\ got' = g /\ UNCHANGED <<plen, received, status>>
  \/ Len(g) = Wanted /\ plen = 0 /\ HeaderRead(g)
  \/ Len(g) = Wanted /\ plen > 0 /\ Deliver(g)

\* A turn of the loop goes on in the stream.
LEMMA RecvMoves ==
  ASSUME FInv, recv_all, NEW S, NEW start, NEW pos, Stream(S, start, pos)
  PROVE  /\ status = "open" /\ direction' = direction /\ sent' = sent /\ peer' = peer
         /\ Framed(S, start)'
         /\ \E g, p : InFlight(S, p)' /\ Taken(S, start[Len(received) + 1], p, g) /\ TurnEnds(g)
<1>1. /\ status = "open" /\ direction' = direction /\ sent' = sent
      /\ sending' = sending /\ peer' = peer
  BY DEF recv_all
<1>2. PICK n \in 1..(Wanted - Len(got)) :
        /\ n <= Len(wire)
        /\ wire' = SubSeq(wire, n + 1, Len(wire))
        /\ TurnEnds(got \o SubSeq(wire, 1, n))
  BY Zenon DEF recv_all, TurnEnds
<1>3. PICK a, w, f, b, h, g : /\ a = start[Len(received) + 1] /\ w = wire /\ h = got
                              /\ f = SubSeq(w, 1, n) /\ b = SubSeq(w, n + 1, Len(w))
                              /\ g = h \o f
  BY Zenon
<1>4. /\ S \in Fields /\ pos \in Nat /\ Segment(w, S, pos) /\ Segment(sending, S, pos + Len(w))
      /\ (peer => pos + Len(w) + Len(sending) = Len(S)) /\ (~peer => sending = <<>>)
  BY <1>3, Zenon DEF Stream, Framed, InFlight
<1>5. Framed(S, start)'
  BY <1>1, Zenon DEF Stream, Framed, encode_frame, Payload
<1>6. Len(w) \in Nat /\ n \in Nat /\ n \in 0..Len(w)
  <2>1. Len(w) \in Nat
    BY <1>4, LenProperties DEF Segment, Fields
  <2>2. n \in Int /\ n >= 1 /\ n <= Len(w)
    BY <1>2, <1>3
  <2> QED
    BY <2>1, <2>2
<1>7. CutAt(w, S, pos, n, f, b)
  BY <1>3, <1>4, <1>6, Zenon DEF CutAt
<1>8. /\ Segment(f, S, pos) /\ Len(f) = n
      /\ Segment(b, S, pos + n) /\ Len(b) = Len(w) - n
  BY <1>7, Cut
<1>9. pos + n \in Nat /\ (pos + n) + (Len(w) - n) = pos + Len(w)
  BY <1>4, <1>6
<1>10. InFlight(S, pos + n)'
  <2>1. wire' = b
    BY <1>2, <1>3, Zenon
  <2> QED
    BY <1>1, <1>4, <1>8, <1>9, <2>1, Zenon DEF InFlight
<1>11. TurnEnds(g)
  BY <1>2, <1>3, Zenon
<1>12. ASSUME NEW A, Segment(h, S, A), pos = A + Len(h)
       PROVE  Segment(g, S, A) /\ Len(g) \in Nat /\ pos + n = A + Len(g)
  <2>1. Segment(f, S, A + Len(h))
    BY <1>8, <1>12, Zenon
  <2>2. Segment(g, S, A) /\ Len(g) = Len(h) + n
    <3>1. Segment(h \o f, S, A) /\ Len(h \o f) = Len(h) + Len(f)
      BY <1>4, <1>12, <2>1, SegmentJoin, Zenon
    <3> QED
      BY <1>3, <1>8, <3>1, Zenon
  <2>3. Len(h) \in Nat /\ A \in Nat
    BY <1>12, LenProperties DEF Segment, Fields
  <2> QED
    BY <1>6, <1>12, <2>2, <2>3
<1>13. Taken(S, a, pos + n, g)
  <2>1. CASE HeaderPart(S, a, pos)
    <3>1. plen = 0 /\ Segment(h, S, a) /\ pos = a + Len(h)
      BY <1>3, <2>1, Zenon DEF HeaderPart
    <3> QED
      BY <1>12, <3>1, Zenon DEF Taken
  <2>2. CASE Len(received) < Len(sent) /\ PayloadPart(S, a, pos, sent[Len(received) + 1])
    <3>1. /\ plen \in Nat /\ plen > 0 /\ Acceptable(sent[Len(received) + 1])
          /\ plen = Len(Payload(sent[Len(received) + 1]))
          /\ Segment(h, S, a + 3) /\ pos = (a + 3) + Len(h)
      BY <1>3, <2>2, Zenon DEF PayloadPart
    <3> QED
      BY <1>12, <2>2, <3>1, Zenon DEF Taken
  <2> QED
    BY <1>1, <1>3, <2>1, <2>2, Zenon DEF Stream, Receiving
<1> QED
  BY <1>1, <1>3, <1>5, <1>10, <1>11, <1>13, Zenon

\* recv_frame returns a payload, and the next frame begins where it ended.
LEMMA DeliverKeeps ==
  ASSUME FInv, status = "open", direction' = direction, sent' = sent, peer' = peer,
         NEW S, NEW start, NEW p, Framed(S, start)', InFlight(S, p)',
         NEW k, k = Len(received), k < Len(sent), p = start[(k + 1) + 1],
         Acceptable(sent[k + 1]), NEW w, w = Payload(sent[k + 1]), Deliver(w)
  PROVE  FInv'
<1>1. received' = Append(received, w) /\ plen' = 0 /\ got' = <<>> /\ status' = "open"
  BY DEF Deliver
<1>2. ConnectionTyped /\ Delivered
  BY Zenon DEF FInv
<1>3. k \in Nat /\ Len(sent) \in Nat
  BY <1>2, LenProperties DEF ConnectionTyped, Delivered
<1>4. k + 1 \in 1..Len(sent)
  BY <1>3
<1>5. sent[k + 1] \in Carried
  BY <1>2, <1>4, ElementOfSeq DEF ConnectionTyped
<1>6. w \in Fields
  BY <1>5, PayloadRead, Zenon
<1>7. /\ received' \in Seq(Fields) /\ Len(received') = k + 1
      /\ \A i \in 1..k : received'[i] = received[i]
      /\ received'[k + 1] = w
  BY <1>1, <1>2, <1>6, AppendProperties DEF Delivered
<1>8. ConnectionTyped'
  BY <1>2, Zenon DEF ConnectionTyped, Carried
<1>9. Delivered'
  <2>1. k + 1 <= Len(sent) /\ \A i \in 1..(k + 1) : i \in 1..k \/ i = k + 1
    BY <1>3
  <2>2. ASSUME NEW i \in 1..(k + 1)
        PROVE  received'[i] = Payload(sent[i]) /\ Acceptable(sent[i])
    BY <1>2, <1>7, <2>1, Zenon DEF Delivered
  <2> QED
    BY <1>7, <2>1, <2>2, Zenon DEF Delivered, Payload, Acceptable
<1>10. Refused'
  BY <1>1 DEF Refused
<1>11. Receiving(S, start, p)'
  <2>1. Len(<<>>) = 0 /\ <<>> \in Fields /\ 1..0 = {} /\ 0 < 3
    BY DEF Fields
  <2>2. p \in Nat /\ p + Len(wire') <= Len(S) /\ wire' \in Seq(Nat) /\ S \in Seq(Nat)
    BY Zenon DEF InFlight, Framed, Segment, Fields
  <2>3. p + 0 <= Len(S) /\ p + 0 = p
    <3>1. Len(wire') \in Nat /\ Len(S) \in Nat
      BY <2>2, LenProperties
    <3> QED
      BY <2>2, <3>1
  <2>4. Segment(<<>>, S, p)
    BY <2>1, <2>2, <2>3, Zenon DEF Segment
  <2>5. HeaderPart(S, start[(k + 1) + 1], p)'
    BY <1>1, <2>1, <2>3, <2>4, Zenon DEF HeaderPart
  <2> QED
    BY <1>7, <2>5, Zenon DEF Receiving
<1> QED
  BY <1>8, <1>9, <1>10, <1>11, Zenon DEF FInv, Stream

\* A step of the receiver that returns no payload.
LEMMA ReadingKeeps ==
  ASSUME FInv, direction' = direction, sent' = sent, peer' = peer, received' = received,
         NEW S, NEW start, NEW p, Framed(S, start)', InFlight(S, p)',
         Receiving(S, start, p)', Refused'
  PROVE  FInv'
<1>1. ConnectionTyped' /\ Delivered'
  BY Zenon DEF FInv, ConnectionTyped, Carried, Delivered, Payload, Acceptable
<1> QED
  BY <1>1, Zenon DEF FInv, Stream

\* The empty piece, anywhere in the stream.
LEMMA NothingRead ==
  ASSUME NEW S, NEW p, InFlight(S, p)', S \in Fields
  PROVE  Segment(<<>>, S, p) /\ p \in Nat
<1>1. Len(<<>>) = 0 /\ <<>> \in Fields /\ 1..0 = {}
  BY DEF Fields
<1>2. p \in Nat /\ p + Len(wire') <= Len(S) /\ wire' \in Seq(Nat) /\ S \in Seq(Nat)
  BY Zenon DEF InFlight, Segment, Fields
<1>3. Len(wire') \in Nat /\ Len(S) \in Nat
  BY <1>2, LenProperties
<1>4. p + 0 <= Len(S)
  BY <1>2, <1>3
<1> QED
  BY <1>1, <1>2, <1>4, Zenon DEF Segment

\* The facts about the frame being read that the cases below share.
LEMMA FrameRead ==
  ASSUME FInv, NEW S, NEW start, Framed(S, start), NEW k, k = Len(received), k < Len(sent)
  PROVE  /\ k \in Nat /\ start[k + 1] \in Nat /\ sent[k + 1] \in Carried
         /\ Segment(encode_frame(sent[k + 1]), S, start[k + 1])
         /\ Len(Payload(sent[k + 1])) \in Nat
         /\ start[(k + 1) + 1] = (start[k + 1] + 3) + Len(Payload(sent[k + 1]))
<1>1. k \in Nat /\ Len(sent) \in Nat
  BY LenProperties DEF FInv, ConnectionTyped, Delivered
<1>2. k + 1 \in 1..Len(sent)
  BY <1>1
<1>3. sent[k + 1] \in Carried
  BY <1>2, ElementOfSeq DEF FInv, ConnectionTyped
<1>4. /\ Segment(encode_frame(sent[k + 1]), S, start[k + 1])
      /\ start[(k + 1) + 1] = start[k + 1] + Len(encode_frame(sent[k + 1]))
  BY <1>2, Zenon DEF Framed
<1>5. PICK n, a : n = Len(Payload(sent[k + 1])) /\ a = start[k + 1]
  BY Zenon
<1>6. n \in Nat /\ Len(encode_frame(sent[k + 1])) = 3 + n
  BY <1>3, <1>5, FrameFields, Zenon
<1>7. a \in Nat
  BY <1>4, <1>5, Zenon DEF Segment
<1>8. a + (3 + n) = (a + 3) + n
  BY <1>6, <1>7
<1> QED
  BY <1>1, <1>3, <1>4, <1>5, <1>6, <1>7, <1>8, Zenon

\* recv_all has not read all it wants.
LEMMA PartKeeps ==
  ASSUME FInv, status = "open", direction' = direction, sent' = sent, peer' = peer,
         NEW S, NEW start, NEW p, NEW g, Framed(S, start)', InFlight(S, p)',
         Taken(S, start[Len(received) + 1], p, g), Len(g) < Wanted,
         got' = g, UNCHANGED <<plen, received, status>>
  PROVE  FInv'
<1>1. plen' = plen /\ received' = received /\ status' = status
  OBVIOUS
<1>2. PICK a : a = start[Len(received) + 1]
  BY Zenon
<1>3. Refused'
  BY <1>1 DEF Refused
<1>4. CASE plen = 0
  <2>1. Len(g) < 3 /\ ~(plen > 0)
    BY <1>4 DEF Wanted, HeaderSize
  <2>2. Segment(g, S, a) /\ p = a + Len(g)
    BY <1>2, <2>1, Zenon DEF Taken
  <2>3. Receiving(S, start, p)'
    BY <1>1, <1>2, <1>4, <2>1, <2>2, Zenon DEF Receiving, HeaderPart
  <2> QED
    BY <1>1, <1>3, <2>3, ReadingKeeps, Zenon
<1>5. CASE plen # 0
  <2>1. Len(g) < plen
    BY <1>5 DEF Wanted
  <2>2. /\ plen \in Nat /\ plen > 0 /\ Len(received) < Len(sent)
        /\ Acceptable(sent[Len(received) + 1])
        /\ plen = Len(Payload(sent[Len(received) + 1]))
        /\ Segment(g, S, a + 3) /\ p = (a + 3) + Len(g)
    BY <1>2, <1>5, Zenon DEF Taken
  <2>3. Receiving(S, start, p)'
    BY <1>1, <1>2, <2>1, <2>2, Zenon DEF Receiving, PayloadPart, Acceptable, Payload
  <2> QED
    BY <1>1, <1>3, <2>3, ReadingKeeps, Zenon
<1> QED
  BY <1>4, <1>5, Zenon

\* recv_all has read a header, and recv_frame looks at it.
LEMMA HeaderKeeps ==
  ASSUME FInv, status = "open", direction' = direction, sent' = sent, peer' = peer,
         NEW S, NEW start, NEW p, NEW g, Framed(S, start), Framed(S, start)', InFlight(S, p)',
         Segment(g, S, start[Len(received) + 1]), p = start[Len(received) + 1] + Len(g),
         Len(g) = 3, HeaderRead(g)
  PROVE  FInv'
<1>1. PICK k, a : k = Len(received) /\ a = start[k + 1]
  BY Zenon
<1>2. k \in Nat /\ k <= Len(sent)
  BY <1>1, LenProperties DEF FInv, Delivered
<1>3. k < Len(sent)
  BY <1>1, <1>2, FrameThere, Zenon DEF FInv
<1>4. PICK f, w, n : f = sent[k + 1] /\ w = Payload(f) /\ n = Len(w)
  BY Zenon
<1>5. /\ a \in Nat /\ f \in Carried /\ Segment(encode_frame(f), S, a) /\ n \in Nat
      /\ start[(k + 1) + 1] = (a + 3) + n
  BY <1>1, <1>3, <1>4, FrameRead, Zenon
<1>6. g[1] = kFrameMagic /\ g[2] = f.version /\ g[3] = n
  <2>1. Segment(g, S, a)
    BY <1>1, Zenon
  <2>2. g[1] = kFrameMagic /\ g[2] = f.version /\ g[3] = Len(Payload(f))
    BY <1>5, <2>1, HeaderIs
  <2> QED
    BY <1>4, <2>2, Zenon
<1>7. HeaderOk(g) <=> Acceptable(f)
  BY <1>4, <1>6, Zenon DEF HeaderOk, Acceptable
<1>8. p = a + 3 /\ (a + 3) + 0 = a + 3
  BY <1>1, <1>5
<1>9. S \in Fields
  BY Zenon DEF Framed
<1>10. CASE HeaderOk(g) /\ g[3] = 0 /\ Deliver(<<>>)
  <2>1. n = 0 /\ w \in Fields
    BY <1>4, <1>5, <1>6, <1>10, PayloadRead, Zenon
  <2>2. w = <<>>
    BY <1>4, <2>1, EmptySeq, Zenon DEF Fields
  <2>3. p = start[(k + 1) + 1]
    BY <1>5, <1>8, <2>1, Zenon
  <2> QED
    BY <1>1, <1>3, <1>4, <1>7, <1>10, <2>2, <2>3, DeliverKeeps, Zenon
<1>11. CASE /\ HeaderOk(g) /\ g[3] > 0
            /\ plen' = g[3] /\ got' = <<>>
            /\ UNCHANGED <<received, status>>
  <2>1. received' = received /\ status' = "open"
    BY <1>11
  <2>2. Segment(<<>>, S, a + 3)
    BY <1>8, <1>9, NothingRead, Zenon
  <2>3. Len(<<>>) = 0 /\ n > 0 /\ 0 < n
    BY <1>5, <1>6, <1>11
  <2>4. PayloadPart(S, a, p, f)'
    BY <1>4, <1>5, <1>6, <1>7, <1>8, <1>11, <2>2, <2>3, Zenon
       DEF PayloadPart, Acceptable, Payload
  <2>5. Receiving(S, start, p)'
    BY <1>1, <1>3, <1>4, <2>1, <2>4, Zenon DEF Receiving, PayloadPart, Acceptable, Payload
  <2>6. Refused'
    BY <2>1 DEF Refused
  <2> QED
    BY <2>1, <2>5, <2>6, ReadingKeeps, Zenon
<1>12. CASE ~HeaderOk(g) /\ Refuse
  <2>1. received' = received /\ status' = "refused"
    BY <1>12 DEF Refuse
  <2>2. Receiving(S, start, p)'
    BY <2>1 DEF Receiving
  <2>3. Refused'
    BY <1>1, <1>3, <1>4, <1>7, <1>12, <2>1, Zenon DEF Refused, Acceptable, Payload
  <2> QED
    BY <2>1, <2>2, <2>3, ReadingKeeps, Zenon
<1> QED
  BY <1>10, <1>11, <1>12, Zenon DEF HeaderRead

\* recv_all has read a payload.
LEMMA PayloadKeeps ==
  ASSUME FInv, status = "open", direction' = direction, sent' = sent, peer' = peer,
         NEW S, NEW start, NEW p, NEW g, Framed(S, start), Framed(S, start)', InFlight(S, p)',
         Taken(S, start[Len(received) + 1], p, g), Len(g) = Wanted, plen > 0, Deliver(g)
  PROVE  /\ FInv'
         /\ Len(received) < Len(sent) /\ g = Payload(sent[Len(received) + 1])
<1>1. PICK k, a : k = Len(received) /\ a = start[k + 1]
  BY Zenon
<1>2. plen # 0
  OBVIOUS
<1>3. /\ k < Len(sent) /\ Acceptable(sent[k + 1]) /\ plen = Len(Payload(sent[k + 1]))
      /\ Segment(g, S, a + 3) /\ p = (a + 3) + Len(g)
  BY <1>1, <1>2, Zenon DEF Taken
<1>4. Len(g) = Len(Payload(sent[k + 1]))
  BY <1>2, <1>3, Zenon DEF Wanted
<1>5. /\ sent[k + 1] \in Carried /\ Segment(encode_frame(sent[k + 1]), S, a)
      /\ start[(k + 1) + 1] = (a + 3) + Len(Payload(sent[k + 1]))
  BY <1>1, <1>3, FrameRead, Zenon
<1>6. PICK f : f = sent[k + 1]
  BY Zenon
<1>7. g = Payload(f)
  BY <1>3, <1>4, <1>5, <1>6, PayloadIs, Zenon
<1>8. p = start[(k + 1) + 1]
  BY <1>3, <1>4, <1>5, Zenon
<1> QED
  BY <1>1, <1>3, <1>6, <1>7, <1>8, DeliverKeeps, Zenon

\* One turn of recv_all, whatever it completes.
LEMMA RecvKeeps == FInv /\ recv_all => FInv'
<1> SUFFICES ASSUME FInv, recv_all PROVE FInv'
  BY Zenon
<1>1. PICK S, start, pos : Stream(S, start, pos)
  BY Zenon DEF FInv
<1>2. /\ status = "open" /\ direction' = direction /\ sent' = sent /\ peer' = peer
      /\ Framed(S, start)'
      /\ \E g, p : InFlight(S, p)' /\ Taken(S, start[Len(received) + 1], p, g) /\ TurnEnds(g)
  BY <1>1, RecvMoves, Zenon
<1>3. PICK g, p : InFlight(S, p)' /\ Taken(S, start[Len(received) + 1], p, g) /\ TurnEnds(g)
  BY <1>2, Zenon
<1>4. Framed(S, start)
  BY <1>1, Zenon DEF Stream
<1>5. CASE Len(g) < Wanted /\ got' = g /\ UNCHANGED <<plen, received, status>>
  BY <1>2, <1>3, <1>5, PartKeeps, Zenon
<1>6. CASE Len(g) = Wanted /\ plen = 0 /\ HeaderRead(g)
  <2>1. Len(g) = 3 /\ ~(plen > 0)
    BY <1>6 DEF Wanted, HeaderSize
  <2>2. Segment(g, S, start[Len(received) + 1]) /\ p = start[Len(received) + 1] + Len(g)
    BY <1>3, <2>1, Zenon DEF Taken
  <2> QED
    BY <1>2, <1>3, <1>4, <1>6, <2>1, <2>2, HeaderKeeps, Zenon
<1>7. CASE Len(g) = Wanted /\ plen > 0 /\ Deliver(g)
  BY <1>2, <1>3, <1>4, <1>7, PayloadKeeps, Zenon
<1> QED
  BY <1>3, <1>5, <1>6, <1>7, Zenon DEF TurnEnds

\* Steps that change nothing.
LEMMA IdleKeeps == FInv /\ UNCHANGED vars => FInv'
<1> SUFFICES ASSUME FInv, UNCHANGED vars PROVE FInv'
  BY Zenon
<1>1. /\ direction' = direction /\ sent' = sent /\ sending' = sending /\ wire' = wire
      /\ peer' = peer /\ plen' = plen /\ got' = got /\ received' = received /\ status' = status
  BY DEF vars
<1>2. ConnectionTyped' /\ Delivered' /\ Refused'
  BY <1>1, Zenon DEF FInv, ConnectionTyped, Carried, Delivered, Refused, Payload, Acceptable
<1>3. PICK S, start, pos : Stream(S, start, pos)
  BY Zenon DEF FInv
<1>4. Stream(S, start, pos)'
  BY <1>1, <1>3, Zenon DEF Stream, Framed, InFlight, Receiving, HeaderPart, PayloadPart,
                           encode_frame, Payload, Acceptable
<1> QED
  BY <1>2, <1>4, Zenon DEF FInv

\* Every step keeps the invariant.
LEMMA StepKeeps == FInv /\ [Next]_vars => FInv'
BY SendKeeps, SendAllKeeps, FailureKeeps, RecvKeeps, EndKeeps, IdleKeeps, Zenon DEF Next

\* However the stream is cut, the receiver has read whole frames, in order,
\* and is at a known place of the next one (send_all, recv_all, recv_frame).
THEOREM StreamSound == Spec => []FInv
<1>1. Init => FInv
  BY FirstState
<1>2. FInv /\ [Next]_vars => FInv'
  BY StepKeeps
<1> QED
  BY <1>1, <1>2, PTL DEF Spec

\* recv_frame refuses a frame only for its version or its size.
THEOREM RefusalsHaveCause == Spec => []RefusedForCause
<1>1. FInv => RefusedForCause
  BY Zenon DEF FInv, Refused, RefusedForCause
<1> QED
  BY <1>1, StreamSound, PTL

\* Every payload recv_frame returns is one it should accept.
THEOREM OnlyAcceptableRead == Spec => []OnlyAcceptable
<1>1. FInv => OnlyAcceptable
  BY Zenon DEF FInv, Delivered, OnlyAcceptable
<1> QED
  BY <1>1, StreamSound, PTL

-----------------------------------------------------------------------------
(***************************************************************************)
(* The connection is a queue of messages.                                  *)
(***************************************************************************)
\* What a step does to the payloads received.
LEMMA StepReads ==
  [Next]_vars => /\ direction' = direction
                 /\ \/ received' = received
                    \/ sent' = sent /\ \E w : received' = Append(received, w)
<1>1. UNCHANGED vars => direction' = direction /\ received' = received
  BY DEF vars
<1>2. send_frame \/ send_all \/ SendFails \/ PeerGone \/ RecvEnds
        => direction' = direction /\ received' = received
  BY DEF send_frame, send_all, SendFails, PeerGone, RecvEnds
<1>3. recv_all => direction' = direction /\ sent' = sent
  BY DEF recv_all
<1>4. recv_all => received' = received \/ \E w : received' = Append(received, w)
  <2>1. ASSUME NEW g, HeaderRead(g)
        PROVE  received' = received \/ \E w : received' = Append(received, w)
    BY <2>1, Zenon DEF HeaderRead, Deliver, Refuse
  <2>2. ASSUME NEW g, Deliver(g)
        PROVE  \E w : received' = Append(received, w)
    BY <2>2, Zenon DEF Deliver
  <2>3. ASSUME UNCHANGED <<plen, received, status>>
        PROVE  received' = received
    BY <2>3
  <2> QED
    BY <2>1, <2>2, <2>3, Zenon DEF recv_all
<1> QED
  BY <1>1, <1>2, <1>3, <1>4, Zenon DEF Next

\* The messages the receiver has read so far.
MessagesRead == [i \in 1..Len(received) |-> Decode(received[i])]

\* Nothing is read before anything is sent.
LEMMA QueueBegins == Init => Queue!QueueInit
<1> SUFFICES ASSUME Init PROVE Queue!QueueInit
  BY Zenon
<1>1. sent = <<>> /\ received = <<>> /\ Len(<<>>) = 0
  BY DEF Init
<1>2. [i \in 1..Len(received) |-> Decode(received[i])] = <<>>
  BY <1>1
<1> QED
  BY <1>1, <1>2, Zenon DEF Queue!QueueInit

\* send_frame is Put.
LEMMA SendPuts == FInv /\ send_frame => Queue!Put
<1> SUFFICES ASSUME FInv, send_frame PROVE Queue!Put
  BY Zenon
<1>1. PICK f \in Carried : sent' = Append(sent, f)
  BY Zenon DEF send_frame, Carried
<1>2. direction' = direction /\ received' = received
  BY DEF send_frame
<1>3. sent \in Seq(Carried)
  BY Zenon DEF FInv, ConnectionTyped
<1>4. PICK t, n : t = sent' /\ n = Len(sent)
  BY Zenon
<1>5. /\ t \in Seq(Carried) /\ n \in Nat /\ Len(t) = n + 1
      /\ \A i \in 1..n : t[i] = sent[i]
  BY <1>1, <1>3, <1>4, AppendProperties
<1>6. SubSeq(t, 1, n) = sent
  <2>1. PICK u : u = SubSeq(t, 1, n)
    BY Zenon
  <2>2. u \in Seq(Carried) /\ Len(u) = n /\ \A i \in 1..n : u[i] = t[i]
    BY <1>5, <2>1
  <2>3. \A i \in 1..n : u[i] = sent[i]
    BY <1>5, <2>2, Zenon
  <2> QED
    BY <1>3, <1>4, <2>1, <2>2, <2>3, SeqEqual
<1>7. [i \in 1..Len(received') |-> Decode(received[i])'] = [i \in 1..Len(received) |-> Decode(received[i])]
  BY <1>2, Zenon DEF Decode
<1> QED
  BY <1>4, <1>5, <1>6, <1>7, Zenon DEF Queue!Put

\* recv_frame returning a payload is Take.
LEMMA DeliverTakes ==
  ASSUME FInv, FInv', direction' = direction, sent' = sent,
         NEW w, received' = Append(received, w)
  PROVE  Queue!Take
<1>1. PICK k, r, t, d : /\ k = Len(received) /\ r = received /\ t = received'
                        /\ d = [i \in 1..k |-> Decode(r[i])]
  BY Zenon
<1>2. DEFINE D == {Decode(p) : p \in Fields}
<1>3. /\ r \in Seq(Fields) /\ k = Len(r) /\ k \in Nat
      /\ t \in Seq(Fields) /\ t = Append(r, w)
      /\ Len(t) <= Len(sent) /\ \A i \in 1..Len(t) : t[i] = Payload(sent[i])
  <2>1. Delivered /\ Delivered'
    BY Zenon DEF FInv
  <2>2. \A i \in 1..Len(t) : t[i] = Payload(sent[i])
    BY <1>1, <2>1, Zenon DEF Delivered, Payload
  <2>3. r \in Seq(Fields) /\ t \in Seq(Fields) /\ Len(t) <= Len(sent)
    BY <1>1, <2>1, Zenon DEF Delivered
  <2> QED
    BY <1>1, <2>2, <2>3, LenProperties
<1>4. Len(t) = k + 1 /\ \A i \in 1..k : t[i] = r[i]
  BY <1>3
<1>5. k < Len(sent) /\ k + 1 \in 1..Len(sent) /\ Len(sent) \in Nat
  <2>1. Len(sent) \in Nat
    BY LenProperties DEF FInv, ConnectionTyped
  <2> QED
    BY <1>3, <1>4, <2>1
<1>6. sent[k + 1] \in Carried
  BY <1>5, ElementOfSeq DEF FInv, ConnectionTyped
<1>7. Decode(t[k + 1]) = Reading(sent[k + 1]) /\ t[k + 1] \in Fields
  <2>1. k + 1 \in 1..(k + 1)
    BY <1>3
  <2> QED
    BY <1>3, <1>4, <1>6, <2>1, PayloadRead, Zenon
<1>8. \A i \in 1..k : Decode(r[i]) \in D
  BY <1>3, ElementOfSeq
<1>9. PICK DD : DD = D
  BY Zenon
<1>10. d \in Seq(DD) /\ Len(d) = k /\ \A i \in 1..k : d[i] = Decode(r[i])
  <2>1. d \in [1..k -> DD]
    BY <1>1, <1>8, <1>9, Zenon
  <2>2. \A i \in 1..k : d[i] = Decode(r[i])
    BY <1>1, Zenon
  <2> HIDE DEF D
  <2> QED
    BY <1>3, <2>1, <2>2, SMTT(20)
<1>11. PICK x : x = Reading(sent[k + 1])
  BY Zenon
<1>12. x \in DD
  BY <1>7, <1>9, <1>11, Zenon
<1>13. PICK e : e = [i \in 1..(k + 1) |-> Decode(t[i])]
  BY Zenon
<1>14. e = Append(d, x)
  <2>1. \A i \in 1..(k + 1) : i \in 1..k \/ i = k + 1
    BY <1>3
  <2>2. \A i \in 1..(k + 1) : e[i] = IF i = k + 1 THEN x ELSE d[i]
    BY <1>4, <1>7, <1>10, <1>11, <1>13, <2>1, Zenon
  <2>3. \A i \in 1..(k + 1) : e[i] \in DD
    <3>1. \A i \in 1..k : d[i] \in DD
      BY <1>8, <1>9, <1>10, Zenon
    <3> QED
      BY <1>12, <2>1, <2>2, <3>1, Zenon
  <2>4. e \in [1..(k + 1) -> DD]
    BY <1>13, <2>3, Zenon
  <2>5. e \in Seq(DD) /\ Len(e) = k + 1
    BY <1>3, <2>4
  <2>6. PICK u : u = Append(d, x)
    BY Zenon
  <2>7. /\ u \in Seq(DD) /\ Len(u) = k + 1
        /\ \A i \in 1..(k + 1) : u[i] = IF i = k + 1 THEN x ELSE d[i]
    BY <1>10, <1>12, <1>3, <2>6, AppendProperties
  <2>8. \A i \in 1..(k + 1) : e[i] = u[i]
    BY <2>2, <2>7, Zenon
  <2> QED
    BY <2>5, <2>6, <2>7, <2>8, SeqEqual
<1>15. d = [i \in 1..Len(received) |-> Decode(received[i])]
  BY <1>1, Zenon
<1>16. e = [i \in 1..Len(received') |-> Decode(received[i])']
  BY <1>1, <1>4, <1>13, Zenon DEF Decode
<1> QED
  BY <1>5, <1>10, <1>11, <1>14, <1>15, <1>16, Zenon DEF Queue!Take

\* The receiver of a connection sees a queue of the messages sent, however
\* send_all and recv_all cut the stream and wherever it breaks off.
THEOREM QueueImplemented == Spec => ImplementsQueue
<1>1. Init => Queue!QueueInit
  BY QueueBegins
<1>2. ASSUME FInv, FInv', [Next]_vars
      PROVE  Queue!Put \/ Queue!Take \/ UNCHANGED <<sent, MessagesRead>>
  <2>1. /\ direction' = direction
        /\ \/ received' = received
           \/ sent' = sent /\ \E w : received' = Append(received, w)
    BY <1>2, StepReads, Zenon
  <2>2. CASE sent' = sent /\ \E w : received' = Append(received, w)
    BY <1>2, <2>1, <2>2, DeliverTakes, Zenon
  <2>3. CASE received' = received
    <3>1. CASE send_frame
      BY <1>2, <3>1, SendPuts, Zenon
    <3>2. CASE ~send_frame
      <4>1. sent' = sent
        BY <1>2, <3>2 DEF Next, vars, send_all, SendFails, PeerGone, RecvEnds, recv_all
      <4>2. MessagesRead' = MessagesRead
        BY <2>1, <2>3, Zenon DEF MessagesRead, Decode
      <4> QED
        BY <4>1, <4>2
    <3> QED
      BY <3>1, <3>2, Zenon
  <2> QED
    BY <2>1, <2>2, <2>3, Zenon
<1>3. FInv /\ FInv' /\ [Next]_vars
        => [Queue!Put \/ Queue!Take]_<<sent, [i \in 1..Len(received) |-> Decode(received[i])]>>
  BY <1>2, Zenon DEF MessagesRead
<1> QED
  BY <1>1, <1>3, StreamSound, PTL DEF Spec, ImplementsQueue, Queue!QueueSpec
=============================================================================
