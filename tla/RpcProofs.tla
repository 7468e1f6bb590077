------------------------------ MODULE RpcProofs ------------------------------
(***************************************************************************)
(* Theorems about how a call reaches a procedure.  TcpSession: for every   *)
(* stream of records, every size of a receive and every window of the      *)
(* peer.  RpcServices: for all calls of the form of Call, behind any       *)
(* credential and verifier.                                                *)
(***************************************************************************)
EXTENDS TcpSession, RpcServices, SequenceTheorems, TLAPS

-----------------------------------------------------------------------------
(* The records of a stream, without the state. *)

\* The calls among the first n records of stream s.
CallStep(s, calls, m) == IF s[m].kind = "call" THEN Append(calls, m) ELSE calls

Counted == INSTANCE FoldFacts WITH Op <- CallStep

Numbers(n) == [m \in 1 .. n |-> m]

CallsIn(s, n) == Counted!Fold(s, <<>>, Numbers(n))

\* What CallsAmong counts depends on the stream only.
LEMMA CallsAmongIn == \A n : CallsAmong(n) = CallsIn(stream, n)
BY DEF CallsAmong, AddCall, CallsIn, CallStep, Numbers, FoldLeft, MapThenFoldSet, Max,
       Counted!Fold, Counted!FoldLeft, Counted!MapThenFoldSet, Counted!Max

\* No record, no call.
LEMMA NoCalls == \A s : CallsIn(s, 0) = <<>>
<1>1. DOMAIN Numbers(0) = {}
  BY DEF Numbers
<1>2. QED
  BY <1>1, Counted!FoldEmpty DEF CallsIn

\* One more record is one more call at the end, or none.
LEMMA OneMoreCall ==
  ASSUME NEW s, NEW n \in Nat
  PROVE  CallsIn(s, n + 1) =
           IF s[n + 1].kind = "call" THEN Append(CallsIn(s, n), n + 1) ELSE CallsIn(s, n)
<1>1. /\ DOMAIN Numbers(n) = 1 .. n
      /\ DOMAIN Numbers(n + 1) = 1 .. n + 1
      /\ \A i \in 1 .. n : Numbers(n + 1)[i] = Numbers(n)[i]
      /\ Numbers(n + 1)[n + 1] = n + 1
  BY DEF Numbers
<1>2. CallsIn(s, n + 1) = CallStep(s, CallsIn(s, n), Numbers(n + 1)[n + 1])
  BY <1>1, Counted!FoldOneMore DEF CallsIn
<1>3. QED
  BY <1>1, <1>2 DEF CallStep

-----------------------------------------------------------------------------
(* The bytes of a stream, without the state. *)

Byte == Nat \X Nat

\* What is left of a sequence, split in two ways, when the shorter front is taken away.
LEMMA WithoutFront ==
  ASSUME NEW S, NEW b \in Seq(S), NEW t \in Seq(S), NEW x \in Seq(S), NEW r \in Seq(S),
         b \o t = x \o r, Len(x) <= Len(b)
  PROVE  SubSeq(b, Len(x) + 1, Len(b)) \o t = r
<1> DEFINE rest == SubSeq(b, Len(x) + 1, Len(b))
<1>1. /\ rest \in Seq(S)
      /\ Len(rest) = Len(b) - Len(x)
      /\ \A i \in 1 .. Len(rest) : rest[i] = b[Len(x) + i]
  OBVIOUS
<1> HIDE DEF rest
<1> DEFINE whole == b \o t
           cut == rest \o t
<1>2. /\ Len(whole) = Len(b) + Len(t)
      /\ \A i \in 1 .. Len(b) + Len(t) : whole[i] = IF i <= Len(b) THEN b[i] ELSE t[i - Len(b)]
  BY ConcatProperties
<1>3. /\ Len(whole) = Len(x) + Len(r)
      /\ \A i \in 1 .. Len(x) + Len(r) : whole[i] = IF i <= Len(x) THEN x[i] ELSE r[i - Len(x)]
  <2>1. whole = x \o r
    OBVIOUS
  <2> HIDE DEF whole
  <2>2. QED
    BY <2>1, ConcatProperties
<1>4. /\ cut \in Seq(S)
      /\ Len(cut) = Len(rest) + Len(t)
      /\ \A i \in 1 .. Len(rest) + Len(t) :
           cut[i] = IF i <= Len(rest) THEN rest[i] ELSE t[i - Len(rest)]
  BY <1>1, ConcatProperties
<1> HIDE DEF whole, cut
<1>5. Len(b) \in Nat /\ Len(t) \in Nat /\ Len(x) \in Nat /\ Len(r) \in Nat
  OBVIOUS
<1>6. Len(cut) = Len(r)
  BY <1>1, <1>2, <1>3, <1>4, <1>5
<1>7. ASSUME NEW i \in 1 .. Len(r) PROVE cut[i] = r[i]
  <2>1. Len(x) + i \in 1 .. Len(x) + Len(r) /\ ~(Len(x) + i <= Len(x)) /\ (Len(x) + i) - Len(x) = i
    BY <1>5
  <2>2. whole[Len(x) + i] = r[i]
    BY <1>3, <2>1
  <2>3. CASE i <= Len(rest)
    BY <1>1, <1>2, <1>3, <1>4, <1>5, <2>1, <2>2, <2>3
  <2>4. CASE ~(i <= Len(rest))
    <3>1. cut[i] = t[i - Len(rest)]
      BY <1>1, <1>4, <1>5, <1>6, <2>4
    <3>2. /\ Len(x) + i \in 1 .. Len(b) + Len(t)
          /\ ~(Len(x) + i <= Len(b))
          /\ (Len(x) + i) - Len(b) = i - Len(rest)
      BY <1>1, <1>2, <1>3, <1>5, <2>1, <2>4
    <3>3. QED
      BY <1>2, <2>2, <3>1, <3>2
  <2>5. QED
    BY <2>3, <2>4
<1>8. cut = r
  BY <1>4, <1>6, <1>7, SeqEqual
<1>9. QED
  BY <1>8 DEF cut, rest

Join(c, a, e) == a \o e

Joins == INSTANCE FoldFacts WITH Op <- Join

\* The values that joining a sequence of sequences goes through.
LEMMA JoinSteps ==
  ASSUME NEW n \in Nat, NEW base, NEW seqs, DOMAIN seqs = 1 .. n
  PROVE  \E f : Joins!Steps(f, n, {}, base, seqs) /\ Joins!Fold({}, base, seqs) = f[n]
<1> DEFINE c == {}
<1> HIDE DEF c
<1>1. \E f : Joins!Steps(f, n, c, base, seqs) /\ Joins!Fold(c, base, seqs) = f[n]
  BY Joins!FoldSteps
<1>2. QED
  BY <1>1 DEF c

\* FlattenSeq joins the sequences one after the other.
LEMMA FlattenIsFold ==
  ASSUME NEW S, NEW n \in Nat, NEW seqs \in [1 .. n -> Seq(S)]
  PROVE  FlattenSeq(seqs) = Joins!Fold({}, <<>>, seqs)
<1>0. seqs \in Seq(Seq(S)) /\ Len(seqs) = n /\ DOMAIN seqs = 1 .. n
  OBVIOUS
<1>1. CASE n = 0
  <2>1. seqs = <<>> /\ DOMAIN seqs = {}
    BY <1>0, <1>1
  <2>2. QED
    BY <1>0, <1>1, <2>1, Joins!FoldEmpty DEF FlattenSeq
<1>2. CASE n # 0
  <2>1. PICK f : Joins!Steps(f, n, {}, <<>>, seqs) /\ Joins!Fold({}, <<>>, seqs) = f[n]
    <3> DEFINE base == <<>>
    <3>1. seqs = [i \in 1 .. n |-> seqs[i]] /\ DOMAIN seqs = 1 .. n
      OBVIOUS
    <3> HIDE DEF base
    <3>2. \E f : Joins!Steps(f, n, {}, base, seqs) /\ Joins!Fold({}, base, seqs) = f[n]
      BY <3>1, JoinSteps
    <3>3. QED
      BY <3>2 DEF base
  <2> DEFINE Flat(h) == h = [i \in 1 .. n |-> IF i = 1 THEN seqs[i] ELSE Join({}, h[i - 1], seqs[i])]
             h == CHOOSE h : Flat(h)
  <2>2. FlattenSeq(seqs) = h[n]
    BY <1>0, <1>2 DEF FlattenSeq, Join
  <2>3. f[0] = <<>> /\ \A i \in 1 .. n : f[i] = Join({}, f[i - 1], seqs[i])
    BY <2>1 DEF Joins!Steps
  <2>4. f[1] = seqs[1]
    <3>1. 1 \in 1 .. n /\ 1 - 1 = 0 /\ seqs[1] \in Seq(S)
      BY <1>2
    <3>2. Join({}, <<>>, seqs[1]) = seqs[1]
      BY <3>1, ConcatEmptySeq DEF Join
    <3>3. QED
      BY <2>3, <3>1, <3>2
  <2>5. Flat([i \in 1 .. n |-> f[i]])
    BY <2>3, <2>4
  <2>6. Flat(h)
    BY <2>5
  <2> HIDE DEF h
  <2> DEFINE T == {0} \cup {i \in 1 .. n : h[i] = f[i]}
  <2>7. ASSUME NEW i \in 0 .. n - 1, i \in T PROVE i + 1 \in T
    <3>1. i + 1 \in 1 .. n /\ (i + 1) - 1 = i
      OBVIOUS
    <3>2. CASE i = 0
      BY <2>4, <2>6, <3>1, <3>2
    <3>3. CASE i # 0
      <4>0. h[i] = f[i]
        BY <2>7, <3>3
      <4>1. h[i + 1] = Join({}, h[i], seqs[i + 1]) /\ f[i + 1] = Join({}, f[i], seqs[i + 1])
        BY <2>3, <2>6, <3>1, <3>3
      <4>2. QED
        BY <3>1, <4>0, <4>1
    <3>4. QED
      BY <3>2, <3>3
  <2>8. n \in T
    <3>1. 0 \in T /\ n \in 0 .. n
      OBVIOUS
    <3> HIDE DEF T
    <3>2. \A i \in 0 .. n : i \in T
      BY <2>7, <3>1, Joins!UpTo
    <3>3. QED
      BY <3>1, <3>2
  <2>9. QED
    BY <1>2, <2>1, <2>2, <2>8
<1>3. QED
  BY <1>1, <1>2

BytesIn(s, m) == [k \in 1 .. HeaderSize + s[m].body |-> <<m, k>>]
PiecesIn(s, first, n) == [i \in 1 .. n |-> BytesIn(s, first + i - 1)]
JoinedIn(s, first, n) == Joins!Fold({}, <<>>, PiecesIn(s, first, n))

\* The bytes of a record: those of its length word and those of its body.
LEMMA BytesType ==
  ASSUME NEW s \in Seq(Record), NEW m \in 1 .. Len(s)
  PROVE  /\ BytesIn(s, m) \in Seq({m} \X Nat)
         /\ BytesIn(s, m) \in Seq(Byte)
         /\ Len(BytesIn(s, m)) = HeaderSize + s[m].body
         /\ Len(BytesIn(s, m)) > 0
         /\ BytesIn(s, m)[1] = <<m, 1>>
<1>1. s[m].body \in Nat
  <2>1. s[m] \in Record
    OBVIOUS
  <2>2. QED
    BY <2>1 DEF Record
<1> DEFINE k == HeaderSize + s[m].body
<1>2. k \in Nat /\ k > 0 /\ 1 \in 1 .. k
  BY <1>1 DEF HeaderSize
<1> HIDE DEF k
<1>3. BytesIn(s, m) = [i \in 1 .. k |-> <<m, i>>]
  BY DEF BytesIn, k
<1>4. HeaderSize + s[m].body = k
  BY DEF k
<1> DEFINE b == [i \in 1 .. k |-> <<m, i>>]
<1>5. b \in Seq({m} \X Nat) /\ Len(b) = k
  BY <1>2
<1>6. b \in Seq(Nat \X Nat)
  BY <1>2
<1>7. b[1] = <<m, 1>>
  BY <1>2
<1> HIDE DEF b
<1>8. QED
  BY <1>2, <1>3, <1>4, <1>5, <1>6, <1>7 DEF Byte, b

\* The pieces are the bytes of records that follow one another.
LEMMA PiecesType ==
  ASSUME NEW s \in Seq(Record), NEW first \in Nat \ {0}, NEW n \in Nat, first + n - 1 <= Len(s)
  PROVE  /\ PiecesIn(s, first, n) \in [1 .. n -> Seq(Byte)]
         /\ DOMAIN PiecesIn(s, first, n) = 1 .. n
         /\ \A i \in 1 .. n : PiecesIn(s, first, n)[i] = BytesIn(s, first + i - 1)
<1>1. ASSUME NEW i \in 1 .. n PROVE BytesIn(s, first + i - 1) \in Seq(Byte)
  <2>1. first + i - 1 \in 1 .. Len(s)
    OBVIOUS
  <2>2. QED
    BY <2>1, BytesType
<1>2. QED
  BY <1>1 DEF PiecesIn

\* What BytesOf joins depends on the stream only.
LEMMA BytesOfIn ==
  ASSUME stream \in Seq(Record), NEW first \in Nat \ {0}, NEW last \in Nat,
         first <= last + 1, last <= Len(stream)
  PROVE  BytesOf(first, last) = JoinedIn(stream, first, last - first + 1)
<1> DEFINE n == last - first + 1
           pieces == PiecesIn(stream, first, n)
<1>1. n \in Nat /\ first + n - 1 <= Len(stream)
  OBVIOUS
<1>2. pieces \in [1 .. n -> Seq(Byte)]
  <2> HIDE DEF n
  <2> QED
    BY <1>1, PiecesType
<1>3. BytesOf(first, last) = FlattenSeq(pieces)
  BY DEF BytesOf, PiecesIn, BytesIn, Bytes, Size
<1>4. FlattenSeq(pieces) = Joins!Fold({}, <<>>, pieces)
  <2> HIDE DEF n, pieces
  <2> QED
    BY <1>1, <1>2, FlattenIsFold
<1>5. QED
  BY <1>3, <1>4 DEF JoinedIn

\* No record, no byte.
LEMMA NothingJoined ==
  ASSUME NEW s, NEW first
  PROVE  JoinedIn(s, first, 0) = <<>>
<1>1. DOMAIN PiecesIn(s, first, 0) = {}
  BY DEF PiecesIn
<1>2. QED
  BY <1>1, Joins!FoldEmpty DEF JoinedIn

\* One more record at the end.
LEMMA JoinedMore ==
  ASSUME NEW s \in Seq(Record), NEW first \in Nat \ {0}, NEW n \in Nat, first + n <= Len(s)
  PROVE  JoinedIn(s, first, n + 1) = JoinedIn(s, first, n) \o BytesIn(s, first + n)
<1> DEFINE shorter == PiecesIn(s, first, n)
           longer == PiecesIn(s, first, n + 1)
<1>1. /\ DOMAIN shorter = 1 .. n
      /\ DOMAIN longer = 1 .. n + 1
      /\ \A i \in 1 .. n : longer[i] = shorter[i]
      /\ longer[n + 1] = BytesIn(s, first + n)
  BY DEF PiecesIn
<1> HIDE DEF shorter, longer
<1> DEFINE c == {}
           base == <<>>
<1> HIDE DEF c, base
<1>2. Joins!Fold(c, base, longer) = Join(c, Joins!Fold(c, base, shorter), longer[n + 1])
  BY <1>1, Joins!FoldOneMore
<1>3. QED
  BY <1>1, <1>2 DEF JoinedIn, Join, shorter, longer, c, base

\* What is joined is a sequence of bytes.
LEMMA JoinedType ==
  ASSUME NEW s \in Seq(Record), NEW first \in Nat \ {0}, NEW n \in Nat, first + n - 1 <= Len(s)
  PROVE  JoinedIn(s, first, n) \in Seq(Byte)
<1> DEFINE T == {k \in 0 .. n : JoinedIn(s, first, k) \in Seq(Byte)}
<1>1. 0 \in T
  <2>1. <<>> \in Seq(Byte) /\ 0 \in 0 .. n
    OBVIOUS
  <2>2. QED
    BY <2>1, NothingJoined
<1>2. ASSUME NEW k \in 0 .. n - 1, k \in T PROVE k + 1 \in T
  <2>1. first + k \in 1 .. Len(s) /\ k \in Nat /\ first + k <= Len(s)
    OBVIOUS
  <2>2. BytesIn(s, first + k) \in Seq(Byte)
    BY <2>1, BytesType
  <2>3. JoinedIn(s, first, k + 1) = JoinedIn(s, first, k) \o BytesIn(s, first + k)
    BY <2>1, JoinedMore
  <2>4. JoinedIn(s, first, k + 1) \in Seq(Byte)
    <3>1. JoinedIn(s, first, k) \in Seq(Byte)
      BY <1>2
    <3>2. QED
      BY <2>2, <2>3, <3>1, ConcatProperties
  <2>5. QED
    BY <2>4
<1>3. n \in T
  <2>1. n \in 0 .. n
    OBVIOUS
  <2> HIDE DEF T
  <2>2. \A k \in 0 .. n : k \in T
    BY <1>1, <1>2, Joins!UpTo
  <2>3. QED
    BY <2>1, <2>2
<1>4. QED
  BY <1>3

\* The first record is in front.
LEMMA JoinedFirst ==
  ASSUME NEW s \in Seq(Record), NEW first \in Nat \ {0}, NEW n \in Nat, first + n <= Len(s)
  PROVE  JoinedIn(s, first, n + 1) = BytesIn(s, first) \o JoinedIn(s, first + 1, n)
<1> DEFINE T == {k \in 0 .. n :
                   JoinedIn(s, first, k + 1) = BytesIn(s, first) \o JoinedIn(s, first + 1, k)}
<1>0. BytesIn(s, first) \in Seq(Byte)
  <2>1. first \in 1 .. Len(s)
    OBVIOUS
  <2>2. QED
    BY <2>1, BytesType
<1>1. 0 \in T
  <2>1. JoinedIn(s, first, 1) = <<>> \o BytesIn(s, first)
    <3>1. 0 \in Nat /\ first + 0 <= Len(s) /\ 0 + 1 = 1 /\ first + 0 = first
      OBVIOUS
    <3>2. JoinedIn(s, first, 0 + 1) = JoinedIn(s, first, 0) \o BytesIn(s, first + 0)
      BY <3>1, JoinedMore
    <3>3. QED
      BY <3>1, <3>2, NothingJoined
  <2>2. JoinedIn(s, first + 1, 0) = <<>>
    BY NothingJoined
  <2>3. <<>> \o BytesIn(s, first) = BytesIn(s, first) /\ BytesIn(s, first) \o <<>> = BytesIn(s, first)
    BY <1>0, ConcatEmptySeq
  <2>4. 0 \in 0 .. n /\ 0 + 1 = 1
    OBVIOUS
  <2>5. QED
    BY <2>1, <2>2, <2>3, <2>4
<1>2. ASSUME NEW k \in 0 .. n - 1, k \in T PROVE k + 1 \in T
  <2> DEFINE a == BytesIn(s, first)
             b == JoinedIn(s, first + 1, k)
             c == BytesIn(s, first + k + 1)
  <2>1. /\ k + 1 \in Nat /\ k \in Nat /\ first + 1 \in Nat \ {0}
        /\ first + (k + 1) <= Len(s) /\ (first + 1) + k <= Len(s)
        /\ first + (k + 1) = first + k + 1 /\ (first + 1) + k = first + k + 1
        /\ first + k + 1 \in 1 .. Len(s)
        /\ (first + 1) + k - 1 <= Len(s)
        /\ k + 1 \in 0 .. n
    OBVIOUS
  <2>2. JoinedIn(s, first, (k + 1) + 1) = JoinedIn(s, first, k + 1) \o c
    BY <2>1, JoinedMore
  <2>3. JoinedIn(s, first + 1, k + 1) = b \o c
    BY <2>1, JoinedMore
  <2>4. JoinedIn(s, first, k + 1) = a \o b
    BY <1>2
  <2>5. b \in Seq(Byte) /\ c \in Seq(Byte)
    BY <2>1, JoinedType, BytesType
  <2> HIDE DEF a, b, c
  <2>6. (a \o b) \o c = a \o (b \o c)
    BY <1>0, <2>5, ConcatAssociative DEF a
  <2>7. JoinedIn(s, first, (k + 1) + 1) = a \o JoinedIn(s, first + 1, k + 1)
    BY <2>2, <2>3, <2>4, <2>6
  <2>8. QED
    BY <2>1, <2>7 DEF a
<1>3. n \in T
  <2>1. n \in 0 .. n
    OBVIOUS
  <2> HIDE DEF T
  <2>2. \A k \in 0 .. n : k \in T
    BY <1>1, <1>2, Joins!UpTo
  <2>3. QED
    BY <2>1, <2>2
<1>4. QED
  BY <1>3

\* A sequence is its front and what follows.
LEMMA FrontAndRest ==
  ASSUME NEW S, NEW w \in Seq(S), NEW n \in 0 .. Len(w)
  PROVE  /\ SubSeq(w, 1, n) \in Seq(S)
         /\ Len(SubSeq(w, 1, n)) = n
         /\ SubSeq(w, n + 1, Len(w)) \in Seq(S)
         /\ SubSeq(w, 1, n) \o SubSeq(w, n + 1, Len(w)) = w
<1> DEFINE a == SubSeq(w, 1, n)
           b == SubSeq(w, n + 1, Len(w))
<1>1. a \in Seq(S) /\ Len(a) = n /\ \A i \in 1 .. n : a[i] = w[i]
  OBVIOUS
<1>2. b \in Seq(S) /\ Len(b) = Len(w) - n /\ \A i \in 1 .. Len(w) - n : b[i] = w[n + i]
  OBVIOUS
<1> HIDE DEF a, b
<1> DEFINE c == a \o b
<1>3. /\ c \in Seq(S)
      /\ Len(c) = Len(a) + Len(b)
      /\ \A i \in 1 .. Len(a) + Len(b) : c[i] = IF i <= Len(a) THEN a[i] ELSE b[i - Len(a)]
  BY <1>1, <1>2, ConcatProperties
<1> HIDE DEF c
<1>4. Len(c) = Len(w) /\ Len(w) \in Nat
  BY <1>1, <1>2, <1>3
<1>5. ASSUME NEW i \in 1 .. Len(w) PROVE c[i] = w[i]
  <2>1. CASE i <= n
    BY <1>1, <1>2, <1>3, <1>4, <2>1
  <2>2. CASE ~(i <= n)
    <3>1. c[i] = b[i - n] /\ i - n \in 1 .. Len(w) - n /\ n + (i - n) = i
      BY <1>1, <1>2, <1>3, <1>4, <2>2
    <3>2. QED
      BY <1>2, <3>1
  <2>3. QED
    BY <2>1, <2>2
<1>6. c = w
  BY <1>3, <1>4, <1>5, SeqEqual
<1>7. QED
  BY <1>1, <1>2, <1>6 DEF a, b, c

\* What is a prefix is a prefix by some rest, and the other way round.
LEMMA PrefixByRest ==
  ASSUME NEW S, NEW b \in Seq(S), NEW w \in Seq(S)
  PROVE  /\ IsPrefix(b, w) => \E t \in Seq(S) : b \o t = w
         /\ \A t \in Seq(S) : b \o t = w => IsPrefix(b, w)
<1>1. ASSUME IsPrefix(b, w) PROVE \E t \in Seq(S) : b \o t = w
  <2>1. Len(b) \in 0 .. Len(w) /\ SubSeq(b, 1, Len(b)) = SubSeq(w, 1, Len(b))
    BY <1>1 DEF IsPrefix
  <2>2. SubSeq(b, 1, Len(b)) = b
    BY SubSeqFull
  <2> DEFINE n == Len(b)
             t == SubSeq(w, n + 1, Len(w))
  <2>3. t \in Seq(S) /\ SubSeq(w, 1, n) \o t = w
    <3> HIDE DEF n
    <3>1. n \in 0 .. Len(w)
      BY <2>1 DEF n
    <3>2. QED
      BY <3>1, FrontAndRest
  <2> HIDE DEF t
  <2>4. QED
    BY <2>1, <2>2, <2>3
<1>2. ASSUME NEW t \in Seq(S), b \o t = w PROVE IsPrefix(b, w)
  <2>1. Len(w) = Len(b) + Len(t) /\ \A i \in 1 .. Len(b) : w[i] = b[i]
    <3> DEFINE c == b \o t
    <3>1. /\ Len(c) = Len(b) + Len(t)
          /\ \A i \in 1 .. Len(b) + Len(t) : c[i] = IF i <= Len(b) THEN b[i] ELSE t[i - Len(b)]
      BY ConcatProperties
    <3>2. c = w
      BY <1>2
    <3> HIDE DEF c
    <3>3. QED
      BY <3>1, <3>2
  <2>2. Len(b) \in Nat /\ Len(t) \in Nat /\ Len(b) <= Len(w)
    BY <2>1
  <2> DEFINE front == SubSeq(w, 1, Len(b))
  <2>3. front \in Seq(S) /\ Len(front) = Len(b) /\ \A i \in 1 .. Len(b) : front[i] = w[i]
    BY <2>2
  <2> HIDE DEF front
  <2>4. front = b
    BY <2>1, <2>3, SeqEqual
  <2>5. SubSeq(b, 1, Len(b)) = b
    BY SubSeqFull
  <2>6. QED
    BY <2>2, <2>4, <2>5 DEF IsPrefix, front
<1>3. QED
  BY <1>1, <1>2

-----------------------------------------------------------------------------
(* The inductive invariant. *)

\* What a broken connection had not delivered is lost, and the callback is called when
\* something was received.  Framed needs both: without the first the bytes of another
\* position could follow, without the second there is no first record to look at.
LostIsGone == peer = "reset" => wire = <<>>
SomethingReceived == thread = "callback" => buffer # <<>>

Inv == TypeOK /\ LostIsGone /\ SomethingReceived /\ Framed

\* The first h records were handled, and tail is missing in the buffer.
Reached(h, tail) ==
  /\ h \in 0 .. sent
  /\ tail \in Seq(Byte)
  /\ replies = CallsIn(stream, h)
  /\ buffer \o tail = JoinedIn(stream, h + 1, sent - h)
  /\ peer # "reset" => tail = wire

\* The values of the sequences, whoever sent the bytes.
LEMMA BytesReceived ==
  ASSUME TypeOK
  PROVE  /\ wire \in Seq(Byte) /\ buffer \in Seq(Byte)
         /\ sent \in Nat /\ Len(stream) \in Nat /\ sent <= Len(stream)
         /\ stream \in Seq(Record)
<1>1. sent \in Nat /\ Len(stream) \in Nat /\ sent <= Len(stream) /\ stream \in Seq(Record)
  BY DEF TypeOK
<1>2. (1 .. sent) \X Nat \subseteq Byte
  BY <1>1 DEF Byte
<1>3. wire \in Seq(Byte) /\ buffer \in Seq(Byte)
  BY <1>2 DEF TypeOK
<1>4. QED
  BY <1>1, <1>3

\* Framed, with what is missing in the buffer named.
LEMMA FramedAt ==
  ASSUME TypeOK, LostIsGone, Framed
  PROVE  \E h, tail : Reached(h, tail)
<1>0. wire \in Seq(Byte) /\ buffer \in Seq(Byte) /\ sent \in Nat /\ sent <= Len(stream)
      /\ stream \in Seq(Record) /\ Len(stream) \in Nat
  BY BytesReceived
<1>1. PICK h \in 0 .. sent :
        /\ replies = CallsAmong(h)
        /\ LET rest == BytesOf(h + 1, sent)
           IN IF peer = "reset" THEN IsPrefix(buffer, rest) ELSE buffer \o wire = rest
  BY DEF Framed
<1> DEFINE rest == JoinedIn(stream, h + 1, sent - h)
<1>2. /\ h + 1 \in Nat \ {0} /\ sent - h \in Nat /\ sent - (h + 1) + 1 = sent - h
      /\ h + 1 <= sent + 1 /\ (h + 1) + (sent - h) - 1 <= Len(stream)
  BY <1>0
<1>3. BytesOf(h + 1, sent) = rest
  BY <1>0, <1>2, BytesOfIn
<1>4. rest \in Seq(Byte)
  BY <1>0, <1>2, JoinedType
<1>5. replies = CallsIn(stream, h)
  BY <1>1, CallsAmongIn
<1> HIDE DEF rest
<1>6. CASE peer = "reset"
  <2>1. IsPrefix(buffer, rest)
    BY <1>1, <1>3, <1>6
  <2>2. PICK tail \in Seq(Byte) : buffer \o tail = rest
    BY <1>0, <1>4, <2>1, PrefixByRest
  <2>3. Reached(h, tail)
    BY <1>5, <1>6, <2>2 DEF Reached, rest
  <2>4. QED
    BY <2>3
<1>7. CASE peer # "reset"
  <2>1. Reached(h, wire)
    BY <1>0, <1>1, <1>3, <1>5, <1>7 DEF Reached, rest
  <2>2. QED
    BY <2>1
<1>8. QED
  BY <1>6, <1>7

\* Framed of the values of the variables, in this state and in the next.
FramedOf(str, snt, per, wir, buf, rep) ==
  \E handled \in 0 .. snt :
    /\ rep = CallsIn(str, handled)
    /\ LET rest == FlattenSeq(PiecesIn(str, handled + 1, snt - (handled + 1) + 1))
       IN IF per = "reset" THEN IsPrefix(buf, rest) ELSE buf \o wir = rest

\* Framed speaks of the values of these variables only.
LEMMA FramedByValues == Framed' <=> FramedOf(stream', sent', peer', wire', buffer', replies')
BY DEF Framed, FramedOf, CallsAmong, AddCall, CallsIn, CallStep, Numbers, FoldLeft, MapThenFoldSet,
       Max, Counted!Fold, Counted!FoldLeft, Counted!MapThenFoldSet, Counted!Max,
       BytesOf, Bytes, Size, PiecesIn, BytesIn

\* The other way round, in the next state.
LEMMA FramedNext ==
  ASSUME TypeOK, stream' = stream, TypeOK',
         NEW h \in 0 .. sent', NEW tail \in Seq(Byte), replies' = CallsIn(stream, h),
         buffer' \o tail = JoinedIn(stream, h + 1, sent' - h),
         peer' # "reset" => tail = wire'
  PROVE  Framed'
<1>0. /\ sent' \in Nat /\ sent' <= Len(stream) /\ Len(stream) \in Nat
      /\ stream \in Seq(Record)
  BY DEF TypeOK
<1>1. (1 .. sent') \X Nat \subseteq Byte
  BY <1>0 DEF Byte
<1>2. buffer' \in Seq(Byte)
  BY <1>1 DEF TypeOK
<1> DEFINE n == sent' - h
           pieces == PiecesIn(stream, h + 1, n)
           rest == JoinedIn(stream, h + 1, n)
<1>3. /\ h + 1 \in Nat \ {0} /\ n \in Nat /\ sent' - (h + 1) + 1 = n
      /\ (h + 1) + n - 1 <= Len(stream)
  <2> DEFINE k == sent'
             l == Len(stream)
  <2>1. k \in Nat /\ l \in Nat /\ k <= l /\ h \in 0 .. k
    BY <1>0
  <2> HIDE DEF k, l
  <2>2. h + 1 \in Nat \ {0} /\ k - h \in Nat /\ k - (h + 1) + 1 = k - h /\ (h + 1) + (k - h) - 1 <= l
    BY <2>1
  <2>3. QED
    BY <2>2 DEF k, l
<1> HIDE DEF n
<1>4. pieces \in [1 .. n -> Seq(Byte)]
  BY <1>0, <1>3, PiecesType
<1>5. FlattenSeq(pieces) = rest
  <2> HIDE DEF pieces
  <2>1. FlattenSeq(pieces) = Joins!Fold({}, <<>>, pieces)
    BY <1>3, <1>4, FlattenIsFold
  <2>2. QED
    BY <2>1 DEF JoinedIn, pieces
<1>6. rest \in Seq(Byte)
  BY <1>0, <1>3, JoinedType
<1>7. buffer' \o tail = rest
  BY DEF n
<1> HIDE DEF rest, pieces
<1>8. IF peer' = "reset" THEN IsPrefix(buffer', rest) ELSE buffer' \o wire' = rest
  <2>1. IsPrefix(buffer', rest)
    BY <1>2, <1>6, <1>7, PrefixByRest
  <2>2. QED
    BY <1>7, <2>1
<1>9. pieces = PiecesIn(stream', h + 1, sent' - (h + 1) + 1)
  BY <1>3 DEF pieces
<1>10. FramedOf(stream', sent', peer', wire', buffer', replies')
  BY <1>5, <1>8, <1>9 DEF FramedOf
<1>11. QED
  BY <1>10, FramedByValues

-----------------------------------------------------------------------------
(* The steps. *)

\* A bigger number of records has the smaller one's bytes and answers.
LEMMA SeqWider ==
  ASSUME NEW n \in Nat
  PROVE  /\ Seq(1 .. n) \subseteq Seq(1 .. n + 1)
         /\ Seq((1 .. n) \X Nat) \subseteq Seq((1 .. n + 1) \X Nat)
<1> DEFINE A == 1 .. n
           B == 1 .. n + 1
<1>1. A \subseteq B /\ A \X Nat \subseteq B \X Nat
  OBVIOUS
<1> HIDE DEF A, B
<1>2. Seq(A) \subseteq Seq(B) /\ Seq(A \X Nat) \subseteq Seq(B \X Nat)
  BY <1>1
<1>3. QED
  BY <1>2 DEF A, B

\* The bytes of the next record come behind the ones under way.
LEMMA SendKeeps ==
  ASSUME Inv, Send
  PROVE  Inv'
<1>0. TypeOK /\ LostIsGone /\ SomethingReceived /\ Framed
  BY DEF Inv
<1>1. PICK h, tail : Reached(h, tail)
  BY <1>0, FramedAt
<1>2. /\ wire \in Seq(Byte) /\ buffer \in Seq(Byte)
      /\ sent \in Nat /\ Len(stream) \in Nat /\ sent < Len(stream)
      /\ stream \in Seq(Record)
  BY <1>0, BytesReceived DEF Send
<1> DEFINE bytes == BytesIn(stream, sent + 1)
<1>3. /\ sent' = sent + 1 /\ wire' = wire \o bytes /\ peer = "open"
      /\ UNCHANGED <<stream, window, peer, buffer, thread, dropped, replies>>
  BY DEF Send, Bytes, BytesIn, Size
<1>4. sent + 1 \in 1 .. Len(stream)
  BY <1>2
<1>5. bytes \in Seq({sent + 1} \X Nat) /\ bytes \in Seq(Byte)
  BY <1>2, <1>4, BytesType
<1> HIDE DEF bytes
<1>6. bytes \in Seq((1 .. sent + 1) \X Nat)
  <2> DEFINE A == {sent + 1} \X Nat
             B == (1 .. sent + 1) \X Nat
  <2>1. A \subseteq B
    BY <1>4
  <2>2. bytes \in Seq(A)
    BY <1>5
  <2> HIDE DEF A, B
  <2>3. bytes \in Seq(B)
    BY <2>1, <2>2
  <2>4. QED
    BY <2>3 DEF B
<1>7. TypeOK'
  <2>1. wire \in Seq((1 .. sent + 1) \X Nat) /\ buffer \in Seq((1 .. sent + 1) \X Nat)
        /\ replies \in Seq(1 .. sent + 1)
    BY <1>0, <1>2, SeqWider DEF TypeOK
  <2>2. wire \o bytes \in Seq((1 .. sent + 1) \X Nat)
    BY <1>6, <2>1, ConcatProperties
  <2>3. sent + 1 \in 0 .. Len(stream)
    BY <1>2
  <2>4. QED
    BY <1>0, <1>3, <2>1, <2>2, <2>3 DEF TypeOK
<1>8. LostIsGone' /\ SomethingReceived'
  BY <1>0, <1>3 DEF LostIsGone, SomethingReceived
<1>9. Framed'
  <2>1. /\ h \in 0 .. sent /\ tail = wire /\ replies = CallsIn(stream, h)
        /\ buffer \o wire = JoinedIn(stream, h + 1, sent - h)
    BY <1>1, <1>3 DEF Reached
  <2>2. /\ h + 1 \in Nat \ {0} /\ sent - h \in Nat /\ (h + 1) + (sent - h) <= Len(stream)
        /\ (h + 1) + (sent - h) = sent + 1 /\ (sent - h) + 1 = (sent + 1) - h
        /\ h \in 0 .. sent + 1
    BY <1>2, <2>1
  <2>3. JoinedIn(stream, h + 1, (sent - h) + 1) = JoinedIn(stream, h + 1, sent - h) \o bytes
    <3> DEFINE n == sent - h
               f == h + 1
    <3>1. f \in Nat \ {0} /\ n \in Nat /\ f + n <= Len(stream)
      BY <2>2
    <3> HIDE DEF n, f
    <3>2. JoinedIn(stream, f, n + 1) = JoinedIn(stream, f, n) \o BytesIn(stream, f + n)
      BY <1>2, <3>1, JoinedMore
    <3>3. QED
      BY <2>2, <3>2 DEF n, f, bytes
  <2>4. (buffer \o wire) \o bytes = buffer \o (wire \o bytes)
    <3>1. \A x, y, z \in Seq(Byte) : (x \o y) \o z = x \o (y \o z)
      BY ConcatAssociative
    <3>2. QED
      BY <1>2, <1>5, <3>1
  <2>5. buffer' \o wire' = JoinedIn(stream, h + 1, sent' - h)
    BY <1>3, <2>1, <2>2, <2>3, <2>4
  <2>6. wire' \in Seq(Byte)
    BY <1>2, <1>3, <1>5, ConcatProperties
  <2>7. h \in 0 .. sent' /\ replies' = CallsIn(stream, h) /\ stream' = stream
    BY <1>3, <2>1, <2>2
  <2>8. QED
    BY <1>0, <1>7, <2>5, <2>6, <2>7, FramedNext
<1>10. QED
  BY <1>7, <1>8, <1>9 DEF Inv

\* Nothing moves.
LEMMA CloseKeeps ==
  ASSUME Inv, Close
  PROVE  Inv'
<1>0. TypeOK /\ LostIsGone /\ SomethingReceived /\ Framed
  BY DEF Inv
<1>1. PICK h, tail : Reached(h, tail)
  BY <1>0, FramedAt
<1>2. TypeOK' /\ LostIsGone' /\ SomethingReceived'
  BY <1>0 DEF Close, TypeOK, LostIsGone, SomethingReceived
<1>3. /\ stream' = stream /\ h \in 0 .. sent' /\ tail \in Seq(Byte)
      /\ replies' = CallsIn(stream, h)
      /\ buffer' \o tail = JoinedIn(stream, h + 1, sent' - h)
      /\ tail = wire'
  BY <1>1 DEF Close, Reached
<1>4. Framed'
  BY <1>0, <1>2, <1>3, FramedNext
<1>5. QED
  BY <1>2, <1>4 DEF Inv

\* What was under way is what is missing now.
LEMMA ResetKeeps ==
  ASSUME Inv, Reset
  PROVE  Inv'
<1>0. TypeOK /\ LostIsGone /\ SomethingReceived /\ Framed
  BY DEF Inv
<1>1. PICK h, tail : Reached(h, tail)
  BY <1>0, FramedAt
<1>2. TypeOK' /\ LostIsGone' /\ SomethingReceived'
  BY <1>0 DEF Reset, TypeOK, LostIsGone, SomethingReceived
<1>3. /\ stream' = stream /\ h \in 0 .. sent' /\ tail \in Seq(Byte)
      /\ replies' = CallsIn(stream, h)
      /\ buffer' \o tail = JoinedIn(stream, h + 1, sent' - h)
      /\ peer' = "reset"
  BY <1>1 DEF Reset, Reached
<1>4. Framed'
  BY <1>0, <1>2, <1>3, FramedNext
<1>5. QED
  BY <1>2, <1>4 DEF Inv

\* The end of the thread, and its return to recv, move nothing either.
LEMMA StopsKeep ==
  ASSUME Inv, ReceiveNothing \/ Drop \/ Wait
  PROVE  Inv'
<1>0. TypeOK /\ LostIsGone /\ SomethingReceived /\ Framed
  BY DEF Inv
<1>1. PICK h, tail : Reached(h, tail)
  BY <1>0, FramedAt
<1>2. /\ UNCHANGED <<stream, window, sent, peer, wire, buffer, replies>>
      /\ thread' \in {"receiving", "ended"}
      /\ dropped' \in BOOLEAN
  BY <1>0 DEF ReceiveNothing, Drop, Wait, TypeOK
<1>3. TypeOK' /\ LostIsGone' /\ SomethingReceived'
  <2>1. TypeOK'
    BY <1>0, <1>2 DEF TypeOK
  <2>2. LostIsGone' /\ SomethingReceived'
    BY <1>0, <1>2 DEF LostIsGone, SomethingReceived
  <2>3. QED
    BY <2>1, <2>2
<1>4. /\ stream' = stream /\ h \in 0 .. sent' /\ tail \in Seq(Byte)
      /\ replies' = CallsIn(stream, h)
      /\ buffer' \o tail = JoinedIn(stream, h + 1, sent' - h)
      /\ peer' # "reset" => tail = wire'
  BY <1>1, <1>2 DEF Reached
<1>5. Framed'
  BY <1>0, <1>2, <1>3, <1>4, FramedNext
<1>6. QED
  BY <1>3, <1>5 DEF Inv

\* The front of what is under way goes to the end of the buffer.
LEMMA ReceiveKeeps ==
  ASSUME Inv, NEW n \in 1 .. Segment, Receive(n)
  PROVE  Inv'
<1>0. TypeOK /\ LostIsGone /\ SomethingReceived /\ Framed
  BY DEF Inv
<1>1. PICK h, tail : Reached(h, tail)
  BY <1>0, FramedAt
<1>2. wire \in Seq(Byte) /\ buffer \in Seq(Byte)
  BY <1>0, BytesReceived
<1> DEFINE got == SubSeq(wire, 1, n)
           left == SubSeq(wire, n + 1, Len(wire))
<1>3. /\ buffer' = buffer \o got /\ wire' = left /\ thread' = "callback"
      /\ UNCHANGED <<stream, window, sent, peer, dropped, replies>>
      /\ n <= Len(wire)
  BY DEF Receive
<1>4. n \in 0 .. Len(wire) /\ n > 0
  <2>1. n \in Nat /\ n > 0
    BY WindowAssumption
  <2>2. QED
    BY <1>2, <1>3, <2>1
<1>5. /\ got \in Seq((1 .. sent) \X Nat) /\ left \in Seq((1 .. sent) \X Nat)
      /\ got \in Seq(Byte) /\ left \in Seq(Byte)
      /\ Len(got) = n /\ got \o left = wire
  <2> DEFINE Sent == (1 .. sent) \X Nat
  <2>1. wire \in Seq(Sent)
    BY <1>0 DEF TypeOK
  <2> HIDE DEF Sent
  <2>2. got \in Seq(Sent) /\ left \in Seq(Sent)
    BY <1>4, <2>1, FrontAndRest
  <2>3. got \in Seq(Byte) /\ left \in Seq(Byte) /\ Len(got) = n /\ got \o left = wire
    BY <1>2, <1>4, FrontAndRest
  <2>4. QED
    BY <2>2, <2>3 DEF Sent
<1> HIDE DEF got, left
<1>6. TypeOK'
  <2>1. buffer \o got \in Seq((1 .. sent) \X Nat)
    BY <1>0, <1>5, ConcatProperties DEF TypeOK
  <2>2. QED
    BY <1>0, <1>3, <1>5, <2>1 DEF TypeOK
<1>7. LostIsGone'
  <2>1. peer # "reset"
    BY <1>0, <1>2, <1>4 DEF LostIsGone
  <2>2. QED
    BY <1>3, <2>1 DEF LostIsGone
<1>8. SomethingReceived'
  <2>1. Len(buffer \o got) = Len(buffer) + n
    BY <1>2, <1>5, ConcatProperties
  <2>2. Len(buffer) \in Nat
    BY <1>2
  <2>3. buffer \o got # <<>>
    BY <1>4, <2>1, <2>2
  <2>4. QED
    BY <1>3, <2>3 DEF SomethingReceived
<1>9. Framed'
  <2>1. peer # "reset"
    BY <1>0, <1>2, <1>4 DEF LostIsGone
  <2>2. /\ h \in 0 .. sent /\ replies = CallsIn(stream, h)
        /\ buffer \o wire = JoinedIn(stream, h + 1, sent - h)
    BY <1>1, <2>1 DEF Reached
  <2>3. (buffer \o got) \o left = buffer \o (got \o left)
    <3>1. \A x, y, z \in Seq(Byte) : (x \o y) \o z = x \o (y \o z)
      BY ConcatAssociative
    <3>2. QED
      BY <1>2, <1>5, <3>1
  <2>4. /\ stream' = stream /\ h \in 0 .. sent' /\ left \in Seq(Byte)
        /\ replies' = CallsIn(stream, h) /\ left = wire'
        /\ buffer' \o left = JoinedIn(stream, h + 1, sent' - h)
    BY <1>3, <1>5, <2>2, <2>3
  <2>5. QED
    BY <1>0, <1>6, <2>4, FramedNext
<1>10. QED
  BY <1>6, <1>7, <1>8, <1>9 DEF Inv

\* A sequence that begins with a non-empty one begins with its first element.
LEMMA FirstOfJoin ==
  ASSUME NEW S, NEW x \in Seq(S), NEW y \in Seq(S), x # <<>>
  PROVE  (x \o y)[1] = x[1]
<1>1. Len(x) \in Nat /\ Len(x) > 0 /\ Len(y) \in Nat
  BY EmptySeq
<1>2. \A i \in 1 .. Len(x) + Len(y) : (x \o y)[i] = IF i <= Len(x) THEN x[i] ELSE y[i - Len(x)]
  BY ConcatProperties
<1>3. 1 \in 1 .. Len(x) + Len(y) /\ 1 <= Len(x)
  BY <1>1
<1>4. QED
  BY <1>2, <1>3

\* What the callback looks at is the first record not handled yet: all of it that
\* has come is in front of the buffer.
LEMMA FirstInBuffer ==
  ASSUME TypeOK, buffer # <<>>, NEW h, NEW tail, Reached(h, tail)
  PROVE  /\ h + 1 \in 1 .. sent
         /\ Head(buffer)[1] = h + 1
         /\ Head1 = stream[h + 1]
         /\ BytesIn(stream, h + 1) \in Seq(Byte)
         /\ Len(BytesIn(stream, h + 1)) = HeaderSize + stream[h + 1].body
         /\ JoinedIn(stream, h + 2, sent - (h + 1)) \in Seq(Byte)
         /\ buffer \o tail = BytesIn(stream, h + 1) \o JoinedIn(stream, h + 2, sent - (h + 1))
<1>0. /\ buffer \in Seq(Byte) /\ sent \in Nat /\ sent <= Len(stream) /\ Len(stream) \in Nat
      /\ stream \in Seq(Record)
  BY BytesReceived
<1>1. /\ h \in 0 .. sent /\ tail \in Seq(Byte)
      /\ buffer \o tail = JoinedIn(stream, h + 1, sent - h)
  BY DEF Reached
<1>2. h # sent
  <2> SUFFICES ASSUME h = sent PROVE FALSE
    OBVIOUS
  <2>1. buffer \o tail = <<>>
    BY <1>0, <1>1, NothingJoined
  <2>2. Len(buffer \o tail) = Len(buffer) + Len(tail)
    BY <1>0, <1>1, ConcatProperties
  <2>3. Len(buffer) \in Nat /\ Len(tail) \in Nat /\ Len(buffer) # 0
    BY <1>0, <1>1
  <2>4. Len(buffer \o tail) # 0
    BY <2>2, <2>3
  <2>5. QED
    BY <2>1, <2>4
<1> DEFINE n == sent - (h + 1)
           f == h + 1
<1>3. /\ f \in Nat \ {0} /\ n \in Nat /\ f + n <= Len(stream) /\ sent - h = n + 1
      /\ f + 1 = h + 2 /\ f + 1 \in Nat \ {0} /\ (f + 1) + n - 1 <= Len(stream)
      /\ f \in 1 .. sent /\ f \in 1 .. Len(stream)
  BY <1>0, <1>1, <1>2
<1> HIDE DEF n, f
<1>4. /\ BytesIn(stream, f) \in Seq(Byte)
      /\ Len(BytesIn(stream, f)) = HeaderSize + stream[f].body
      /\ Len(BytesIn(stream, f)) > 0
      /\ BytesIn(stream, f)[1] = <<f, 1>>
  BY <1>0, <1>3, BytesType
<1>5. JoinedIn(stream, f + 1, n) \in Seq(Byte)
  BY <1>0, <1>3, JoinedType
<1>6. JoinedIn(stream, f, n + 1) = BytesIn(stream, f) \o JoinedIn(stream, f + 1, n)
  BY <1>0, <1>3, JoinedFirst
<1> DEFINE x == BytesIn(stream, f)
           r == JoinedIn(stream, f + 1, n)
<1>7. buffer \o tail = x \o r
  BY <1>1, <1>3, <1>6 DEF f
<1>8. Head(buffer) = <<f, 1>>
  <2>1. x # <<>>
    BY <1>4
  <2>2. x \in Seq(Byte) /\ r \in Seq(Byte) /\ x[1] = <<f, 1>>
    BY <1>4, <1>5
  <2> HIDE DEF x, r
  <2>3. (x \o r)[1] = x[1] /\ (buffer \o tail)[1] = buffer[1]
    BY <1>0, <1>1, <2>1, <2>2, FirstOfJoin
  <2>4. Head(buffer) = buffer[1]
    BY <1>0
  <2>5. QED
    BY <1>7, <2>2, <2>3, <2>4
<1>9. Head(buffer)[1] = f /\ Head1 = stream[f]
  BY <1>8 DEF Head1
<1>10. QED
  BY <1>3, <1>4, <1>5, <1>7, <1>9 DEF f, n

\* The record handled leaves the buffer, and its answer, if it is a call, is the next.
LEMMA HandleKeeps ==
  ASSUME Inv, Handle
  PROVE  Inv'
<1>0. TypeOK /\ LostIsGone /\ SomethingReceived /\ Framed
  BY DEF Inv
<1>1. PICK h, tail : Reached(h, tail)
  BY <1>0, FramedAt
<1>2. /\ wire \in Seq(Byte) /\ buffer \in Seq(Byte)
      /\ sent \in Nat /\ stream \in Seq(Record)
  BY <1>0, BytesReceived
<1>3. buffer # <<>>
  BY <1>0 DEF Handle, SomethingReceived
<1> DEFINE f == h + 1
           x == BytesIn(stream, f)
           r == JoinedIn(stream, h + 2, sent - f)
<1>4. /\ f \in 1 .. sent /\ Head(buffer)[1] = f /\ Head1 = stream[f]
      /\ x \in Seq(Byte) /\ Len(x) = HeaderSize + stream[f].body
      /\ r \in Seq(Byte) /\ buffer \o tail = x \o r
  BY <1>0, <1>1, <1>3, FirstInBuffer
<1>5. h \in 0 .. sent /\ tail \in Seq(Byte) /\ replies = CallsIn(stream, h)
      /\ (peer # "reset" => tail = wire)
  BY <1>1 DEF Reached
<1>6. f \in Nat /\ h \in Nat /\ f \in 0 .. sent /\ f + 1 = h + 2 /\ Len(x) <= Len(buffer)
  BY <1>2, <1>4, <1>5 DEF Handle, Complete
<1>7. /\ buffer' = SubSeq(buffer, Len(x) + 1, Len(buffer))
      /\ replies' = IF stream[f].kind = "call" THEN Append(replies, f) ELSE replies
      /\ thread' = "receiving"
      /\ UNCHANGED <<stream, window, sent, peer, wire, dropped>>
  BY <1>4 DEF Handle, Rest
<1>8. CallsIn(stream, f) = IF stream[f].kind = "call" THEN Append(CallsIn(stream, h), f)
                           ELSE CallsIn(stream, h)
  <2>1. h \in Nat
    BY <1>6
  <2>2. QED
    BY <2>1, OneMoreCall
<1> HIDE DEF x, r, f
<1>9. buffer' \o tail = r
  BY <1>2, <1>4, <1>5, <1>6, <1>7, WithoutFront
<1>10. replies' = CallsIn(stream, f)
  BY <1>5, <1>7, <1>8
<1>11. TypeOK'
  <2> DEFINE Sent == (1 .. sent) \X Nat
  <2>1. buffer \in Seq(Sent)
    BY <1>0 DEF TypeOK
  <2>2. Len(x) \in 0 .. Len(buffer)
    BY <1>2, <1>4, <1>6
  <2> HIDE DEF Sent
  <2>3. buffer' \in Seq(Sent)
    BY <1>7, <2>1, <2>2, FrontAndRest
  <2>4. replies' \in Seq(1 .. sent)
    <3> DEFINE A == 1 .. sent
    <3>1. replies \in Seq(A) /\ f \in A
      BY <1>0, <1>4 DEF TypeOK
    <3> HIDE DEF A
    <3>2. Append(replies, f) \in Seq(A)
      BY <3>1
    <3>3. replies' = Append(replies, f) \/ replies' = replies
      BY <1>7
    <3>4. QED
      BY <3>1, <3>2, <3>3 DEF A
  <2>5. QED
    BY <1>0, <1>7, <2>3, <2>4 DEF TypeOK, Sent
<1>12. LostIsGone' /\ SomethingReceived'
  BY <1>0, <1>7 DEF LostIsGone, SomethingReceived
<1>13. Framed'
  <2>1. buffer' \o tail = JoinedIn(stream, f + 1, sent' - f)
    BY <1>6, <1>7, <1>9 DEF r
  <2>2. f \in 0 .. sent' /\ stream' = stream /\ (peer' # "reset" => tail = wire')
    BY <1>5, <1>6, <1>7
  <2>3. QED
    BY <1>0, <1>5, <1>10, <1>11, <2>1, <2>2, FramedNext
<1>14. QED
  BY <1>11, <1>12, <1>13 DEF Inv

-----------------------------------------------------------------------------
(* The theorems. *)

\* Nothing sent, nothing received, nothing handled.
LEMMA InitKeeps ==
  ASSUME Init
  PROVE  Inv
<1>1. stream \in Seq(Record)
  BY StreamAssumption DEF Init
<1>2. TypeOK /\ LostIsGone /\ SomethingReceived
  <2>1. 0 \in 0 .. Len(stream)
    BY <1>1
  <2>2. \A S : <<>> \in Seq(S)
    OBVIOUS
  <2>3. TypeOK
    BY <1>1, <2>1, <2>2 DEF Init, TypeOK
  <2>4. LostIsGone /\ SomethingReceived
    BY DEF Init, LostIsGone, SomethingReceived
  <2>5. QED
    BY <2>3, <2>4
<1>3. Framed
  <2>1. BytesOf(1, 0) = <<>>
    <3>1. 1 \in Nat \ {0} /\ 0 \in Nat /\ 1 <= 0 + 1 /\ 0 <= Len(stream) /\ 0 - 1 + 1 = 0
      BY <1>1
    <3>2. BytesOf(1, 0) = JoinedIn(stream, 1, 0 - 1 + 1)
      BY <1>1, <3>1, BytesOfIn
    <3>3. QED
      BY <3>1, <3>2, NothingJoined
  <2>2. CallsAmong(0) = <<>>
    BY CallsAmongIn, NoCalls
  <2>3. 0 \in 0 .. sent /\ 0 + 1 = 1 /\ sent = 0 /\ peer # "reset" /\ replies = <<>>
        /\ buffer = <<>> /\ wire = <<>> /\ buffer \o wire = <<>>
    BY DEF Init
  <2>4. QED
    BY <2>1, <2>2, <2>3 DEF Framed
<1>4. QED
  BY <1>2, <1>3 DEF Inv

\* The invariant is kept by every step.
LEMMA NextKeeps ==
  ASSUME Inv, [Next]_vars
  PROVE  Inv'
<1>1. CASE Send
  BY <1>1, SendKeeps
<1>2. CASE Close
  BY <1>2, CloseKeeps
<1>3. CASE Reset
  BY <1>3, ResetKeeps
<1>4. CASE \E n \in 1 .. Segment : Receive(n)
  BY <1>4, ReceiveKeeps
<1>5. CASE ReceiveNothing \/ Drop \/ Wait
  BY <1>5, StopsKeep
<1>6. CASE Handle
  BY <1>6, HandleKeeps
<1>7. CASE UNCHANGED vars
  <2>0. TypeOK /\ LostIsGone /\ SomethingReceived /\ Framed
    BY DEF Inv
  <2>1. PICK h, tail : Reached(h, tail)
    BY <2>0, FramedAt
  <2>2. TypeOK'
    BY <1>7, <2>0 DEF TypeOK, vars
  <2>3. LostIsGone' /\ SomethingReceived'
    BY <1>7, <2>0 DEF LostIsGone, SomethingReceived, vars
  <2>4. /\ stream' = stream /\ h \in 0 .. sent' /\ tail \in Seq(Byte)
        /\ replies' = CallsIn(stream, h)
        /\ buffer' \o tail = JoinedIn(stream, h + 1, sent' - h)
        /\ peer' # "reset" => tail = wire'
    BY <1>7, <2>1 DEF Reached, vars
  <2>5. Framed'
    BY <2>0, <2>2, <2>4, FramedNext
  <2>6. QED
    BY <2>2, <2>3, <2>5 DEF Inv
<1>8. QED
  BY <1>1, <1>2, <1>3, <1>4, <1>5, <1>6, <1>7 DEF Next, Peer, Session

\* However a stream is cut and joined on its way, the receive loop (rpc_server.cpp:
\* 123-144) finds the records in it: its buffer begins where a record begins, and the
\* calls before it were answered once and in their order.
THEOREM AlwaysFramed == Spec => []Framed
<1>1. Init => Inv
  BY InitKeeps
<1>2. Inv /\ [Next]_vars => Inv'
  BY NextKeeps
<1>3. Inv => Framed
  BY DEF Inv
<1>4. QED
  BY <1>1, <1>2, <1>3, PTL DEF Spec

\* The variables of a session have values of their types; no byte and no answer is
\* of a record that was not sent.
THEOREM TypeCorrect == Spec => []TypeOK
<1>1. Init => Inv
  BY InitKeeps
<1>2. Inv /\ [Next]_vars => Inv'
  BY NextKeeps
<1>3. Inv => TypeOK
  BY DEF Inv
<1>4. QED
  BY <1>1, <1>2, <1>3, PTL DEF Spec

-----------------------------------------------------------------------------
(* The registrations as folds. *)

SetStep(c, list, mapping) == set(list, mapping)

Sets == INSTANCE FoldFacts WITH Op <- SetStep

TableStep(c, map, entry) == SetAt(map, entry[1], entry[2], NoEntry)

Tables == INSTANCE FoldFacts WITH Op <- TableStep

-----------------------------------------------------------------------------
(* The registrations. *)

\* A program, version and protocol has one place in the list.
Once(list) == \A i, j \in 1 .. Len(list) : KeyOf(list[i]) = KeyOf(list[j]) => i = j

\* find gives a place with the key, if there is one.
LEMMA Found ==
  ASSUME NEW list \in Seq(Registration), NEW mapping
  PROVE  /\ find(list, mapping) \in 0 .. Len(list)
         /\ find(list, mapping) = 0 => \A i \in 1 .. Len(list) : KeyOf(list[i]) # KeyOf(mapping)
         /\ find(list, mapping) # 0 => KeyOf(list[find(list, mapping)]) = KeyOf(mapping)
<1> DEFINE I == {i \in 1 .. Len(list) : KeyOf(list[i]) = KeyOf(mapping)}
<1>1. find(list, mapping) = IF I # {} THEN Min(I) ELSE 0
  BY DEF find, SelectInSeq
<1>2. Len(list) \in Nat /\ I \in SUBSET Nat /\ I \subseteq 1 .. Len(list)
  OBVIOUS
<1>3. I # {} => Min(I) \in I
  <2>1. Min(I) = Sets!Min(I)
    BY DEF Min, Sets!Min
  <2> HIDE DEF I
  <2>2. QED
    BY <1>2, <2>1, Sets!MinNumber
<1>4. CASE I = {}
  <2>1. find(list, mapping) = 0 /\ \A i \in 1 .. Len(list) : KeyOf(list[i]) # KeyOf(mapping)
    BY <1>1, <1>4
  <2>2. QED
    BY <1>2, <2>1
<1>5. CASE I # {}
  <2> DEFINE p == find(list, mapping)
  <2>1. p \in I
    BY <1>1, <1>3, <1>5
  <2>2. p \in 1 .. Len(list) /\ KeyOf(list[p]) = KeyOf(mapping)
    BY <2>1
  <2> HIDE DEF p
  <2>3. p \in 0 .. Len(list) /\ p # 0
    BY <1>2, <2>2
  <2>4. QED
    BY <2>2, <2>3 DEF p
<1>6. QED
  BY <1>4, <1>5

\* The registration with a given key is found.
LEMMA FoundAt ==
  ASSUME NEW list \in Seq(Registration), Once(list), NEW i \in 1 .. Len(list),
         NEW mapping, KeyOf(mapping) = KeyOf(list[i])
  PROVE  find(list, mapping) = i
<1> DEFINE p == find(list, mapping)
<1>1. /\ p \in 0 .. Len(list)
      /\ p = 0 => \A j \in 1 .. Len(list) : KeyOf(list[j]) # KeyOf(mapping)
      /\ p # 0 => KeyOf(list[p]) = KeyOf(mapping)
  BY Found
<1> HIDE DEF p
<1>2. p # 0
  BY <1>1
<1>3. p \in 1 .. Len(list)
  BY <1>1, <1>2
<1>4. QED
  BY <1>1, <1>2, <1>3 DEF Once, p

\* The port of each key of a list.
KeysIn(list) == {KeyOf(list[i]) : i \in 1 .. Len(list)}
Asked(k) == [program |-> k[1], version |-> k[2], protocol |-> k[3]]
Ports(list) == [k \in KeysIn(list) |-> list[find(list, Asked(k))].port]

\* It is the port of the registration with that key.
LEMMA PortOf ==
  ASSUME NEW list \in Seq(Registration), Once(list), NEW i \in 1 .. Len(list)
  PROVE  KeyOf(list[i]) \in KeysIn(list) /\ Ports(list)[KeyOf(list[i])] = list[i].port
<1> DEFINE k == KeyOf(list[i])
<1>1. k \in KeysIn(list)
  BY DEF KeysIn
<1>2. KeyOf(Asked(k)) = k
  BY DEF KeyOf, Asked
<1>3. find(list, Asked(k)) = i
  BY <1>2, FoundAt
<1> HIDE DEF k
<1>4. QED
  BY <1>1, <1>3 DEF Ports, k

\* g gives the ports of the keys D of the list, and of no others.
PortsAre(list, D, g) ==
  /\ \A i \in 1 .. Len(list) : KeyOf(list[i]) \in D /\ g[KeyOf(list[i])] = list[i].port
  /\ \A k \in D : \E i \in 1 .. Len(list) : k = KeyOf(list[i])

LEMMA SamePorts ==
  ASSUME NEW list \in Seq(Registration), Once(list), NEW D, NEW g, PortsAre(list, D, g)
  PROVE  KeysIn(list) = D /\ Ports(list) = [k \in D |-> g[k]]
<1>1. KeysIn(list) = D
  BY DEF KeysIn, PortsAre
<1>2. ASSUME NEW k \in D PROVE Ports(list)[k] = g[k]
  <2>1. PICK i \in 1 .. Len(list) : k = KeyOf(list[i])
    BY DEF PortsAre
  <2>2. QED
    BY <2>1, PortOf DEF PortsAre
<1>3. Ports(list) = [k \in D |-> Ports(list)[k]]
  BY <1>1 DEF Ports
<1> HIDE DEF Ports
<1>4. QED
  BY <1>1, <1>2, <1>3

\* A new key at the end.
LEMMA PortsAdded ==
  ASSUME NEW list \in Seq(Registration), Once(list), NEW m \in Registration, find(list, m) = 0
  PROVE  /\ Once(Append(list, m))
         /\ KeyOf(m) \notin KeysIn(list)
         /\ Ports(Append(list, m)) =
              [j \in KeysIn(list) \cup {KeyOf(m)} |-> IF j = KeyOf(m) THEN m.port ELSE Ports(list)[j]]
<1> DEFINE longer == Append(list, m)
           n == Len(list)
           k == KeyOf(m)
<1>1. /\ longer \in Seq(Registration) /\ n \in Nat /\ Len(longer) = n + 1
      /\ longer[n + 1] = m
      /\ \A i \in 1 .. n : longer[i] = list[i]
  OBVIOUS
<1>2. \A i \in 1 .. n : KeyOf(list[i]) # k
  BY Found
<1>3. \A i \in 1 .. n + 1 : i \in 1 .. n \/ i = n + 1
  BY <1>1
<1>4. n + 1 \in 1 .. n + 1 /\ 1 .. n \subseteq 1 .. n + 1
  BY <1>1
<1> HIDE DEF longer, k, n
<1>5. Once(longer)
  <2> SUFFICES ASSUME NEW i \in 1 .. n + 1, NEW j \in 1 .. n + 1, KeyOf(longer[i]) = KeyOf(longer[j])
               PROVE  i = j
    BY <1>1 DEF Once
  <2>1. CASE i \in 1 .. n /\ j \in 1 .. n
    BY <1>1, <2>1 DEF Once, n
  <2>2. CASE i = n + 1 /\ j \in 1 .. n
    BY <1>1, <1>2, <2>2 DEF k
  <2>3. CASE i \in 1 .. n /\ j = n + 1
    BY <1>1, <1>2, <2>3 DEF k
  <2>4. QED
    BY <1>3, <2>1, <2>2, <2>3
<1>6. k \notin KeysIn(list)
  BY <1>2 DEF KeysIn, n
<1> DEFINE D == KeysIn(list) \cup {k}
           g == [j \in D |-> IF j = k THEN m.port ELSE Ports(list)[j]]
<1>7. ASSUME NEW i \in 1 .. n + 1 PROVE KeyOf(longer[i]) \in D /\ g[KeyOf(longer[i])] = longer[i].port
  <2>1. CASE i = n + 1
    BY <1>1, <2>1 DEF k
  <2>2. CASE i \in 1 .. n
    <3>1. KeyOf(list[i]) \in KeysIn(list) /\ Ports(list)[KeyOf(list[i])] = list[i].port
      BY <2>2, PortOf DEF n
    <3>2. QED
      BY <1>1, <1>2, <2>2, <3>1
  <2>3. QED
    BY <1>3, <2>1, <2>2
<1>8. ASSUME NEW j \in D PROVE \E i \in 1 .. n + 1 : j = KeyOf(longer[i])
  <2>1. CASE j = k
    BY <1>1, <1>4, <2>1 DEF k
  <2>2. CASE j \in KeysIn(list)
    BY <1>1, <1>4, <2>2 DEF KeysIn, n
  <2>3. QED
    BY <2>1, <2>2
<1>9. g = [j \in D |-> g[j]]
  OBVIOUS
<1> HIDE DEF D, g
<1>10. Ports(longer) = g
  <2>1. longer \in Seq(Registration) /\ Len(longer) = n + 1
    BY <1>1
  <2>2. PortsAre(longer, D, g)
    BY <1>7, <1>8, <2>1 DEF PortsAre
  <2>3. Ports(longer) = [j \in D |-> g[j]]
    BY <1>5, <2>1, <2>2, SamePorts
  <2>4. QED
    BY <1>9, <2>3
<1>11. QED
  BY <1>5, <1>6, <1>10 DEF longer, k, D, g

\* What is left when one element is taken out.
LEMMA Removed ==
  ASSUME NEW S, NEW list \in Seq(S), NEW p \in 1 .. Len(list)
  PROVE  /\ RemoveAt(list, p) \in Seq(S)
         /\ Len(RemoveAt(list, p)) = Len(list) - 1
         /\ \A i \in 1 .. Len(list) - 1 : RemoveAt(list, p)[i] = list[IF i < p THEN i ELSE i + 1]
<1> DEFINE n == Len(list)
           a == SubSeq(list, 1, p - 1)
           b == SubSeq(list, p + 1, n)
<1>0. n \in Nat /\ p \in Nat /\ 1 <= p /\ p <= n
  OBVIOUS
<1>1. a \in Seq(S) /\ Len(a) = p - 1 /\ \A i \in 1 .. p - 1 : a[i] = list[i]
  OBVIOUS
<1>2. b \in Seq(S) /\ Len(b) = n - p /\ \A i \in 1 .. n - p : b[i] = list[p + i]
  OBVIOUS
<1>3. RemoveAt(list, p) = a \o b
  BY DEF RemoveAt
<1> HIDE DEF a, b, n
<1>4. /\ a \o b \in Seq(S) /\ Len(a \o b) = (p - 1) + (n - p)
      /\ \A i \in 1 .. (p - 1) + (n - p) : (a \o b)[i] = IF i <= p - 1 THEN a[i] ELSE b[i - (p - 1)]
  <2>1. /\ a \o b \in Seq(S) /\ Len(a \o b) = Len(a) + Len(b)
        /\ \A i \in 1 .. Len(a) + Len(b) : (a \o b)[i] = IF i <= Len(a) THEN a[i] ELSE b[i - Len(a)]
    BY <1>1, <1>2, ConcatProperties
  <2>2. QED
    BY <1>1, <1>2, <2>1
<1>5. (p - 1) + (n - p) = n - 1
  BY <1>0
<1>6. ASSUME NEW i \in 1 .. n - 1 PROVE (a \o b)[i] = list[IF i < p THEN i ELSE i + 1]
  <2>1. CASE i < p
    BY <1>0, <1>1, <1>4, <1>5, <2>1
  <2>2. CASE ~(i < p)
    <3>1. i - (p - 1) \in 1 .. n - p /\ p + (i - (p - 1)) = i + 1 /\ ~(i <= p - 1)
      BY <1>0, <2>2
    <3>2. QED
      BY <1>2, <1>4, <1>5, <2>2, <3>1
  <2>3. QED
    BY <2>1, <2>2
<1>7. QED
  BY <1>3, <1>4, <1>5, <1>6 DEF n

\* A key less.
LEMMA PortsRemoved ==
  ASSUME NEW list \in Seq(Registration), Once(list), NEW p \in 1 .. Len(list)
  PROVE  /\ RemoveAt(list, p) \in Seq(Registration)
         /\ Once(RemoveAt(list, p))
         /\ Ports(RemoveAt(list, p)) = [j \in KeysIn(list) \ {KeyOf(list[p])} |-> Ports(list)[j]]
<1> DEFINE n == Len(list)
           less == RemoveAt(list, p)
           Old(i) == IF i < p THEN i ELSE i + 1
           k == KeyOf(list[p])
<1>1. n \in Nat /\ p \in Nat /\ 1 <= p /\ p <= n
  OBVIOUS
<1>2. /\ less \in Seq(Registration) /\ Len(less) = n - 1
      /\ \A i \in 1 .. n - 1 : less[i] = list[Old(i)]
  BY Removed
<1>3. \A i \in 1 .. n - 1 : Old(i) \in 1 .. n /\ Old(i) # p
  BY <1>1
<1>4. \A i, j \in 1 .. n - 1 : Old(i) = Old(j) => i = j
  BY <1>1
<1>5. \A i \in 1 .. n : i # p => \E j \in 1 .. n - 1 : Old(j) = i
  <2> SUFFICES ASSUME NEW i \in 1 .. n, i # p PROVE \E j \in 1 .. n - 1 : Old(j) = i
    OBVIOUS
  <2>1. CASE i < p
    <3>1. i \in 1 .. n - 1 /\ Old(i) = i
      BY <1>1, <2>1
    <3>2. QED
      BY <3>1
  <2>2. CASE p < i
    <3>1. i - 1 \in 1 .. n - 1 /\ Old(i - 1) = i
      BY <1>1, <2>2
    <3>2. QED
      BY <3>1
  <2>3. QED
    BY <1>1, <2>1, <2>2
<1> HIDE DEF n, less, Old, k
<1>6. Once(less)
  <2> SUFFICES ASSUME NEW i \in 1 .. Len(less), NEW j \in 1 .. Len(less),
                      KeyOf(less[i]) = KeyOf(less[j])
               PROVE  i = j
    BY DEF Once
  <2>1. i \in 1 .. n - 1 /\ j \in 1 .. n - 1
    BY <1>2
  <2>2. /\ less[i] = list[Old(i)] /\ less[j] = list[Old(j)]
        /\ Old(i) \in 1 .. Len(list) /\ Old(j) \in 1 .. Len(list)
    BY <1>2, <1>3, <2>1 DEF n
  <2>3. KeyOf(list[Old(i)]) = KeyOf(list[Old(j)])
    BY <2>2
  <2>4. Old(i) = Old(j)
    BY <2>2, <2>3 DEF Once
  <2>5. QED
    BY <1>4, <2>1, <2>4
<1> DEFINE D == KeysIn(list) \ {k}
           g == [j \in D |-> Ports(list)[j]]
<1>7. ASSUME NEW i \in 1 .. n - 1 PROVE KeyOf(less[i]) \in D /\ g[KeyOf(less[i])] = less[i].port
  <2>1. Old(i) \in 1 .. n /\ less[i] = list[Old(i)] /\ Old(i) # p
    BY <1>2, <1>3
  <2>2. /\ KeyOf(list[Old(i)]) \in KeysIn(list)
        /\ Ports(list)[KeyOf(list[Old(i)])] = list[Old(i)].port
    BY <2>1, PortOf DEF n
  <2>3. KeyOf(list[Old(i)]) # k
    BY <2>1 DEF Once, n, k
  <2>4. QED
    BY <2>1, <2>2, <2>3
<1>8. ASSUME NEW j \in D PROVE \E i \in 1 .. n - 1 : j = KeyOf(less[i])
  <2>1. PICK i \in 1 .. n : j = KeyOf(list[i])
    BY DEF KeysIn, n
  <2>2. i # p
    BY <2>1 DEF k
  <2>3. PICK o \in 1 .. n - 1 : Old(o) = i
    BY <1>5, <2>2
  <2>4. QED
    BY <1>2, <2>1, <2>3
<1>9. g = [j \in D |-> g[j]]
  OBVIOUS
<1> HIDE DEF D, g
<1>10. Ports(less) = g
  <2>1. less \in Seq(Registration) /\ Len(less) = n - 1
    BY <1>2
  <2>2. PortsAre(less, D, g)
    BY <1>7, <1>8, <2>1 DEF PortsAre
  <2>3. Ports(less) = [j \in D |-> g[j]]
    BY <1>6, <2>1, <2>2, SamePorts
  <2>4. QED
    BY <1>9, <2>3
<1>11. QED
  BY <1>2, <1>6, <1>10 DEF less, k, D, g

\* The registrations of the program itself.
OwnOf(program, protocol, port) ==
  [program |-> program, version |-> 3, protocol |-> protocol, port |-> port]

OwnList == Own(MOUNT, 1058) \o Own(NFS, 2049)

LEMMA OwnListIs ==
  /\ OwnList \in Seq(Registration) /\ Len(OwnList) = 4
  /\ OwnList[1] = OwnOf(MOUNT, TCP, 1058) /\ OwnList[2] = OwnOf(MOUNT, UDP, 1058)
  /\ OwnList[3] = OwnOf(NFS, TCP, 2049) /\ OwnList[4] = OwnOf(NFS, UDP, 2049)
  /\ Once(OwnList)
<1> DEFINE a == Own(MOUNT, 1058)
           b == Own(NFS, 2049)
<1>1. /\ a = <<OwnOf(MOUNT, TCP, 1058), OwnOf(MOUNT, UDP, 1058)>>
      /\ b = <<OwnOf(NFS, TCP, 2049), OwnOf(NFS, UDP, 2049)>>
  BY DEF Own, OwnOf
<1>2. \A program, protocol, port \in Nat : OwnOf(program, protocol, port) \in Registration
  BY DEF OwnOf, Registration
<1>3. MOUNT \in Nat /\ NFS \in Nat /\ TCP \in Nat /\ UDP \in Nat /\ MOUNT # NFS /\ TCP # UDP
  BY DEF MOUNT, NFS, TCP, UDP
<1> HIDE DEF a, b
<1>4. a \in Seq(Registration) /\ Len(a) = 2 /\ b \in Seq(Registration) /\ Len(b) = 2
  <2>1. \A r, s \in Registration : <<r, s>> \in Seq(Registration) /\ Len(<<r, s>>) = 2
    OBVIOUS
  <2>2. QED
    BY <1>1, <1>2, <1>3, <2>1
<1>5. /\ a \o b \in Seq(Registration) /\ Len(a \o b) = 4
      /\ \A i \in 1 .. 4 : (a \o b)[i] = IF i <= 2 THEN a[i] ELSE b[i - 2]
  <2>1. /\ a \o b \in Seq(Registration) /\ Len(a \o b) = Len(a) + Len(b)
        /\ \A i \in 1 .. Len(a) + Len(b) : (a \o b)[i] = IF i <= Len(a) THEN a[i] ELSE b[i - Len(a)]
    BY <1>4, ConcatProperties
  <2>2. QED
    BY <1>4, <2>1
<1>6. OwnList = a \o b
  BY DEF OwnList, a, b
<1>7. /\ OwnList[1] = OwnOf(MOUNT, TCP, 1058) /\ OwnList[2] = OwnOf(MOUNT, UDP, 1058)
      /\ OwnList[3] = OwnOf(NFS, TCP, 2049) /\ OwnList[4] = OwnOf(NFS, UDP, 2049)
  BY <1>1, <1>5, <1>6
<1>8. /\ KeyOf(OwnList[1]) = <<MOUNT, 3, TCP>> /\ KeyOf(OwnList[2]) = <<MOUNT, 3, UDP>>
      /\ KeyOf(OwnList[3]) = <<NFS, 3, TCP>> /\ KeyOf(OwnList[4]) = <<NFS, 3, UDP>>
  BY <1>7 DEF KeyOf, OwnOf
<1>9. Once(OwnList)
  <2> SUFFICES ASSUME NEW i \in 1 .. 4, NEW j \in 1 .. 4, KeyOf(OwnList[i]) = KeyOf(OwnList[j])
               PROVE  i = j
    BY <1>5, <1>6 DEF Once
  <2>1. i \in {1, 2, 3, 4} /\ j \in {1, 2, 3, 4}
    OBVIOUS
  <2> HIDE DEF KeyOf
  <2>2. QED
    BY <1>3, <1>8, <2>1
<1>10. QED
  BY <1>5, <1>6, <1>7, <1>9

\* They are all there at the start: none has the key of another.
LEMMA StartedIs == Started = OwnList
<1> DEFINE c == {}
           base == <<>>
           n == 4
<1>1. OwnList \in Seq(Registration) /\ n \in Nat /\ DOMAIN OwnList = 1 .. n /\ Len(OwnList) = n
  <2>1. OwnList \in Seq(Registration) /\ Len(OwnList) = 4
    BY OwnListIs
  <2>2. QED
    BY <2>1, LenProperties
<1>2. Started = Sets!Fold(c, base, OwnList)
  BY DEF Started, OwnList, SetStep, FoldLeft, MapThenFoldSet, Max,
         Sets!Fold, Sets!FoldLeft, Sets!MapThenFoldSet, Sets!Max
<1> HIDE DEF c, n
<1>3. PICK f : Sets!Steps(f, n, c, base, OwnList) /\ Sets!Fold(c, base, OwnList) = f[n]
  BY <1>1, Sets!FoldSteps
<1> DEFINE Begins(list, i) ==
             list \in Seq(Registration) /\ Len(list) = i /\ \A j \in 1 .. i : list[j] = OwnList[j]
           T == {i \in 0 .. n : Begins(f[i], i)}
<1>4. 0 \in T
  <2>1. f[0] = <<>>
    BY <1>3 DEF Sets!Steps
  <2>2. Begins(f[0], 0)
    BY <2>1
  <2>3. 0 \in 0 .. n
    BY <1>1
  <2>4. QED
    BY <2>2, <2>3
<1>5. \A i \in 0 .. n - 1 : i \in T => i + 1 \in T
  <2> SUFFICES ASSUME NEW i \in 0 .. n - 1, Begins(f[i], i)
               PROVE  Begins(f[i + 1], i + 1)
    BY <1>1
  <2> DEFINE m == OwnList[i + 1]
             list == f[i]
  <2>1. i \in Nat /\ i + 1 \in 1 .. n /\ (i + 1) - 1 = i
    BY <1>1
  <2>2. m \in Registration
    BY <1>1, <2>1
  <2>3. f[i + 1] = set(list, m)
    BY <1>3, <2>1 DEF Sets!Steps, SetStep
  <2>4. list \in Seq(Registration) /\ Len(list) = i /\ \A j \in 1 .. i : list[j] = OwnList[j]
    OBVIOUS
  <2> HIDE DEF list, m
  <2>5. \A j \in 1 .. i : KeyOf(list[j]) # KeyOf(m)
    <3> SUFFICES ASSUME NEW j \in 1 .. i PROVE KeyOf(OwnList[j]) # KeyOf(m)
      BY <2>4
    <3>1. j \in 1 .. n /\ j # i + 1
      BY <1>1, <2>1
    <3>2. QED
      BY <1>1, <2>1, <3>1, OwnListIs DEF Once, m
  <2>6. find(list, m) = 0
    <3>1. /\ find(list, m) \in 0 .. i
          /\ find(list, m) # 0 => KeyOf(list[find(list, m)]) = KeyOf(m)
      BY <2>4, Found
    <3> DEFINE p == find(list, m)
    <3> HIDE DEF p
    <3>2. p \in 0 .. i /\ (p # 0 => KeyOf(list[p]) = KeyOf(m))
      BY <3>1 DEF p
    <3>3. p # 0 => p \in 1 .. i
      BY <2>1, <3>2
    <3>4. p = 0
      BY <2>5, <3>2, <3>3
    <3>5. QED
      BY <3>4 DEF p
  <2>7. f[i + 1] = Append(list, m)
    BY <2>3, <2>6 DEF set
  <2>8. /\ Append(list, m) \in Seq(Registration) /\ Len(Append(list, m)) = i + 1
        /\ Append(list, m)[i + 1] = m
        /\ \A j \in 1 .. i : Append(list, m)[j] = list[j]
    BY <2>1, <2>2, <2>4
  <2>9. \A j \in 1 .. i + 1 : j \in 1 .. i \/ j = i + 1
    BY <2>1
  <2>10. \A j \in 1 .. i + 1 : Append(list, m)[j] = OwnList[j]
    BY <2>4, <2>8, <2>9 DEF m
  <2>11. QED
    BY <2>7, <2>8, <2>10
<1>6. Begins(f[n], n)
  <2>1. n \in 0 .. n
    BY <1>1
  <2> HIDE DEF T
  <2>2. \A i \in 0 .. n : i \in T
    BY <1>1, <1>4, <1>5, Sets!UpTo
  <2>3. n \in T
    BY <2>1, <2>2
  <2>4. QED
    BY <2>3 DEF T
<1>7. f[n] = OwnList
  BY <1>1, <1>6, SeqEqual
<1>8. QED
  BY <1>2, <1>3, <1>7

-----------------------------------------------------------------------------
(* The tables of the router. *)

\* The first element gives the map its offset.
LEMMA FirstElement ==
  ASSUME NEW index \in Nat, NEW data, NEW blank
  PROVE  SetAt(EmptyMap, index, data, blank) = [offset |-> index, store |-> <<data>>]
<1> DEFINE one == Blanks(1, blank)
           none == <<>>
<1>1. EmptyMap.store = none /\ Len(none) = 0 /\ ~(index > index) /\ index + 0 = index
      /\ 1 + index - index = 1 /\ index - index + 1 = 1
  BY DEF EmptyMap
<1>2. one \in Seq({blank}) /\ Len(one) = 1 /\ none \in Seq({blank})
  BY DEF Blanks
<1>3. none \o one = one
  BY <1>2, ConcatEmptySeq
<1>4. [one EXCEPT ![1] = data] = <<data>>
  BY DEF Blanks
<1> HIDE DEF one, none
<1>5. QED
  BY <1>1, <1>3, <1>4 DEF SetAt, one

\* r is s with an element behind it, and blanks in between.
Extended(s, index, data, r) ==
  /\ SetAt([offset |-> 0, store |-> s], index, data, NoEntry) = [offset |-> 0, store |-> r]
  /\ Len(r) = index + 1
  /\ r[index + 1] = data
  /\ \A j \in 1 .. Len(s) : r[j] = s[j]
  /\ \A j \in 1 .. index : j > Len(s) => r[j] = NoEntry

\* An element behind the others is preceded by blanks.
LEMMA ElementBehind ==
  ASSUME NEW E, NoEntry \in E, NEW s \in Seq(E), NEW index \in Nat, NEW data \in E,
         s # <<>>, Len(s) <= index
  PROVE  \E r \in Seq(E) : Extended(s, index, data, r)
<1> DEFINE n == Len(s)
           gap == Blanks(1 + index - n, NoEntry)
           whole == s \o gap
           r == [whole EXCEPT ![index + 1] = data]
<1>1. n \in Nat /\ NoEntry \in E
  OBVIOUS
<1>2. /\ gap \in Seq(E) /\ Len(gap) = 1 + index - n
      /\ \A j \in 1 .. 1 + index - n : gap[j] = NoEntry
  <2>1. 1 + index - n \in Nat
    BY <1>1
  <2>2. QED
    BY <1>1, <2>1 DEF Blanks
<1> HIDE DEF gap
<1>3. /\ whole \in Seq(E) /\ Len(whole) = index + 1
      /\ \A j \in 1 .. index + 1 : whole[j] = IF j <= n THEN s[j] ELSE gap[j - n]
  <2>1. /\ whole \in Seq(E) /\ Len(whole) = n + Len(gap)
        /\ \A j \in 1 .. n + Len(gap) : whole[j] = IF j <= n THEN s[j] ELSE gap[j - n]
    BY <1>2, ConcatProperties
  <2>2. n + Len(gap) = index + 1
    BY <1>1, <1>2
  <2>3. QED
    BY <2>1, <2>2
<1> HIDE DEF whole
<1>4. /\ r \in Seq(E) /\ Len(r) = index + 1
      /\ \A j \in 1 .. index + 1 : r[j] = IF j = index + 1 THEN data ELSE whole[j]
  <2>1. index + 1 \in 1 .. Len(whole)
    BY <1>3
  <2>2. QED
    BY <1>3, <2>1, ExceptSeq
<1>5. SetAt([offset |-> 0, store |-> s], index, data, NoEntry) = [offset |-> 0, store |-> r]
  <2>1. /\ ~(0 > index) /\ 0 + n = n /\ ~(n > index) /\ index - 0 + 1 = index + 1
    BY <1>1
  <2> HIDE DEF n
  <2>2. QED
    BY <2>1 DEF SetAt, whole, gap, n
<1> HIDE DEF r
<1>6. \A j \in 1 .. n : r[j] = s[j]
  BY <1>1, <1>3, <1>4
<1>7. \A j \in 1 .. index : j > n => r[j] = NoEntry
  <2> SUFFICES ASSUME NEW j \in 1 .. index, j > n PROVE r[j] = NoEntry
    OBVIOUS
  <2>1. j \in 1 .. index + 1 /\ j # index + 1 /\ ~(j <= n) /\ j - n \in 1 .. 1 + index - n
    BY <1>1
  <2>2. QED
    BY <1>2, <1>3, <1>4, <2>1
<1>8. r[index + 1] = data
  BY <1>4
<1>9. QED
  BY <1>4, <1>5, <1>6, <1>7, <1>8 DEF Extended

\* The table of the first k procedures: each has its place, the others are blank.
Entries(list) == {NoEntry} \cup {list[i][2] : i \in DOMAIN list}

TableOf(list, k, map) ==
  \E s \in Seq(Entries(list)) :
    /\ map = [offset |-> 0, store |-> s]
    /\ Len(s) = list[k][1] + 1
    /\ \A i \in 1 .. k : list[i][1] < Len(s) /\ s[list[i][1] + 1] = list[i][2]
    /\ \A j \in 1 .. Len(s) : (\E i \in 1 .. k : j = list[i][1] + 1) \/ s[j] = NoEntry

\* A list of procedures with rising numbers, from 0 on.
LEMMA TableIs ==
  ASSUME NEW n \in Nat \ {0}, NEW list, DOMAIN list = 1 .. n,
         \A i \in 1 .. n : list[i][1] \in Nat,
         list[1][1] = 0, \A i \in 1 .. n - 1 : list[i][1] < list[i + 1][1]
  PROVE  TableOf(list, n, Procedures(list))
<1> DEFINE c == {}
           base == EmptyMap
           E == Entries(list)
<1>1. Procedures(list) = Tables!Fold(c, base, list)
  BY DEF Procedures, TableStep, FoldLeft, MapThenFoldSet, Max,
         Tables!Fold, Tables!FoldLeft, Tables!MapThenFoldSet, Tables!Max
<1>0. NoEntry \in E /\ \A i \in 1 .. n : list[i][2] \in E
  BY DEF Entries
<1> HIDE DEF c, base, E
<1>2. PICK f : Tables!Steps(f, n, c, base, list) /\ Tables!Fold(c, base, list) = f[n]
  BY Tables!FoldSteps
<1> DEFINE T == {i \in 0 .. n : i = 0 \/ TableOf(list, i, f[i])}
<1>3. 0 \in T
  OBVIOUS
<1>4. \A k \in 0 .. n - 1 : k \in T => k + 1 \in T
  <2> SUFFICES ASSUME NEW k \in 0 .. n - 1, k = 0 \/ TableOf(list, k, f[k])
               PROVE  TableOf(list, k + 1, f[k + 1])
    OBVIOUS
  <2>1. k \in Nat /\ k + 1 \in 1 .. n /\ (k + 1) - 1 = k /\ (k # 0 => k \in 1 .. n - 1)
    OBVIOUS
  <2> DEFINE index == list[k + 1][1]
             data == list[k + 1][2]
  <2>2. f[k + 1] = SetAt(f[k], index, data, NoEntry)
    BY <1>2, <2>1 DEF Tables!Steps, TableStep
  <2>3. index \in Nat /\ data \in E
    BY <1>0, <2>1
  <2>4. CASE k = 0
    <3>1. f[k] = EmptyMap /\ index = 0
      BY <1>2, <2>4 DEF Tables!Steps, base
    <3> HIDE DEF index, data
    <3>2. f[k + 1] = [offset |-> 0, store |-> <<data>>]
      BY <2>2, <2>3, <3>1, FirstElement
    <3>3. <<data>> \in Seq(E) /\ Len(<<data>>) = 1 /\ <<data>>[1] = data
      BY <2>3
    <3>4. \A i \in 1 .. k + 1 : i = k + 1
      BY <2>4
    <3>5. k + 1 \in 1 .. k + 1
      BY <2>1
    <3> DEFINE s == <<data>>
    <3>6. Len(s) = index + 1 /\ index < Len(s) /\ s[index + 1] = data /\ \A j \in 1 .. Len(s) : j = index + 1
      BY <3>1, <3>3
    <3> HIDE DEF s
    <3>7. \A i \in 1 .. k + 1 : list[i][1] < Len(s) /\ s[list[i][1] + 1] = list[i][2]
      BY <3>4, <3>6 DEF index, data
    <3>8. \A j \in 1 .. Len(s) : \E i \in 1 .. k + 1 : j = list[i][1] + 1
      BY <3>5, <3>6 DEF index
    <3>9. s \in Seq(E) /\ f[k + 1] = [offset |-> 0, store |-> s] /\ Len(s) = list[k + 1][1] + 1
      BY <3>2, <3>3, <3>6 DEF s, index
    <3>10. QED
      BY <3>7, <3>8, <3>9 DEF TableOf, E
  <2>5. CASE k # 0
    <3>1. PICK s \in Seq(E) :
            /\ f[k] = [offset |-> 0, store |-> s]
            /\ Len(s) = list[k][1] + 1
            /\ \A i \in 1 .. k : list[i][1] < Len(s) /\ s[list[i][1] + 1] = list[i][2]
            /\ \A j \in 1 .. Len(s) : (\E i \in 1 .. k : j = list[i][1] + 1) \/ s[j] = NoEntry
      BY <2>5 DEF TableOf, E
    <3>2. s # <<>> /\ Len(s) <= index /\ Len(s) \in Nat
      <4>1. list[k][1] \in Nat /\ list[k][1] < index
        BY <2>1, <2>5
      <4>2. Len(s) # 0 /\ Len(s) <= index
        BY <2>3, <3>1, <4>1
      <4>3. QED
        BY <4>2
    <3> HIDE DEF index, data
    <3>3a. PICK r \in Seq(E) : Extended(s, index, data, r)
      BY <1>0, <2>3, <3>2, ElementBehind
    <3>3. /\ SetAt([offset |-> 0, store |-> s], index, data, NoEntry) = [offset |-> 0, store |-> r]
          /\ Len(r) = index + 1
          /\ r[index + 1] = data
          /\ \A j \in 1 .. Len(s) : r[j] = s[j]
          /\ \A j \in 1 .. index : j > Len(s) => r[j] = NoEntry
      BY <3>3a DEF Extended
    <3>4. \A i \in 1 .. k + 1 : i \in 1 .. k \/ i = k + 1
      BY <2>1
    <3>5. k + 1 \in 1 .. k + 1 /\ 1 .. k \subseteq 1 .. k + 1 /\ 1 .. k \subseteq 1 .. n
      BY <2>1
    <3>6. ASSUME NEW i \in 1 .. k + 1
          PROVE  list[i][1] < Len(r) /\ r[list[i][1] + 1] = list[i][2]
      <4>1. CASE i = k + 1
        BY <2>3, <3>3, <4>1 DEF index, data
      <4>2. CASE i \in 1 .. k
        <5>1. /\ list[i][1] \in Nat /\ list[i][1] < Len(s)
              /\ s[list[i][1] + 1] = list[i][2]
          BY <3>1, <3>5, <4>2
        <5>2. list[i][1] + 1 \in 1 .. Len(s) /\ list[i][1] < index + 1
          BY <2>3, <3>2, <5>1
        <5>3. QED
          BY <3>3, <5>1, <5>2
      <4>3. QED
        BY <3>4, <4>1, <4>2
    <3>7. ASSUME NEW j \in 1 .. Len(r)
          PROVE  (\E i \in 1 .. k + 1 : j = list[i][1] + 1) \/ r[j] = NoEntry
      <4>1. CASE j \in 1 .. Len(s)
        <5>1. (\E i \in 1 .. k : j = list[i][1] + 1) \/ s[j] = NoEntry
          BY <3>1, <4>1
        <5>2. QED
          BY <3>3, <3>5, <4>1, <5>1
      <4>2. CASE j = index + 1
        BY <3>5, <4>2 DEF index
      <4>3. CASE j \in 1 .. index /\ j > Len(s)
        BY <3>3, <4>3
      <4>4. j \in 1 .. Len(s) \/ j = index + 1 \/ (j \in 1 .. index /\ j > Len(s))
        BY <2>3, <3>2, <3>3
      <4>5. QED
        BY <4>1, <4>2, <4>3, <4>4
    <3>8. f[k + 1] = [offset |-> 0, store |-> r] /\ Len(r) = list[k + 1][1] + 1
      BY <2>2, <3>1, <3>3 DEF index
    <3>9. QED
      BY <3>6, <3>7, <3>8 DEF TableOf, E
  <2>6. QED
    BY <2>4, <2>5
<1>5. TableOf(list, n, f[n])
  <2>1. n \in 0 .. n /\ n # 0
    OBVIOUS
  <2> HIDE DEF T
  <2>2. \A i \in 0 .. n : i \in T
    BY <1>3, <1>4, Tables!UpTo
  <2>3. n \in T
    BY <2>1, <2>2
  <2>4. QED
    BY <2>1, <2>3 DEF T
<1>6. QED
  BY <1>1, <1>2, <1>5

\* The procedures of the three programs, as Programs lists them.
PortmapList ==
  <<<<0, Procedure("NULL")>>, <<1, Procedure("SET")>>, <<2, Procedure("UNSET")>>,
    <<3, Procedure("GETPORT")>>>>

MountList ==
  <<<<0, Procedure("NULL")>>, <<1, Procedure("MNT")>>, <<3, Procedure("UMNT")>>,
    <<4, Procedure("UMNTALL")>>>>

NfsList ==
  <<<<0, Procedure("NULL")>>, <<1, Procedure("GETATTR")>>, <<2, Procedure("SETATTR")>>,
    <<3, Procedure("LOOKUP")>>, <<4, Procedure("ACCESS")>>, <<5, Procedure("READLINK")>>,
    <<6, Procedure("READ")>>, <<7, Procedure("WRITE")>>, <<8, Procedure("CREATE")>>,
    <<9, Procedure("MKDIR")>>, <<10, Unsupported("SYMLINK")>>, <<11, Unsupported("MKNOD")>>,
    <<12, Procedure("REMOVE")>>, <<13, Procedure("RMDIR")>>, <<14, Procedure("RENAME")>>,
    <<15, Unsupported("LINK")>>, <<16, Procedure("READDIR")>>, <<17, Procedure("READDIRPLUS")>>,
    <<18, Procedure("FSSTAT")>>, <<19, Procedure("FSINFO")>>, <<20, Procedure("PATHCONF")>>,
    <<21, Procedure("COMMIT")>>>>

Servers == {"portmap", "mount", "nfs"}

ListOf(server) ==
  CASE server = "portmap" -> PortmapList [] server = "mount" -> MountList [] server = "nfs" -> NfsList

TableFor(server) == Procedures(ListOf(server))

\* A server has one program of one version.
OneVersion(program, version, table) ==
  [p \in {program} |-> [offset |-> version, store |-> <<table>>]]

LEMMA OneProgram ==
  ASSUME NEW server \in Servers
  PROVE  Programs[server] =
           OneVersion(Offers[server].program, Offers[server].version, TableFor(server))
<1>1. \A program, table : \A version \in Nat :
        Added(program, version, table) = OneVersion(program, version, table)
  BY FirstElement DEF Added, OneVersion
<1>2. /\ Programs["portmap"] = Added(PORTMAP, 2, Procedures(PortmapList))
      /\ Programs["mount"] = Added(MOUNT, 3, Procedures(MountList))
      /\ Programs["nfs"] = Added(NFS, 3, Procedures(NfsList))
  BY DEF Programs, PortmapList, MountList, NfsList
<1>3. /\ Offers["portmap"].program = PORTMAP /\ Offers["portmap"].version = 2
      /\ Offers["mount"].program = MOUNT /\ Offers["mount"].version = 3
      /\ Offers["nfs"].program = NFS /\ Offers["nfs"].version = 3
  BY DEF Offers
<1>4. /\ TableFor("portmap") = Procedures(PortmapList)
      /\ TableFor("mount") = Procedures(MountList)
      /\ TableFor("nfs") = Procedures(NfsList)
  BY DEF TableFor, ListOf
<1>5. 2 \in Nat /\ 3 \in Nat
  OBVIOUS
<1>6. CASE server = "portmap"
  BY <1>1, <1>2, <1>3, <1>4, <1>5, <1>6
<1>7. CASE server = "mount"
  BY <1>1, <1>2, <1>3, <1>4, <1>5, <1>7
<1>8. CASE server = "nfs"
  BY <1>1, <1>2, <1>3, <1>4, <1>5, <1>8
<1>9. QED
  BY <1>6, <1>7, <1>8 DEF Servers

\* The table has what the server offers, and the names of the procedures modelled here.
Offered(server, table) ==
  \A p \in Nat :
    /\ HasIndex(table, p) /\ At(table, p).callback <=> p \in Offers[server].procedures
    /\ p \in Offers[server].procedures =>
         /\ At(table, p).name = "NULL" <=> p = 0
         /\ At(table, p).name = "SET" <=> server = "portmap" /\ p = 1
         /\ At(table, p).name = "UNSET" <=> server = "portmap" /\ p = 2
         /\ At(table, p).name = "GETPORT" <=> server = "portmap" /\ p = 3
         /\ At(table, p).name = "SETATTR" <=> server = "nfs" /\ p = 2

\* A table knows the numbers up to its last procedure.
LEMMA TableReads ==
  ASSUME NEW list, NEW k \in Nat \ {0}, NEW map, TableOf(list, k, map), list[k][1] \in Nat
  PROVE  /\ \A p \in Nat : HasIndex(map, p) <=> p <= list[k][1]
         /\ \A i \in 1 .. k : list[i][1] \in Nat => At(map, list[i][1]) = list[i][2]
         /\ \A p \in Nat : HasIndex(map, p) =>
              (\E i \in 1 .. k : p + 1 = list[i][1] + 1) \/ At(map, p) = NoEntry
<1>1. PICK s \in Seq(Entries(list)) :
        /\ map = [offset |-> 0, store |-> s]
        /\ Len(s) = list[k][1] + 1
        /\ \A i \in 1 .. k : list[i][1] < Len(s) /\ s[list[i][1] + 1] = list[i][2]
        /\ \A j \in 1 .. Len(s) : (\E i \in 1 .. k : j = list[i][1] + 1) \/ s[j] = NoEntry
  BY DEF TableOf
<1>2. map.offset = 0 /\ map.store = s
  BY <1>1
<1>3. \A p \in Nat : HasIndex(map, p) <=> p <= list[k][1]
  BY <1>1, <1>2 DEF HasIndex, RangeEnd
<1>4. \A p \in Nat : At(map, p) = s[p + 1]
  <2>1. \A p \in Nat : p - 0 + 1 = p + 1
    OBVIOUS
  <2>2. QED
    BY <1>2, <2>1 DEF At
<1>5. ASSUME NEW p \in Nat, HasIndex(map, p)
      PROVE  (\E i \in 1 .. k : p + 1 = list[i][1] + 1) \/ At(map, p) = NoEntry
  <2>1. p + 1 \in 1 .. Len(s)
    BY <1>1, <1>3, <1>5
  <2>2. QED
    BY <1>1, <1>4, <2>1
<1>6. ASSUME NEW i \in 1 .. k, list[i][1] \in Nat PROVE At(map, list[i][1]) = list[i][2]
  BY <1>1, <1>4, <1>6
<1>7. QED
  BY <1>3, <1>5, <1>6

\* A table of procedures without gaps.
LEMMA DenseTable ==
  ASSUME NEW n \in Nat \ {0}, NEW list, DOMAIN list = 1 .. n, \A i \in 1 .. n : list[i][1] = i - 1
  PROVE  /\ \A p \in Nat : HasIndex(Procedures(list), p) <=> p \in 0 .. n - 1
         /\ \A p \in 0 .. n - 1 : At(Procedures(list), p) = list[p + 1][2]
<1>1. /\ \A i \in 1 .. n : list[i][1] \in Nat
      /\ list[1][1] = 0 /\ \A i \in 1 .. n - 1 : list[i][1] < list[i + 1][1]
      /\ list[n][1] = n - 1
  OBVIOUS
<1>2. TableOf(list, n, Procedures(list))
  BY <1>1, TableIs
<1> DEFINE map == Procedures(list)
<1> HIDE DEF map
<1>3. /\ \A p \in Nat : HasIndex(map, p) <=> p <= list[n][1]
      /\ \A i \in 1 .. n : list[i][1] \in Nat => At(map, list[i][1]) = list[i][2]
  <2>1. list[n][1] \in Nat /\ TableOf(list, n, map)
    BY <1>1, <1>2 DEF map
  <2>2. QED
    BY <2>1, TableReads
<1>4. \A p \in Nat : HasIndex(map, p) <=> p \in 0 .. n - 1
  BY <1>1, <1>3
<1>5. ASSUME NEW p \in 0 .. n - 1 PROVE At(map, p) = list[p + 1][2]
  <2>1. p + 1 \in 1 .. n /\ (p + 1) - 1 = p
    OBVIOUS
  <2>2. list[p + 1][1] = p
    BY <2>1
  <2>3. QED
    BY <1>1, <1>3, <2>1, <2>2
<1>6. QED
  BY <1>4, <1>5 DEF map

LEMMA PortmapOffered == Offered("portmap", Procedures(PortmapList))
<1> DEFINE list == PortmapList
           map == Procedures(list)
<1>1. /\ DOMAIN list = 1 .. 4
      /\ \A i \in 1 .. 4 : list[i][1] = i - 1
      /\ list[1][2] = Procedure("NULL") /\ list[2][2] = Procedure("SET")
      /\ list[3][2] = Procedure("UNSET") /\ list[4][2] = Procedure("GETPORT")
  BY DEF PortmapList
<1> HIDE DEF list
<1>2. /\ \A p \in Nat : HasIndex(map, p) <=> p \in 0 .. 3
      /\ \A p \in 0 .. 3 : At(map, p) = list[p + 1][2]
  <2> DEFINE n == 4
  <2>1. n \in Nat \ {0} /\ DOMAIN list = 1 .. n /\ \A i \in 1 .. n : list[i][1] = i - 1
    BY <1>1
  <2>2. n - 1 = 3
    OBVIOUS
  <2> HIDE DEF n, map
  <2>3. /\ \A p \in Nat : HasIndex(map, p) <=> p \in 0 .. n - 1
        /\ \A p \in 0 .. n - 1 : At(map, p) = list[p + 1][2]
    BY <2>1, DenseTable DEF map
  <2>4. QED
    BY <2>2, <2>3
<1> HIDE DEF map
<1>3. Offers["portmap"].procedures = 0 .. 3
  BY DEF Offers
<1>4. \A p \in 0 .. 3 : p = 0 \/ p = 1 \/ p = 2 \/ p = 3
  OBVIOUS
<1>5. ASSUME NEW p \in 0 .. 3
      PROVE  /\ At(map, p).callback = TRUE
             /\ At(map, p).name = "NULL" <=> p = 0
             /\ At(map, p).name = "SET" <=> p = 1
             /\ At(map, p).name = "UNSET" <=> p = 2
             /\ At(map, p).name = "GETPORT" <=> p = 3
             /\ At(map, p).name # "SETATTR"
  BY <1>1, <1>2, <1>4 DEF Procedure
<1>6. QED
  BY <1>2, <1>3, <1>5 DEF Offered, list, map

LEMMA NfsOffered == Offered("nfs", Procedures(NfsList))
<1> DEFINE list == NfsList
           map == Procedures(list)
           Without == {10, 11, 15}
<1>1. DOMAIN list = 1 .. 22
  BY DEF NfsList
<1>2. \A i \in 1 .. 22 : list[i][1] = i - 1
  BY DEF NfsList
<1>3. ASSUME NEW i \in 1 .. 22
      PROVE
        /\ i - 1 \notin Without => list[i][2].callback = TRUE
        /\ i - 1 \in Without => list[i][2].callback = FALSE
        /\ list[i][2].name = "NULL" <=> i = 1
        /\ list[i][2].name = "SETATTR" <=> i = 3
        /\ list[i][2].name \notin {"SET", "UNSET", "GETPORT"}
  <2>1. /\ list[1][2] = Procedure("NULL") /\ list[2][2] = Procedure("GETATTR")
        /\ list[3][2] = Procedure("SETATTR") /\ list[4][2] = Procedure("LOOKUP")
        /\ list[5][2] = Procedure("ACCESS") /\ list[6][2] = Procedure("READLINK")
        /\ list[7][2] = Procedure("READ") /\ list[8][2] = Procedure("WRITE")
        /\ list[9][2] = Procedure("CREATE") /\ list[10][2] = Procedure("MKDIR")
        /\ list[11][2] = Unsupported("SYMLINK") /\ list[12][2] = Unsupported("MKNOD")
        /\ list[13][2] = Procedure("REMOVE") /\ list[14][2] = Procedure("RMDIR")
        /\ list[15][2] = Procedure("RENAME") /\ list[16][2] = Unsupported("LINK")
        /\ list[17][2] = Procedure("READDIR") /\ list[18][2] = Procedure("READDIRPLUS")
        /\ list[19][2] = Procedure("FSSTAT") /\ list[20][2] = Procedure("FSINFO")
        /\ list[21][2] = Procedure("PATHCONF") /\ list[22][2] = Procedure("COMMIT")
    BY DEF NfsList
  <2> HIDE DEF list
  <2>3. i \in {1, 2, 3} \/ i \in 4 .. 10 \/ i \in {11, 12} \/ i \in {13, 14, 15} \/ i = 16 \/ i \in 17 .. 22
    OBVIOUS
  <2>4. CASE i \in {1, 2, 3}
    BY <2>1, <2>4 DEF Procedure
  <2>5. CASE i \in 4 .. 10
    BY <2>1, <2>5 DEF Procedure
  <2>6. CASE i \in {11, 12}
    BY <2>1, <2>6 DEF Unsupported
  <2>7. CASE i \in {13, 14, 15}
    BY <2>1, <2>7 DEF Procedure
  <2>8. CASE i = 16
    BY <2>1, <2>8 DEF Unsupported
  <2>9. CASE i \in 17 .. 22
    BY <2>1, <2>9 DEF Procedure
  <2>10. QED
    BY <2>3, <2>4, <2>5, <2>6, <2>7, <2>8, <2>9
<1> HIDE DEF list
<1>4. /\ \A p \in Nat : HasIndex(map, p) <=> p \in 0 .. 21
      /\ \A p \in 0 .. 21 : At(map, p) = list[p + 1][2]
  <2> DEFINE n == 22
  <2>1. n \in Nat \ {0} /\ DOMAIN list = 1 .. n /\ \A i \in 1 .. n : list[i][1] = i - 1
    BY <1>1, <1>2
  <2>2. n - 1 = 21
    OBVIOUS
  <2> HIDE DEF n, map
  <2>3. /\ \A p \in Nat : HasIndex(map, p) <=> p \in 0 .. n - 1
        /\ \A p \in 0 .. n - 1 : At(map, p) = list[p + 1][2]
    BY <2>1, DenseTable DEF map
  <2>4. QED
    BY <2>2, <2>3
<1> HIDE DEF map
<1>5. Offers["nfs"].procedures = (0 .. 21) \ Without
  BY DEF Offers
<1>6. ASSUME NEW p \in 0 .. 21
      PROVE  /\ p \notin Without => At(map, p).callback = TRUE
             /\ p \in Without => At(map, p).callback = FALSE
             /\ At(map, p).name = "NULL" <=> p = 0
             /\ At(map, p).name = "SETATTR" <=> p = 2
             /\ At(map, p).name \notin {"SET", "UNSET", "GETPORT"}
  <2>1. p + 1 \in 1 .. 22 /\ (p + 1) - 1 = p /\ (p + 1 = 1 <=> p = 0) /\ (p + 1 = 3 <=> p = 2)
    OBVIOUS
  <2> HIDE DEF Without
  <2>2. QED
    BY <1>3, <1>4, <2>1
<1> HIDE DEF Without
<1>7. QED
  BY <1>4, <1>5, <1>6 DEF Offered, list, map

\* The mount program has a gap.
LEMMA MountOffered == Offered("mount", Procedures(MountList))
<1> DEFINE list == MountList
           map == Procedures(list)
<1>1. /\ DOMAIN list = 1 .. 4
      /\ list[1][1] = 0 /\ list[2][1] = 1 /\ list[3][1] = 3 /\ list[4][1] = 4
      /\ list[1][2] = Procedure("NULL") /\ list[2][2] = Procedure("MNT")
      /\ list[3][2] = Procedure("UMNT") /\ list[4][2] = Procedure("UMNTALL")
  BY DEF MountList
<1> HIDE DEF list
<1>2. \A i \in 1 .. 4 : i = 1 \/ i = 2 \/ i = 3 \/ i = 4
  OBVIOUS
<1>3. /\ \A i \in 1 .. 4 : list[i][1] \in Nat
      /\ \A i \in 1 .. 3 : list[i][1] < list[i + 1][1]
  BY <1>1, <1>2
<1>4. TableOf(list, 4, map)
  <2> DEFINE n == 4
  <2>1. /\ n \in Nat \ {0} /\ DOMAIN list = 1 .. n /\ \A i \in 1 .. n : list[i][1] \in Nat
        /\ list[1][1] = 0 /\ \A i \in 1 .. n - 1 : list[i][1] < list[i + 1][1]
    BY <1>1, <1>3
  <2> HIDE DEF n
  <2>2. TableOf(list, n, map)
    BY <2>1, TableIs
  <2>3. QED
    BY <2>2 DEF n
<1> HIDE DEF map
<1>5. /\ \A p \in Nat : HasIndex(map, p) <=> p <= 4
      /\ \A i \in 1 .. 4 : list[i][1] \in Nat => At(map, list[i][1]) = list[i][2]
      /\ \A p \in Nat : HasIndex(map, p) =>
           (\E i \in 1 .. 4 : p + 1 = list[i][1] + 1) \/ At(map, p) = NoEntry
  <2>1. list[4][1] \in Nat /\ 4 \in Nat \ {0}
    BY <1>1
  <2>2. QED
    BY <1>1, <1>4, <2>1, TableReads
<1>6. /\ At(map, 0) = Procedure("NULL") /\ At(map, 1) = Procedure("MNT")
      /\ At(map, 3) = Procedure("UMNT") /\ At(map, 4) = Procedure("UMNTALL")
  BY <1>1, <1>3, <1>5
<1>7. At(map, 2) = NoEntry
  BY <1>1, <1>2, <1>5
<1>8. Offers["mount"].procedures = {0, 1, 3, 4}
  BY DEF Offers
<1>9. \A p \in Nat : p <= 4 => p = 0 \/ p = 1 \/ p = 2 \/ p = 3 \/ p = 4
  OBVIOUS
<1>10. ASSUME NEW p \in Nat, HasIndex(map, p)
       PROVE  /\ p = 2 => At(map, p).callback = FALSE
              /\ p # 2 => At(map, p).callback = TRUE
              /\ p # 2 =>
                   /\ At(map, p).name = "NULL" <=> p = 0
                   /\ At(map, p).name \notin {"SET", "UNSET", "GETPORT", "SETATTR"}
  <2>1. p = 0 \/ p = 1 \/ p = 2 \/ p = 3 \/ p = 4
    BY <1>5, <1>9, <1>10
  <2>2. CASE p = 2
    <3>1. NoEntry.callback = FALSE
      BY Zenon DEF NoEntry
    <3>2. QED
      BY <1>7, <2>2, <3>1
  <2>3. CASE p # 2
    BY <1>6, <2>1, <2>3 DEF Procedure
  <2>4. QED
    BY <2>2, <2>3
<1>11. ASSUME NEW p \in Nat
       PROVE  HasIndex(map, p) /\ At(map, p).callback <=> p \in {0, 1, 3, 4}
  <2>1. CASE HasIndex(map, p)
    <3>1. p = 0 \/ p = 1 \/ p = 2 \/ p = 3 \/ p = 4
      BY <1>5, <1>9, <2>1
    <3>2. (p = 2 => At(map, p).callback = FALSE) /\ (p # 2 => At(map, p).callback = TRUE)
      BY <1>10, <2>1
    <3>3. At(map, p).callback <=> p # 2
      BY <3>2
    <3>4. QED
      BY <2>1, <3>1, <3>3
  <2>2. CASE ~HasIndex(map, p)
    BY <1>5, <2>2
  <2>3. QED
    BY <2>1, <2>2
<1>12. \A p \in {0, 1, 3, 4} : p \in Nat /\ p # 2 /\ HasIndex(map, p)
  BY <1>5
<1>13. \A p \in {0, 1, 3, 4} :
         /\ At(map, p).name = "NULL" <=> p = 0
         /\ At(map, p).name \notin {"SET", "UNSET", "GETPORT", "SETATTR"}
  BY <1>10, <1>12
<1>14. QED
  BY <1>8, <1>11, <1>13 DEF Offered, list, map

LEMMA AllOffered == ASSUME NEW server \in Servers PROVE Offered(server, TableFor(server))
<1>1. CASE server = "portmap"
  BY <1>1, PortmapOffered DEF TableFor, ListOf
<1>2. CASE server = "mount"
  BY <1>2, MountOffered DEF TableFor, ListOf
<1>3. CASE server = "nfs"
  BY <1>3, NfsOffered DEF TableFor, ListOf
<1>4. QED
  BY <1>1, <1>2, <1>3 DEF Servers

-----------------------------------------------------------------------------
(* The words of a call. *)

Words == Seq(Nat)

\* The first words, and those behind a front.
LEMMA Cut ==
  ASSUME NEW a \in Words, NEW t \in Words
  PROVE  /\ a \o t \in Words /\ Len(a \o t) = Len(a) + Len(t)
         /\ Len(a) \in Nat /\ Len(t) \in Nat
         /\ \A i \in 1 .. Len(a) : (a \o t)[i] = a[i]
         /\ \A i \in 1 .. Len(t) : (a \o t)[Len(a) + i] = t[i]
         /\ GetReader(a \o t, Len(a)) = t
<1> DEFINE w == a \o t
           n == Len(a)
           k == Len(t)
<1>1. n \in Nat /\ k \in Nat
  BY DEF Words
<1>2. /\ w \in Words /\ Len(w) = n + k
      /\ \A i \in 1 .. n + k : w[i] = IF i <= n THEN a[i] ELSE t[i - n]
  BY ConcatProperties DEF Words
<1> HIDE DEF w, n, k
<1>3. \A i \in 1 .. n : w[i] = a[i]
  BY <1>1, <1>2
<1>4. \A i \in 1 .. k : w[n + i] = t[i]
  BY <1>1, <1>2
<1> DEFINE r == GetReader(w, n)
<1>5. /\ r \in Words /\ Len(r) = k
      /\ \A i \in 1 .. k : r[i] = w[n + i]
  <2> DEFINE m == n + 1
  <2>1. m \in Int /\ Len(w) \in Int /\ \A i \in m .. Len(w) : w[i] \in Nat
    BY <1>1, <1>2 DEF Words
  <2>2. /\ SubSeq(w, m, Len(w)) \in Seq(Nat)
        /\ Len(SubSeq(w, m, Len(w))) = IF m <= Len(w) THEN Len(w) - m + 1 ELSE 0
        /\ \A i \in 1 .. Len(w) - m + 1 : SubSeq(w, m, Len(w))[i] = w[m + i - 1]
    BY <2>1, SubSeqProperties
  <2>3. (IF m <= Len(w) THEN Len(w) - m + 1 ELSE 0) = k /\ Len(w) - m + 1 = k
    BY <1>1, <1>2
  <2>4. \A i \in 1 .. k : m + i - 1 = n + i
    BY <1>1
  <2>5. QED
    BY <2>2, <2>3, <2>4 DEF GetReader, Words
<1> HIDE DEF r
<1>6. r = t
  <2>1. t \in Seq(Nat) /\ r \in Seq(Nat) /\ Len(r) = Len(t)
    BY <1>5 DEF Words, k
  <2>2. \A i \in 1 .. Len(r) : r[i] = t[i]
    BY <1>4, <1>5
  <2>3. QED
    BY <2>1, <2>2, SeqEqual
<1>7. QED
  BY <1>1, <1>2, <1>3, <1>4, <1>6 DEF w, n, k, r

\* The six words of the header, in two parts.
LEMMA Header ==
  \A a, b, c, d, e, f \in Nat : <<a, b>> \o <<c, d, e, f>> = <<a, b, c, d, e, f>>
<1> SUFFICES ASSUME NEW a \in Nat, NEW b \in Nat, NEW c \in Nat, NEW d \in Nat, NEW e \in Nat,
                    NEW f \in Nat
             PROVE  <<a, b>> \o <<c, d, e, f>> = <<a, b, c, d, e, f>>
  OBVIOUS
<1> DEFINE h == <<a, b>>
           g == <<c, d, e, f>>
           w == <<a, b, c, d, e, f>>
<1>1. h \in Words /\ Len(h) = 2 /\ h[1] = a /\ h[2] = b
  BY DEF Words
<1>2. g \in Words /\ Len(g) = 4 /\ g[1] = c /\ g[2] = d /\ g[3] = e /\ g[4] = f
  BY DEF Words
<1>3. /\ w \in Words /\ Len(w) = 6
      /\ w[1] = a /\ w[2] = b /\ w[3] = c /\ w[4] = d /\ w[5] = e /\ w[6] = f
  BY DEF Words
<1> HIDE DEF h, g, w
<1> DEFINE v == h \o g
<1>4. /\ v \in Words /\ Len(v) = Len(h) + Len(g)
      /\ \A i \in 1 .. Len(h) : v[i] = h[i]
      /\ \A i \in 1 .. Len(g) : v[Len(h) + i] = g[i]
  BY <1>1, <1>2, Cut
<1> HIDE DEF v
<1>5. /\ Len(v) = 6
      /\ v[1] = a /\ v[2] = b /\ v[3] = c /\ v[4] = d /\ v[5] = e /\ v[6] = f
  <2>1. /\ Len(v) = 6 /\ \A i \in 1 .. 2 : v[i] = h[i]
        /\ \A i \in 1 .. 4 : v[2 + i] = g[i]
    BY <1>1, <1>2, <1>4
  <2>2. v[2 + 1] = c /\ v[2 + 2] = d /\ v[2 + 3] = e /\ v[2 + 4] = f
    BY <1>2, <2>1
  <2>3. v[1] = a /\ v[2] = b
    BY <1>1, <2>1
  <2>4. QED
    BY <2>1, <2>2, <2>3
<1>6. \A i \in 1 .. 6 : v[i] = w[i]
  <2>1. \A i \in 1 .. 6 : i = 1 \/ i = 2 \/ i = 3 \/ i = 4 \/ i = 5 \/ i = 6
    OBVIOUS
  <2>2. QED
    BY <1>3, <1>5, <2>1
<1>7. v = w
  BY <1>3, <1>4, <1>5, <1>6, SeqEqual DEF Words
<1>8. QED
  BY <1>7 DEF v, h, g, w

Groups(a, b, t) == (a \o b) \o t = a \o (b \o t)

LEMMA Grouped == \A a, b, t \in Words : Groups(a, b, t)
<1> SUFFICES ASSUME NEW a \in Words, NEW b \in Words, NEW t \in Words PROVE Groups(a, b, t)
  OBVIOUS
<1>1. a \in Seq(Nat) /\ b \in Seq(Nat) /\ t \in Seq(Nat)
  BY DEF Words
<1>2. (a \o b) \o t = a \o (b \o t)
  BY <1>1, ConcatAssociative
<1>3. QED
  BY <1>2 DEF Groups

LEMMA Joined == \A a, b \in Words : a \o b \in Words
BY Cut

\* A credential or a verifier.
LEMMA AuthIs ==
  ASSUME NEW flavor \in Nat, NEW n \in Nat
  PROVE  Auth(flavor, n) \in Words /\ Len(Auth(flavor, n)) = 2 + n /\ Auth(flavor, n)[2] = n
<1> DEFINE h == <<flavor, n>>
           b == Blanks(n, 7)
<1>1. h \in Words /\ Len(h) = 2 /\ h[2] = n
  BY DEF Words
<1>2. b \in Words /\ Len(b) = n
  BY DEF Blanks, Words
<1> HIDE DEF h, b
<1>3. /\ h \o b \in Words /\ Len(h \o b) = Len(h) + Len(b)
      /\ \A i \in 1 .. Len(h) : (h \o b)[i] = h[i]
  BY <1>1, <1>2, Cut
<1>4. h \o b \in Words /\ Len(h \o b) = 2 + n /\ (h \o b)[2] = n
  BY <1>1, <1>2, <1>3
<1>5. QED
  BY <1>4 DEF Auth, h, b

\* Its size is read from its second word.
LEMMA AuthRead ==
  ASSUME NEW flavor \in Nat, NEW n \in Nat, NEW t \in Words
  PROVE  AuthSize(Auth(flavor, n) \o t) = 2 + n
<1> DEFINE a == Auth(flavor, n)
           w == a \o t
<1>1. a \in Words /\ Len(a) = 2 + n /\ a[2] = n
  BY AuthIs
<1> HIDE DEF a
<1>2. Len(w) = Len(a) + Len(t) /\ Len(t) \in Nat /\ \A i \in 1 .. Len(a) : w[i] = a[i]
  BY <1>1, Cut
<1> HIDE DEF w
<1>3. Len(w) >= 1 + 1 /\ w[1 + 1] = n
  BY <1>1, <1>2
<1>4. QED
  BY <1>3 DEF AuthSize, OpaqueSize, HasSize, Get, w, a

\* What there is behind the header of a call.
Tail4(c) == <<c.rpcvers, c.program, c.version, c.procedure>>
Credential(c) == Auth(1, c.cred)
Rest2(c) == IF c.whole THEN Auth(0, c.verf) \o Params(c.args) ELSE <<>>

LEMMA MessageBody ==
  ASSUME NEW c \in Call, Params(c.args) \in Words
  PROVE  LET body == GetReader(Message(c), 2)
         IN /\ HasSize(Message(c), 2) /\ Get(Message(c), 1) = CALL
            /\ body = Tail4(c) \o (Credential(c) \o Rest2(c))
            /\ body = (Tail4(c) \o Credential(c)) \o Rest2(c)
            /\ Get(body, 0) = c.rpcvers /\ Get(body, 1) = c.program
            /\ Get(body, 2) = c.version /\ Get(body, 3) = c.procedure
            /\ Tail4(c) \in Words /\ Len(Tail4(c)) = 4
            /\ Credential(c) \in Words /\ Len(Credential(c)) = 2 + c.cred
            /\ Rest2(c) \in Words
<1> DEFINE h2 == <<1, CALL>>
           h4 == Tail4(c)
           a == Credential(c)
           r == Rest2(c)
           body == h4 \o (a \o r)
<1>1. c.rpcvers \in Nat /\ c.program \in Nat /\ c.version \in Nat /\ c.procedure \in Nat
      /\ c.cred \in Nat /\ c.verf \in Nat
  BY DEF Call
<1>2. h2 \in Words /\ Len(h2) = 2 /\ h2[2] = CALL
  BY DEF Words, CALL
<1>3. /\ h4 \in Words /\ Len(h4) = 4 /\ h4[1] = c.rpcvers /\ h4[2] = c.program
      /\ h4[3] = c.version /\ h4[4] = c.procedure
  BY <1>1 DEF Tail4, Words
<1>4. a \in Words /\ Len(a) = 2 + c.cred
  BY <1>1, AuthIs DEF Credential
<1>5. r \in Words
  <2>1. <<>> \in Words
    BY DEF Words
  <2>2. Auth(0, c.verf) \in Words
    BY <1>1, AuthIs
  <2>3. Auth(0, c.verf) \o Params(c.args) \in Words
    BY <2>2, Cut
  <2>4. QED
    BY <2>1, <2>3 DEF Rest2
<1>6. h2 \o h4 = <<1, CALL, c.rpcvers, c.program, c.version, c.procedure>>
  <2>1. 1 \in Nat /\ CALL \in Nat
    BY DEF CALL
  <2> DEFINE one == 1
             call == CALL
             x == c.rpcvers
             y == c.program
             z == c.version
             u == c.procedure
  <2>2. one \in Nat /\ call \in Nat /\ x \in Nat /\ y \in Nat /\ z \in Nat /\ u \in Nat
    BY <1>1, <2>1
  <2> HIDE DEF one, call, x, y, z, u
  <2>3. <<one, call>> \o <<x, y, z, u>> = <<one, call, x, y, z, u>>
    BY <2>2, Header
  <2>4. QED
    BY <2>3 DEF Tail4, one, call, x, y, z, u
<1>7. Message(c) = ((h2 \o h4) \o a) \o r
  BY <1>6 DEF Message, Credential, Rest2
<1> HIDE DEF h2, h4, a, r, body
<1>8. Message(c) = h2 \o body /\ body = (h4 \o a) \o r /\ body \in Words
  <2>1. h2 \in Words /\ h4 \in Words /\ a \in Words /\ r \in Words
    BY <1>2, <1>3, <1>4, <1>5
  <2> DEFINE k == h2 \o h4
             z == a \o r
  <2>2. k \in Words /\ z \in Words
    BY <2>1, Joined
  <2>3. h4 \o z \in Words
    BY <2>1, <2>2, Joined
  <2> HIDE DEF k, z
  <2>4. Groups(k, a, r) /\ Groups(h2, h4, z) /\ Groups(h4, a, r)
    BY <2>1, <2>2, Grouped
  <2>5. QED
    BY <1>7, <2>3, <2>4 DEF body, k, z, Groups
<1>9. /\ \A i \in 1 .. 4 : body[i] = h4[i]
  <2>1. a \o r \in Words
    BY <1>4, <1>5, Joined
  <2>2. \A i \in 1 .. Len(h4) : body[i] = h4[i]
    BY <1>3, <2>1, Cut DEF body
  <2>3. QED
    BY <1>3, <2>2
<1>10. /\ Len(h2 \o body) = 2 + Len(body) /\ Len(body) \in Nat
       /\ (h2 \o body)[2] = h2[2]
       /\ GetReader(h2 \o body, 2) = body
  <2>1. /\ Len(h2 \o body) = Len(h2) + Len(body) /\ Len(body) \in Nat
        /\ \A i \in 1 .. Len(h2) : (h2 \o body)[i] = h2[i]
        /\ GetReader(h2 \o body, Len(h2)) = body
    BY <1>2, <1>8, Cut
  <2>2. QED
    BY <1>2, <2>1
<1>11. HasSize(Message(c), 2) /\ Get(Message(c), 1) = CALL
  BY <1>2, <1>8, <1>10 DEF HasSize, Get
<1>12. /\ Get(body, 0) = c.rpcvers /\ Get(body, 1) = c.program
       /\ Get(body, 2) = c.version /\ Get(body, 3) = c.procedure
  BY <1>3, <1>9 DEF Get
<1>13. GetReader(Message(c), 2) = body
  BY <1>8, <1>10
<1>14. QED
  BY <1>3, <1>4, <1>5, <1>8, <1>11, <1>12, <1>13 DEF body, h4, a, r

\* How the body of a call is divided.
LEMMA BodyDivided ==
  ASSUME NEW c \in Call, Params(c.args) \in Words
  PROVE  LET body == GetReader(Message(c), 2)
         IN /\ HasSize(body, BodySize(body)) <=> c.whole
            /\ c.whole => GetReader(body, BodySize(body)) = Params(c.args)
<1> DEFINE h == Tail4(c)
           a == Credential(c)
           r == Rest2(c)
           p == Params(c.args)
           v == Auth(0, c.verf)
           body == GetReader(Message(c), 2)
           cred == c.cred
           verf == c.verf
<1>1. /\ body = h \o (a \o r) /\ body = (h \o a) \o r
      /\ h \in Words /\ Len(h) = 4 /\ a \in Words /\ Len(a) = 2 + cred /\ r \in Words
  BY MessageBody
<1>2. cred \in Nat /\ verf \in Nat /\ c.whole \in BOOLEAN /\ p \in Words
  BY DEF Call
<1>3. AuthSize(a \o r) = 2 + cred
  BY <1>1, <1>2, AuthRead DEF Credential
<1>4. v \in Words /\ Len(v) = 2 + verf /\ AuthSize(v \o p) = 2 + verf
  BY <1>2, AuthIs, AuthRead
<1>5. c.whole => r = v \o p
  BY DEF Rest2
<1>6. ~c.whole => r = <<>>
  BY DEF Rest2
<1> HIDE DEF h, a, r, p, v, body, cred, verf
<1>7. GetReader(body, 4) = a \o r
  <2>1. a \o r \in Words
    BY <1>1, Joined
  <2>2. GetReader(h \o (a \o r), Len(h)) = a \o r
    BY <1>1, <2>1, Cut
  <2>3. QED
    BY <1>1, <2>2
<1> DEFINE ha == h \o a
<1>8. ha \in Words /\ Len(ha) = 4 + (2 + cred)
  <2>1. ha \in Words /\ Len(ha) = Len(h) + Len(a)
    BY <1>1, Cut
  <2>2. QED
    BY <1>1, <2>1
<1> HIDE DEF ha
<1>9. GetReader(body, 4 + (2 + cred)) = r /\ Len(body) = 4 + (2 + cred) + Len(r) /\ Len(r) \in Nat
  <2>1. /\ GetReader(ha \o r, Len(ha)) = r /\ Len(ha \o r) = Len(ha) + Len(r)
        /\ Len(r) \in Nat
    BY <1>1, <1>8, Cut
  <2>2. QED
    BY <1>1, <1>8, <2>1 DEF ha
<1>10. BodySize(body) = 4 + (2 + cred) + AuthSize(r)
  BY <1>3, <1>7, <1>9 DEF BodySize
<1>11. CASE c.whole
  <2>1. AuthSize(r) = 2 + verf
    BY <1>4, <1>5, <1>11
  <2>2. Len(r) = Len(v) + Len(p) /\ Len(p) \in Nat
    BY <1>2, <1>4, <1>5, <1>11, Cut
  <2>3. HasSize(body, BodySize(body))
    BY <1>2, <1>4, <1>9, <1>10, <2>1, <2>2 DEF HasSize
  <2>4. ha \o (v \o p) = (ha \o v) \o p
    BY <1>2, <1>4, <1>8, Grouped DEF Groups
  <2>5. body = ha \o (v \o p)
    BY <1>1, <1>5, <1>11 DEF ha
  <2> DEFINE hav == ha \o v
  <2>6. hav \in Words /\ Len(hav) = Len(ha) + Len(v)
    BY <1>4, <1>8, Cut
  <2>7. Len(hav) = BodySize(body)
    BY <1>2, <1>4, <1>8, <1>10, <2>1, <2>6
  <2> HIDE DEF hav
  <2>8. GetReader(hav \o p, Len(hav)) = p
    BY <1>2, <2>6, Cut
  <2>9. body = hav \o p
    BY <2>4, <2>5 DEF hav
  <2>10. GetReader(body, BodySize(body)) = p
    BY <2>7, <2>8, <2>9
  <2>11. QED
    BY <1>11, <2>3, <2>10 DEF body, p
<1>12. CASE ~c.whole
  <2>1. Len(r) = 0
    BY <1>6, <1>12
  <2>2. AuthSize(r) = 2
    BY <2>1 DEF AuthSize, OpaqueSize, HasSize
  <2>3. ~HasSize(body, BodySize(body))
    BY <1>2, <1>9, <1>10, <2>1, <2>2 DEF HasSize
  <2>4. QED
    BY <1>12, <2>3 DEF body
<1>13. QED
  BY <1>2, <1>11, <1>12

\* What the router makes of a call, from its header alone.
Heard(c, answer) ==
  LET offer == Offers[c.server]
      versioned == c.program = offer.program /\ c.version = offer.version
      offered == versioned /\ c.procedure \in offer.procedures
  IN /\ ~c.whole => answer = Silence
     /\ c.whole /\ c.rpcvers # VERSION => answer = Rejected
     /\ c.whole /\ c.rpcvers = VERSION =>
          /\ c.program # offer.program => answer = Accepted("PROG_UNAVAIL")
          /\ c.program = offer.program /\ ~versioned =>
               answer = [stat |-> "PROG_MISMATCH", low |-> offer.version, high |-> offer.version]
          /\ versioned /\ ~offered => answer = Accepted("PROC_UNAVAIL")
          /\ offered =>
               answer = [stat |-> "call", name |-> At(TableFor(c.server), c.procedure).name,
                         parameters |-> Params(c.args)]

\* The router tells the calls apart as the tables and the header have it.
LEMMA Understood ==
  ASSUME NEW c \in Call, Params(c.args) \in Words
  PROVE  Heard(c, handle(Programs[c.server], Message(c)))
<1> DEFINE server == c.server
           offer == Offers[server]
           table == TableFor(server)
           versions == [offset |-> offer.version, store |-> <<table>>]
           programs == [p \in {offer.program} |-> versions]
           w == Message(c)
           body == GetReader(w, 2)
<1>1. server \in Servers /\ c.program \in Nat /\ c.version \in Nat /\ c.procedure \in Nat
      /\ c.whole \in BOOLEAN
  BY DEF Call, Servers
<1>2. Programs[server] = programs
  BY <1>1, OneProgram DEF OneVersion
<1>3. offer.version \in Nat
  BY <1>1 DEF Servers, Offers
<1>4. /\ HasSize(w, 2) /\ Get(w, 1) = CALL
      /\ Get(body, 0) = c.rpcvers /\ Get(body, 1) = c.program
      /\ Get(body, 2) = c.version /\ Get(body, 3) = c.procedure
  BY MessageBody
<1>5. /\ HasSize(body, BodySize(body)) <=> c.whole
      /\ c.whole => GetReader(body, BodySize(body)) = Params(c.args)
  BY BodyDivided
<1>6. \A n \in Nat : HasIndex(versions, n) <=> n = offer.version
  BY <1>3 DEF HasIndex, RangeEnd
<1>7. At(versions, offer.version) = table
  BY <1>3 DEF At
<1>8. Mismatch(versions) =
        [stat |-> "PROG_MISMATCH", low |-> offer.version, high |-> offer.version]
  BY <1>3 DEF Mismatch, RangeEnd
<1>9. HasIndex(table, c.procedure) /\ At(table, c.procedure).callback
        <=> c.procedure \in offer.procedures
  BY <1>1, AllOffered DEF Offered
<1>10. DOMAIN programs = {offer.program} /\ programs[offer.program] = versions
  OBVIOUS
<1> DEFINE answer == handle(programs, w)
<1>11. answer =
         IF ~c.whole THEN Silence
         ELSE IF c.rpcvers # VERSION THEN Rejected
         ELSE IF c.program \notin DOMAIN programs THEN Accepted("PROG_UNAVAIL")
         ELSE IF ~HasIndex(programs[c.program], c.version) THEN Mismatch(programs[c.program])
         ELSE IF \/ ~HasIndex(At(programs[c.program], c.version), c.procedure)
                 \/ ~At(At(programs[c.program], c.version), c.procedure).callback
              THEN Accepted("PROC_UNAVAIL")
         ELSE [stat |-> "call", name |-> At(At(programs[c.program], c.version), c.procedure).name,
               parameters |-> GetReader(body, BodySize(body))]
  <2> HIDE DEF programs, w
  <2>1. QED
    BY <1>4, <1>5 DEF handle
<1> HIDE DEF versions, programs, w, table, offer, answer
<1>12. ~c.whole => answer = Silence
  BY <1>11
<1>13. c.whole /\ c.rpcvers # VERSION => answer = Rejected
  BY <1>11
<1>14. ASSUME c.whole, c.rpcvers = VERSION
       PROVE  c.program # offer.program => answer = Accepted("PROG_UNAVAIL")
  BY <1>10, <1>11, <1>14
<1>15. ASSUME c.whole, c.rpcvers = VERSION, c.program = offer.program, c.version # offer.version
       PROVE  answer = [stat |-> "PROG_MISMATCH", low |-> offer.version, high |-> offer.version]
  BY <1>1, <1>6, <1>8, <1>10, <1>11, <1>15
<1>16. ASSUME c.whole, c.rpcvers = VERSION, c.program = offer.program, c.version = offer.version
       PROVE  answer = IF c.procedure \notin offer.procedures THEN Accepted("PROC_UNAVAIL")
                       ELSE [stat |-> "call", name |-> At(table, c.procedure).name,
                             parameters |-> Params(c.args)]
  <2>1. HasIndex(programs[c.program], c.version) /\ At(programs[c.program], c.version) = table
    BY <1>1, <1>6, <1>7, <1>10, <1>16
  <2>2. c.program \in DOMAIN programs
    BY <1>10, <1>16
  <2>3. answer = IF ~HasIndex(table, c.procedure) \/ ~At(table, c.procedure).callback
                 THEN Accepted("PROC_UNAVAIL")
                 ELSE [stat |-> "call", name |-> At(table, c.procedure).name,
                       parameters |-> GetReader(body, BodySize(body))]
    BY <1>11, <1>16, <2>1, <2>2
  <2>4. QED
    BY <1>5, <1>9, <1>16, <2>3
<1>17. Heard(c, answer)
  BY <1>12, <1>13, <1>14, <1>15, <1>16 DEF Heard, offer, table
<1>18. QED
  BY <1>2, <1>17 DEF answer, w

-----------------------------------------------------------------------------
(* The reader of SETATTR's arguments. *)

\* What is left of the words from an offset.
Reads(w, o, t) ==
  /\ w \in Words /\ o \in Nat /\ t \in Words
  /\ Len(w) = o + Len(t)
  /\ \A i \in 1 .. Len(t) : w[o + i] = t[i]

LEMMA Moved ==
  ASSUME NEW w, NEW o, NEW x \in Words, NEW t \in Words, Reads(w, o, x \o t)
  PROVE  /\ Reads(w, o + Len(x), t)
         /\ Len(x) \in Nat /\ Len(t) \in Nat /\ Len(w) = o + Len(x) + Len(t)
         /\ \A i \in 1 .. Len(x) : w[o + i] = x[i]
<1> DEFINE v == x \o t
<1>1. /\ v \in Words /\ Len(v) = Len(x) + Len(t) /\ Len(x) \in Nat /\ Len(t) \in Nat
      /\ \A i \in 1 .. Len(x) : v[i] = x[i]
      /\ \A i \in 1 .. Len(t) : v[Len(x) + i] = t[i]
  BY Cut
<1>2. /\ w \in Words /\ o \in Nat /\ Len(w) = o + Len(v)
      /\ \A i \in 1 .. Len(v) : w[o + i] = v[i]
  BY DEF Reads
<1> HIDE DEF v
<1>3. \A i \in 1 .. Len(x) : i \in 1 .. Len(v) /\ w[o + i] = x[i]
  BY <1>1, <1>2
<1>4. ASSUME NEW i \in 1 .. Len(t) PROVE w[(o + Len(x)) + i] = t[i]
  <2>1. Len(x) + i \in 1 .. Len(v) /\ o + (Len(x) + i) = (o + Len(x)) + i
    BY <1>1, <1>2
  <2>2. QED
    BY <1>1, <1>2, <2>1
<1>5. o + Len(x) \in Nat /\ Len(w) = (o + Len(x)) + Len(t)
  BY <1>1, <1>2
<1>6. QED
  BY <1>1, <1>2, <1>3, <1>4, <1>5 DEF Reads

LEMMA OptionalIs ==
  ASSUME NEW n \in Nat \ {0}, NEW f \in Field(n)
  PROVE  /\ Optional(f) \in Words
         /\ f = <<>> => Len(Optional(f)) = 1 /\ Optional(f)[1] = 0
         /\ f # <<>> =>
              /\ f \in Words /\ Len(f) = n /\ Len(Optional(f)) = 1 + n /\ Optional(f)[1] = 1
              /\ \A i \in 1 .. n : Optional(f)[1 + i] = f[i]
<1>1. CASE f = <<>>
  <2>1. Optional(f) = <<0>>
    BY <1>1 DEF Optional
  <2>2. <<0>> \in Words /\ Len(<<0>>) = 1 /\ <<0>>[1] = 0
    BY DEF Words
  <2>3. QED
    BY <1>1, <2>1, <2>2
<1>2. CASE f # <<>>
  <2> DEFINE h == <<1>>
             v == h \o f
  <2>1. f \in Words /\ Len(f) = n
    BY <1>2 DEF Field, Words
  <2>2. h \in Words /\ Len(h) = 1 /\ h[1] = 1
    BY DEF Words
  <2>3. Optional(f) = v
    BY <1>2 DEF Optional
  <2> HIDE DEF h
  <2>4. /\ v \in Words /\ Len(v) = Len(h) + Len(f)
        /\ \A i \in 1 .. Len(h) : v[i] = h[i]
        /\ \A i \in 1 .. Len(f) : v[Len(h) + i] = f[i]
    BY <2>1, <2>2, Cut
  <2> HIDE DEF v
  <2>5. Len(v) = 1 + n /\ v[1] = 1 /\ \A i \in 1 .. n : v[1 + i] = f[i]
    BY <2>1, <2>2, <2>4
  <2>6. QED
    BY <1>2, <2>1, <2>3, <2>4, <2>5
<1>3. QED
  BY <1>1, <1>2

\* n words of them are a sequence of n words.
LEMMA Piece ==
  ASSUME NEW w \in Words, NEW o \in Nat, NEW n \in Nat \ {0}, Len(w) >= o + 1 + n
  PROVE  LET p == SubSeq(w, o + 2, o + 1 + n)
         IN p \in Words /\ Len(p) = n /\ \A i \in 1 .. n : p[i] = w[o + 1 + i]
<1> DEFINE from == o + 2
           upto == o + 1 + n
           p == SubSeq(w, from, upto)
<1>1. from \in Int /\ upto \in Int /\ \A i \in from .. upto : w[i] \in Nat
  <2>1. \A i \in from .. upto : i \in 1 .. Len(w)
    BY DEF Words
  <2>2. QED
    BY <2>1 DEF Words
<1>2. /\ from <= upto /\ upto - from + 1 = n
      /\ \A i \in 1 .. n : from + i - 1 = o + 1 + i
  OBVIOUS
<1> HIDE DEF from, upto
<1>3. /\ SubSeq(w, from, upto) \in Seq(Nat)
      /\ Len(SubSeq(w, from, upto)) = IF from <= upto THEN upto - from + 1 ELSE 0
      /\ \A i \in 1 .. upto - from + 1 : SubSeq(w, from, upto)[i] = w[from + i - 1]
  BY <1>1, SubSeqProperties
<1>4. p \in Words /\ Len(p) = n /\ \A i \in 1 .. n : p[i] = w[o + 1 + i]
  BY <1>2, <1>3 DEF Words
<1>5. QED
  BY <1>4 DEF p, from, upto

\* An optional field: whether it is there, its words, and what follows.
FieldIsRead(w, o, n, f, t) ==
  /\ Has(w, o) <=> f # <<>>
  /\ Reads(w, Behind(w, o, n), t)
  /\ Len(w) >= o + 1 + Len(t)
  /\ f # <<>> => SubSeq(w, o + 2, o + 1 + n) = f /\ \A i \in 1 .. n : Get(w, o + i) = f[i]

LEMMA FieldRead ==
  ASSUME NEW n \in Nat \ {0}, NEW f \in Field(n), NEW t \in Words, NEW w, NEW o,
         Reads(w, o, Optional(f) \o t)
  PROVE  FieldIsRead(w, o, n, f, t)
<1> DEFINE x == Optional(f)
<1>1. /\ x \in Words
      /\ f = <<>> => Len(x) = 1 /\ x[1] = 0
      /\ f # <<>> =>
           /\ f \in Words /\ Len(f) = n /\ Len(x) = 1 + n /\ x[1] = 1
           /\ \A i \in 1 .. n : x[1 + i] = f[i]
  BY OptionalIs
<1>2. w \in Words /\ o \in Nat
  BY DEF Reads
<1> HIDE DEF x
<1>3. Reads(w, o, x \o t)
  BY DEF x
<1>4. /\ Reads(w, o + Len(x), t)
      /\ Len(x) \in Nat /\ Len(t) \in Nat /\ Len(w) = o + Len(x) + Len(t)
      /\ \A i \in 1 .. Len(x) : w[o + i] = x[i]
  BY <1>1, <1>3, Moved
<1>5. Len(w) >= o + 1 /\ Get(w, o) = x[1] /\ Len(w) >= o + 1 + Len(t)
  BY <1>1, <1>2, <1>4 DEF Get
<1>6. Has(w, o) <=> f # <<>>
  BY <1>1, <1>5 DEF Has, HasSize
<1>7. Behind(w, o, n) = o + Len(x)
  <2>1. Behind(w, o, n) = IF f # <<>> THEN o + 1 + n ELSE o + 1 + 0
    BY <1>6 DEF Behind
  <2>2. o + 1 + n = o + (1 + n) /\ o + 1 + 0 = o + 1
    BY <1>2
  <2>3. QED
    BY <1>1, <2>1, <2>2
<1>8. ASSUME f # <<>>
      PROVE  SubSeq(w, o + 2, o + 1 + n) = f /\ \A i \in 1 .. n : Get(w, o + i) = f[i]
  <2>1. \A i \in 1 .. n : 1 + i \in 1 .. Len(x) /\ o + (1 + i) = o + 1 + i
    BY <1>1, <1>2, <1>8
  <2>2. \A i \in 1 .. n : w[o + 1 + i] = f[i]
    BY <1>1, <1>4, <1>8, <2>1
  <2> DEFINE p == SubSeq(w, o + 2, o + 1 + n)
  <2>3. p \in Words /\ Len(p) = n /\ \A i \in 1 .. n : p[i] = w[o + 1 + i]
    <3>1. Len(w) >= o + 1 + n
      BY <1>1, <1>2, <1>4, <1>8
    <3>2. QED
      BY <1>2, <3>1, Piece
  <2> HIDE DEF p
  <2>4. p = f
    BY <1>1, <1>8, <2>2, <2>3, SeqEqual DEF Words
  <2>5. \A i \in 1 .. n : o + i + 1 = o + 1 + i
    BY <1>2
  <2>6. QED
    BY <2>2, <2>4, <2>5 DEF Get, p
<1>9. QED
  BY <1>4, <1>5, <1>6, <1>7, <1>8 DEF FieldIsRead

LEMMA TimeIs ==
  ASSUME NEW time \in ClientTime
  PROVE  /\ Time(time) \in Words /\ Time(time)[1] = time.how
         /\ time.how # 2 => /\ Len(Time(time)) = 1
                            /\ time = [how |-> time.how, words |-> <<>>]
         /\ time.how = 2 => /\ Len(Time(time)) = 3
                            /\ time = [how |-> 2, words |-> <<Time(time)[2], Time(time)[3]>>]
<1> DEFINE how == time.how
           words == time.words
<1>1. CASE time \in [how : {0, 1}, words : {<<>>}]
  <2>1. how \in Nat /\ how # 2 /\ words = <<>> /\ time = [how |-> how, words |-> words]
    BY <1>1
  <2> DEFINE h == <<how>>
             e == <<>>
  <2>2. h \in Words /\ Len(h) = 1 /\ h[1] = how /\ e \in Words /\ Len(e) = 0
    BY <2>1 DEF Words
  <2>3. Time(time) = h \o e
    BY <2>1 DEF Time
  <2> HIDE DEF h, e
  <2>4. /\ h \o e \in Words /\ Len(h \o e) = Len(h) + Len(e)
        /\ \A i \in 1 .. Len(h) : (h \o e)[i] = h[i]
    BY <2>2, Cut
  <2>5. h \o e \in Words /\ Len(h \o e) = 1 /\ (h \o e)[1] = how
    BY <2>2, <2>4
  <2>6. QED
    BY <2>1, <2>3, <2>5
<1>2. CASE time \in [how : {2}, words : [1 .. 2 -> Nat]]
  <2>1. how = 2 /\ words \in [1 .. 2 -> Nat] /\ time = [how |-> how, words |-> words]
    BY <1>2
  <2> DEFINE h == <<how>>
             v == h \o words
  <2>2. /\ h \in Words /\ Len(h) = 1 /\ h[1] = 2
        /\ words \in Words /\ Len(words) = 2
    <3>1. h = <<2>>
      BY <2>1
    <3>2. <<2>> \in Words /\ Len(<<2>>) = 1 /\ <<2>>[1] = 2
      BY DEF Words
    <3>3. words \in Words /\ Len(words) = 2
      <4> DEFINE n == 2
      <4>1. n \in Nat /\ words \in [1 .. n -> Nat]
        BY <2>1
      <4> HIDE DEF n, words
      <4>2. words \in Seq(Nat) /\ Len(words) = n
        BY <4>1
      <4>3. QED
        BY <4>2 DEF Words, n
    <3>4. QED
      BY <3>1, <3>2, <3>3
  <2>3. Time(time) = v
    BY <2>1 DEF Time
  <2>4. words = <<words[1], words[2]>>
    BY <2>1
  <2> HIDE DEF h, words, how
  <2>5. /\ v \in Words /\ Len(v) = Len(h) + Len(words)
        /\ \A i \in 1 .. Len(h) : v[i] = h[i]
        /\ \A i \in 1 .. Len(words) : v[Len(h) + i] = words[i]
    BY <2>2, Cut
  <2> HIDE DEF v
  <2>6. Len(v) = 3 /\ v[1] = 2
    BY <2>2, <2>5
  <2>7. v[1 + 1] = words[1] /\ v[1 + 2] = words[2]
    BY <2>2, <2>5
  <2>8. v[2] = words[1] /\ v[3] = words[2]
    BY <2>7
  <2>9. time = [how |-> 2, words |-> <<v[2], v[3]>>]
    BY <2>1, <2>4, <2>8
  <2>10. QED
    BY <2>1, <2>3, <2>5, <2>6, <2>9 DEF how
<1>3. QED
  BY <1>1, <1>2 DEF ClientTime

\* A time: what it is, and what follows.
TimeIsRead(w, o, time, t) ==
  /\ Reads(w, o + TimeSize(w, o), t)
  /\ ReadTime(w, o) = time

LEMMA TimeRead ==
  ASSUME NEW time \in ClientTime, NEW t \in Words, NEW w, NEW o, Reads(w, o, Time(time) \o t)
  PROVE  TimeIsRead(w, o, time, t)
<1> DEFINE x == Time(time)
<1>1. /\ x \in Words /\ x[1] = time.how
      /\ time.how # 2 => Len(x) = 1 /\ time = [how |-> time.how, words |-> <<>>]
      /\ time.how = 2 => Len(x) = 3 /\ time = [how |-> 2, words |-> <<x[2], x[3]>>]
  BY TimeIs
<1>2. w \in Words /\ o \in Nat
  BY DEF Reads
<1> HIDE DEF x
<1>3. Reads(w, o, x \o t)
  BY DEF x
<1>4. /\ Reads(w, o + Len(x), t)
      /\ Len(x) \in Nat /\ Len(t) \in Nat /\ Len(w) = o + Len(x) + Len(t)
      /\ \A i \in 1 .. Len(x) : w[o + i] = x[i]
  BY <1>1, <1>3, Moved
<1>5. Len(w) >= o + 1 /\ Get(w, o) = time.how
  <2>1. Len(x) >= 1 /\ 1 \in 1 .. Len(x)
    BY <1>1, <1>4
  <2>2. w[o + 1] = x[1]
    BY <1>4, <2>1
  <2>3. Len(w) >= o + 1
    BY <1>2, <1>4, <2>1
  <2>4. QED
    BY <1>1, <2>2, <2>3 DEF Get
<1>6. TimeSize(w, o) = Len(x)
  BY <1>1, <1>5 DEF TimeSize, HasSize
<1>7. CASE time.how = 2
  <2>1. w[o + 2] = x[2] /\ w[o + 3] = x[3]
    <3>1. 2 \in 1 .. Len(x) /\ 3 \in 1 .. Len(x)
      BY <1>1, <1>7
    <3>2. QED
      BY <1>4, <3>1
  <2>2. Get(w, o + 1) = x[2] /\ Get(w, o + 2) = x[3]
    BY <1>2, <2>1 DEF Get
  <2>3. ReadTime(w, o) = [how |-> 2, words |-> <<x[2], x[3]>>]
    BY <1>5, <1>7, <2>2 DEF ReadTime
  <2>4. QED
    BY <1>1, <1>4, <1>6, <1>7, <2>3 DEF TimeIsRead
<1>8. CASE time.how # 2
  <2>1. ReadTime(w, o) = [how |-> time.how, words |-> <<>>]
    BY <1>5, <1>8 DEF ReadTime
  <2>2. QED
    BY <1>1, <1>4, <1>6, <1>8, <2>1 DEF TimeIsRead
<1>9. QED
  BY <1>7, <1>8

\* Parts one behind the other, read from the last.
Regroups(h, p, q, r, s) ==
  /\ h \o p \o q \o r \o s = h \o (p \o (q \o (r \o s)))
  /\ h \o p \o q \o r \in Words /\ p \o (q \o (r \o s)) \in Words

LEMMA Regrouped ==
  ASSUME NEW h \in Words, NEW p \in Words, NEW q \in Words, NEW r \in Words, NEW s \in Words
  PROVE  Regroups(h, p, q, r, s)
<1> DEFINE hp == h \o p
           hpq == hp \o q
           rs == r \o s
           qrs == q \o rs
<1>1. hp \in Words /\ rs \in Words
  BY Joined
<1> HIDE DEF hp, rs
<1>2. hpq \in Words /\ qrs \in Words
  BY <1>1, Joined
<1> HIDE DEF hpq, qrs
<1>3. Groups(hpq, r, s)
  BY <1>2, Grouped
<1>4. Groups(hp, q, rs)
  BY <1>1, Grouped
<1>5. Groups(h, p, qrs)
  BY <1>2, Grouped
<1>6. hpq \o r \in Words
  BY <1>2, Joined
<1>7. p \o qrs \in Words
  BY <1>2, Joined
<1>8. QED
  BY <1>3, <1>4, <1>5, <1>6, <1>7 DEF Regroups, Groups, hp, hpq, rs, qrs

\* SETATTR gets the attributes and the guard that were sent, as far as it reads them.
SentRead(args, got) ==
  /\ got.check = args.check
  /\ got.attributes.mode = args.mode
  /\ got.attributes.atime = args.atime /\ got.attributes.mtime = args.mtime
  /\ args.mode = <<>> =>
       /\ got.attributes.uid = <<>> /\ got.attributes.gid = <<>> /\ got.attributes.size = <<>>
  /\ args.mode # <<>> =>
       /\ args.uid # <<>> => got.attributes.uid = args.uid
       /\ args.gid # <<>> => got.attributes.gid = args.gid
       /\ args.size # <<>> => got.attributes.size = args.size
  /\ got.attributes.size # <<>> => Len(got.attributes.size) = 2

LEMMA SetAttrRead ==
  ASSUME NEW args \in Arguments, args.kind = "setattr"
  PROVE  /\ Params(args) \in Words /\ Params(args) # <<>>
         /\ ValidSetAttrArgs(Params(args))
         /\ SentRead(args, ReadSetAttrArgs(Params(args)))
<1> DEFINE h == <<1, 9>>
           m == Optional(args.mode)
           u == Optional(args.uid)
           g == Optional(args.gid)
           s == Optional(args.size)
           at == Time(args.atime)
           mt == Time(args.mtime)
           k == Optional(args.check)
           e == <<>>
           w == Params(args)
<1>1. /\ args.mode \in Field(1) /\ args.uid \in Field(1) /\ args.gid \in Field(1)
      /\ args.size \in Field(2) /\ args.check \in Field(2)
      /\ args.atime \in ClientTime /\ args.mtime \in ClientTime
  BY DEF Arguments
<1>2. 1 \in Nat \ {0} /\ 2 \in Nat \ {0}
  OBVIOUS
<1>3. m \in Words /\ u \in Words /\ g \in Words /\ s \in Words /\ k \in Words
  BY <1>1, <1>2, OptionalIs
<1>4. at \in Words /\ mt \in Words
  BY <1>1, TimeIs
<1>5. h \in Words /\ Len(h) = 2 /\ h[1] = 1 /\ e \in Words
  BY DEF Words
<1>6. w = h \o m \o u \o g \o s \o at \o mt \o k
  BY DEF Params
<1>7. k = k \o e
  <2>1. k \in Seq(Nat)
    BY <1>3 DEF Words
  <2> HIDE DEF k
  <2>2. QED
    BY <2>1, ConcatEmptySeq
<1> HIDE DEF h, m, u, g, s, at, mt, k, e, w
<1> DEFINE x == h \o m \o u \o g
           mk == mt \o k
           amk == at \o mk
           samk == s \o amk
           gs == g \o samk
           ugs == u \o gs
           rest == m \o ugs
<1>8. mk \in Words /\ amk \in Words /\ samk \in Words /\ gs \in Words /\ ugs \in Words
      /\ rest \in Words
  <2>1. mk \in Words
    BY <1>3, <1>4, Joined
  <2> HIDE DEF mk
  <2>2. amk \in Words
    BY <1>4, <2>1, Joined
  <2> HIDE DEF amk
  <2>3. samk \in Words
    BY <1>3, <2>2, Joined
  <2> HIDE DEF samk
  <2>4. gs \in Words
    BY <1>3, <2>3, Joined
  <2> HIDE DEF gs
  <2>5. ugs \in Words
    BY <1>3, <2>4, Joined
  <2> HIDE DEF ugs
  <2>6. rest \in Words
    BY <1>3, <2>5, Joined
  <2>7. QED
    BY <2>1, <2>2, <2>3, <2>4, <2>5, <2>6
<1>9. w = h \o rest
  <2>1. x \in Words
    <3>1. Regroups(h, m, u, g, e)
      BY <1>3, <1>5, Regrouped
    <3>2. QED
      BY <3>1 DEF Regroups
  <2> HIDE DEF x
  <2>2. Regroups(x, s, at, mt, k)
    BY <1>3, <1>4, <2>1, Regrouped
  <2> HIDE DEF samk
  <2>3. Regroups(h, m, u, g, samk)
    BY <1>3, <1>5, <1>8, Regrouped
  <2>4. w = x \o samk
    BY <1>6, <2>2 DEF Regroups, x, samk
  <2>5. QED
    BY <2>3, <2>4 DEF Regroups, x
<1> HIDE DEF mk, amk, samk, gs, ugs, rest
<1>10. w \in Words /\ Len(w) = 2 + Len(rest) /\ Len(rest) \in Nat /\ w[1] = 1 /\ GetReader(w, 2) = rest
  <2> DEFINE v == h \o rest
  <2>1. /\ v \in Words /\ Len(v) = Len(h) + Len(rest) /\ Len(rest) \in Nat
        /\ \A i \in 1 .. Len(h) : v[i] = h[i]
        /\ GetReader(v, Len(h)) = rest
    BY <1>5, <1>8, Cut
  <2>2. w = v
    BY <1>9
  <2> HIDE DEF v
  <2>3. QED
    BY <1>5, <2>1, <2>2
<1>11. OpaqueSize(w, 0) = 1 /\ AttributesOf(w) = rest
  <2>1. OpaqueSize(w, 0) = 1
    BY <1>10 DEF OpaqueSize, HasSize, Get
  <2>2. QED
    BY <1>10, <2>1 DEF AttributesOf
<1> DEFINE o0 == 0
           o1 == Behind(rest, o0, 1)
           o2 == Behind(rest, o1, 1)
           o3 == Behind(rest, o2, 1)
           o4 == Behind(rest, o3, 2)
           o5 == o4 + TimeSize(rest, o4)
           o6 == o5 + TimeSize(rest, o5)
           o7 == Behind(rest, o6, 2)
<1>12. Offsets(rest) = [uid |-> o1, gid |-> o2, size |-> o3, atime |-> o4, mtime |-> o5, end |-> o6]
  BY DEF Offsets
<1>13. Reads(rest, o0, rest)
  BY <1>8, <1>10 DEF Reads, Words
<1> HIDE DEF o0, o1, o2, o3, o4, o5, o6, o7
<1>14. FieldIsRead(rest, o0, 1, args.mode, ugs) /\ Reads(rest, o1, ugs)
  <2>1. Reads(rest, o0, Optional(args.mode) \o ugs)
    BY <1>13 DEF rest, m
  <2>2. FieldIsRead(rest, o0, 1, args.mode, ugs)
    BY <1>1, <1>2, <1>8, <2>1, FieldRead
  <2>3. QED
    BY <2>2 DEF FieldIsRead, o1
<1>15. FieldIsRead(rest, o1, 1, args.uid, gs) /\ Reads(rest, o2, gs)
  <2>1. Reads(rest, o1, Optional(args.uid) \o gs)
    BY <1>14 DEF ugs, u
  <2>2. FieldIsRead(rest, o1, 1, args.uid, gs)
    BY <1>1, <1>2, <1>8, <2>1, FieldRead
  <2>3. QED
    BY <2>2 DEF FieldIsRead, o2
<1>16. FieldIsRead(rest, o2, 1, args.gid, samk) /\ Reads(rest, o3, samk)
  <2>1. Reads(rest, o2, Optional(args.gid) \o samk)
    BY <1>15 DEF gs, g
  <2>2. FieldIsRead(rest, o2, 1, args.gid, samk)
    BY <1>1, <1>2, <1>8, <2>1, FieldRead
  <2>3. QED
    BY <2>2 DEF FieldIsRead, o3
<1>17. FieldIsRead(rest, o3, 2, args.size, amk) /\ Reads(rest, o4, amk)
  <2>1. Reads(rest, o3, Optional(args.size) \o amk)
    BY <1>16 DEF samk, s
  <2>2. FieldIsRead(rest, o3, 2, args.size, amk)
    BY <1>1, <1>2, <1>8, <2>1, FieldRead
  <2>3. QED
    BY <2>2 DEF FieldIsRead, o4
<1>18. TimeIsRead(rest, o4, args.atime, mk) /\ Reads(rest, o5, mk)
  <2>1. Reads(rest, o4, Time(args.atime) \o mk)
    BY <1>17 DEF amk, at
  <2>2. TimeIsRead(rest, o4, args.atime, mk)
    BY <1>1, <1>8, <2>1, TimeRead
  <2>3. QED
    BY <2>2 DEF TimeIsRead, o5
<1>19. TimeIsRead(rest, o5, args.mtime, k) /\ Reads(rest, o6, k)
  <2>1. Reads(rest, o5, Time(args.mtime) \o k)
    BY <1>18 DEF mk, mt
  <2>2. TimeIsRead(rest, o5, args.mtime, k)
    BY <1>1, <1>3, <2>1, TimeRead
  <2>3. QED
    BY <2>2 DEF TimeIsRead, o6
<1>20. FieldIsRead(rest, o6, 2, args.check, e) /\ Reads(rest, o7, e)
  <2>1. Reads(rest, o6, k \o e)
    BY <1>7, <1>19
  <2>2. Reads(rest, o6, Optional(args.check) \o e)
    BY <2>1 DEF k
  <2>3. FieldIsRead(rest, o6, 2, args.check, e)
    BY <1>1, <1>2, <1>5, <2>2, FieldRead
  <2>4. QED
    BY <2>3 DEF FieldIsRead, o7
<1>21. ValidSetAttrArgs(w)
  <2>1. Len(rest) >= o6
    BY <1>3, <1>19 DEF Reads, Words
  <2>2. Len(rest) >= o7
    BY <1>5, <1>20 DEF Reads, Words
  <2>3. ValidSetAttr(rest)
    BY <1>12, <2>1 DEF ValidSetAttr, HasSize
  <2>4. HasSize(rest, Behind(rest, Offsets(rest).end, 2))
    BY <1>12, <2>2 DEF HasSize, o7
  <2>5. QED
    BY <1>11, <2>3, <2>4 DEF ValidSetAttrArgs
<1> DEFINE Taken(o, n) == IF Has(rest, 0) THEN SubSeq(rest, o + 2, o + 1 + n) ELSE <<>>
           got == [attributes |-> [mode |-> Taken(0, 1), uid |-> Taken(o1, 1), gid |-> Taken(o2, 1),
                                   size |-> Taken(o3, 2), atime |-> ReadTime(rest, o4),
                                   mtime |-> ReadTime(rest, o5)],
                   check |-> IF Has(rest, o6) THEN <<Get(rest, o6 + 1), Get(rest, o6 + 2)>> ELSE <<>>]
<1>22. ReadSetAttrArgs(w) = got
  BY <1>11, <1>12 DEF ReadSetAttrArgs, ReadSetAttr
<1>23. Has(rest, 0) <=> args.mode # <<>>
  BY <1>14 DEF FieldIsRead, o0
<1>24. got.attributes.mode = args.mode
  BY <1>14, <1>23 DEF FieldIsRead, o0
<1>25. got.attributes.atime = args.atime /\ got.attributes.mtime = args.mtime
  BY <1>18, <1>19 DEF TimeIsRead
<1>26. got.check = args.check
  <2>1. CASE args.check = <<>>
    BY <1>20, <2>1 DEF FieldIsRead
  <2>2. CASE args.check # <<>>
    <3>1. args.check \in [1 .. 2 -> Nat]
      BY <1>1, <2>2 DEF Field
    <3>2. args.check = <<args.check[1], args.check[2]>>
      BY <3>1
    <3>3. Has(rest, o6) /\ Get(rest, o6 + 1) = args.check[1] /\ Get(rest, o6 + 2) = args.check[2]
      BY <1>20, <2>2 DEF FieldIsRead
    <3>4. QED
      BY <3>2, <3>3
  <2>3. QED
    BY <2>1, <2>2
<1>27. args.mode = <<>> =>
         /\ got.attributes.uid = <<>> /\ got.attributes.gid = <<>> /\ got.attributes.size = <<>>
  BY <1>23
<1>28. args.mode # <<>> =>
         /\ args.uid # <<>> => got.attributes.uid = args.uid
         /\ args.gid # <<>> => got.attributes.gid = args.gid
         /\ args.size # <<>> => got.attributes.size = args.size
  BY <1>15, <1>16, <1>17, <1>23 DEF FieldIsRead
<1>29. Has(rest, 0) => Len(SubSeq(rest, o3 + 2, o3 + 1 + 2)) = 2
  <2>1. Len(rest) >= o3 + 1 + Len(amk) /\ o3 \in Nat
    BY <1>16, <1>17 DEF FieldIsRead, Reads
  <2>2. Len(amk) >= 2
    <3>1. Len(amk) = Len(at) + Len(mk) /\ Len(mk) = Len(mt) + Len(k)
      BY <1>3, <1>4, <1>8, Cut DEF amk, mk
    <3>2. Len(at) >= 1 /\ Len(mt) >= 1
      BY <1>1, TimeIs DEF at, mt
    <3>3. Len(at) \in Nat /\ Len(mt) \in Nat /\ Len(k) \in Nat
      BY <1>3, <1>4 DEF Words
    <3>4. QED
      BY <3>1, <3>2, <3>3
  <2>3. Len(rest) >= o3 + 1 + 2
    BY <1>8, <1>10, <2>1, <2>2 DEF Words
  <2>4. QED
    BY <1>2, <1>8, <2>1, <2>3, Piece
<1>30. got.attributes.size # <<>> => Len(got.attributes.size) = 2
  BY <1>29
<1>31. SentRead(args, got)
  BY <1>24, <1>25, <1>26, <1>27, <1>28, <1>30 DEF SentRead
<1>32. w # <<>>
  BY <1>10
<1>33. QED
  BY <1>10, <1>21, <1>22, <1>31, <1>32 DEF w

\* Whatever precedes it, an offset grows by one at least.
LEMMA BehindGrows ==
  ASSUME NEW w, NEW o \in Nat, NEW n \in Nat
  PROVE  /\ Behind(w, o, n) \in Nat /\ Behind(w, o, n) >= o + 1
         /\ TimeSize(w, o) \in Nat /\ TimeSize(w, o) >= 1
BY DEF Behind, TimeSize

\* Fewer than nine words, or no handle, are no arguments of SETATTR.
LEMMA ShortArguments ==
  ASSUME NEW w \in Words, Len(w) < 9 \/ w[1] = 0
  PROVE  ~ValidSetAttrArgs(w)
<1> SUFFICES ASSUME ValidSetAttrArgs(w) PROVE FALSE
  OBVIOUS
<1> DEFINE rest == AttributesOf(w)
           o1 == Behind(rest, 0, 1)
           o2 == Behind(rest, o1, 1)
           o3 == Behind(rest, o2, 1)
           o4 == Behind(rest, o3, 2)
           o5 == o4 + TimeSize(rest, o4)
           o6 == o5 + TimeSize(rest, o5)
           o7 == Behind(rest, o6, 2)
<1>1. Len(w) \in Nat
  BY DEF Words
<1>2. /\ OpaqueSize(w, 0) # 0 /\ Len(rest) >= o7
  <2>1. Offsets(rest).end = o6
    BY DEF Offsets
  <2> HIDE DEF rest
  <2>2. QED
    BY <2>1 DEF ValidSetAttrArgs, HasSize, rest
<1>3. Len(w) >= 1 /\ OpaqueSize(w, 0) = w[1] /\ w[1] # 0 /\ Len(w) < 9
  BY <1>1, <1>2 DEF OpaqueSize, HasSize, Get
<1>4. w[1] \in Nat
  BY <1>1, <1>3 DEF Words
<1>5. Len(rest) <= 6 /\ Len(rest) \in Nat
  <2> DEFINE m == 1 + w[1] + 1
             k == Len(w)
  <2>1. m \in Int /\ k \in Int /\ m >= 3 /\ k < 9 /\ k >= 0
    BY <1>1, <1>3, <1>4
  <2>2. \A i \in m .. k : w[i] \in Nat
    BY <1>4 DEF Words
  <2>3. rest = SubSeq(w, m, k)
    BY <1>3 DEF AttributesOf, GetReader
  <2> HIDE DEF m, k, rest
  <2>4. Len(rest) = IF m <= k THEN k - m + 1 ELSE 0
    BY <2>1, <2>2, <2>3, SubSeqProperties
  <2>5. QED
    BY <2>1, <2>4
<1> HIDE DEF rest
<1>6. o1 \in Nat /\ o1 >= 1
  <2>1. o1 \in Nat /\ o1 >= 0 + 1
    <3>1. 0 \in Nat /\ 1 \in Nat
      OBVIOUS
    <3>2. QED
      BY <3>1, BehindGrows
  <2> HIDE DEF o1
  <2>2. QED
    BY <2>1
<1> HIDE DEF o1
<1>7. o2 \in Nat /\ o2 >= 2
  <2>1. o2 \in Nat /\ o2 >= o1 + 1
    BY <1>6, BehindGrows
  <2> HIDE DEF o2
  <2>2. QED
    BY <1>6, <2>1
<1> HIDE DEF o2
<1>8. o3 \in Nat /\ o3 >= 3
  <2>1. o3 \in Nat /\ o3 >= o2 + 1
    BY <1>7, BehindGrows
  <2> HIDE DEF o3
  <2>2. QED
    BY <1>7, <2>1
<1> HIDE DEF o3
<1>9. o4 \in Nat /\ o4 >= 4
  <2>1. o4 \in Nat /\ o4 >= o3 + 1
    BY <1>8, BehindGrows
  <2> HIDE DEF o4
  <2>2. QED
    BY <1>8, <2>1
<1> HIDE DEF o4
<1>10. o5 \in Nat /\ o5 >= 5
  <2> DEFINE t == TimeSize(rest, o4)
  <2>1. t \in Nat /\ t >= 1
    <3>1. 0 \in Nat
      OBVIOUS
    <3>2. QED
      BY <1>9, <3>1, BehindGrows
  <2> HIDE DEF t
  <2>2. o4 + t \in Nat /\ o4 + t >= 5
    BY <1>9, <2>1
  <2>3. QED
    BY <2>2 DEF t
<1> HIDE DEF o5
<1>11. o6 \in Nat /\ o6 >= 6
  <2> DEFINE t == TimeSize(rest, o5)
  <2>1. t \in Nat /\ t >= 1
    <3>1. 0 \in Nat
      OBVIOUS
    <3>2. QED
      BY <1>10, <3>1, BehindGrows
  <2> HIDE DEF t
  <2>2. o5 + t \in Nat /\ o5 + t >= 6
    BY <1>10, <2>1
  <2>3. QED
    BY <2>2 DEF t
<1> HIDE DEF o6
<1>12. o7 \in Nat /\ o7 >= 7
  <2>1. o7 \in Nat /\ o7 >= o6 + 1
    BY <1>11, BehindGrows
  <2> HIDE DEF o7
  <2>2. QED
    BY <1>11, <2>1
<1> HIDE DEF o7
<1>13. QED
  BY <1>2, <1>5, <1>12

-----------------------------------------------------------------------------
(* The arguments. *)

SentMapping(args) ==
  [program |-> args.program, version |-> args.version, protocol |-> args.protocol,
   port |-> args.port]

\* A mapping is read as it was sent.
LEMMA MappingRead ==
  ASSUME NEW args \in Arguments, args.kind = "mapping"
  PROVE  /\ Params(args) \in Words /\ Params(args) # <<>>
         /\ HasMapping(Params(args)) /\ read_mapping(Params(args)) = SentMapping(args)
         /\ SentMapping(args) \in Registration
         /\ ~ValidSetAttrArgs(Params(args))
<1> DEFINE w == Params(args)
<1>1. args.program \in Nat /\ args.version \in Nat /\ args.protocol \in Nat /\ args.port \in Nat
  BY DEF Arguments
<1>2. w = <<args.program, args.version, args.protocol, args.port>>
  BY DEF Params
<1> HIDE DEF w
<1>3. /\ w \in Words /\ Len(w) = 4
      /\ w[1] = args.program /\ w[2] = args.version /\ w[3] = args.protocol /\ w[4] = args.port
  BY <1>1, <1>2 DEF Words
<1>4. HasMapping(w)
  BY <1>3 DEF HasMapping, HasSize
<1>5. read_mapping(w) = SentMapping(args)
  BY <1>3 DEF read_mapping, Get, SentMapping
<1>6. ~ValidSetAttrArgs(w)
  <2>1. Len(w) < 9
    BY <1>3
  <2>2. QED
    BY <1>3, <2>1, ShortArguments
<1>7. SentMapping(args) \in Registration
  BY <1>1 DEF SentMapping, Registration
<1>8. w # <<>>
  <2>1. Len(w) = 4
    BY <1>3
  <2>2. QED
    BY <2>1
<1>9. QED
  BY <1>3, <1>4, <1>5, <1>6, <1>7, <1>8 DEF w

\* Words that are no arguments of the procedure are found invalid.
LEMMA StrangeRead ==
  ASSUME NEW c \in Calls, c.args.kind = "words"
  PROVE  /\ Params(c.args) = c.args.words /\ c.args.words \in Words
         /\ c.server = "portmap" => ~HasMapping(c.args.words)
         /\ c.server # "portmap" => ~ValidSetAttrArgs(c.args.words)
<1> DEFINE w == c.args.words
<1>1. c \in Call /\ Strange(c)
  BY ServicesAssumption
<1>2. w \in Words /\ Len(w) \in Nat
  BY <1>1 DEF Call, Arguments, Words
<1>3. Params(c.args) = w
  BY DEF Params
<1>4. Len(w) < 4 \/ (c.server # "portmap" /\ (Len(w) < 9 \/ w[1] = 0))
  BY <1>1 DEF Strange
<1> HIDE DEF w
<1>5. ASSUME c.server = "portmap" PROVE ~HasMapping(w)
  BY <1>2, <1>4, <1>5 DEF HasMapping, HasSize
<1>6. ASSUME c.server # "portmap" PROVE ~ValidSetAttrArgs(w)
  <2>1. Len(w) < 9 \/ w[1] = 0
    BY <1>2, <1>4
  <2>2. QED
    BY <1>2, <2>1, ShortArguments
<1>7. QED
  BY <1>2, <1>3, <1>5, <1>6 DEF w

LEMMA ParamsAre == ASSUME NEW c \in Calls PROVE c \in Call /\ Params(c.args) \in Words
<1>1. c \in Call /\ c.args \in Arguments
  BY ServicesAssumption DEF Call
<1>2. c.args.kind = "words" \/ c.args.kind = "mapping" \/ c.args.kind = "setattr"
  BY <1>1 DEF Arguments
<1>3. QED
  BY <1>1, <1>2, StrangeRead, MappingRead, SetAttrRead

-----------------------------------------------------------------------------
(* What a call does. *)

Refusing == taken' = None /\ UNCHANGED <<store, file>>

Attributing(c) ==
  /\ c.server = "nfs" /\ c.args.kind = "setattr"
  /\ SentRead(c.args, taken')
  /\ UNCHANGED store
  /\ file' = file \/ Len(file') = 2

Registering(c) ==
  LET m == SentMapping(c.args)
  IN /\ c.server = "portmap" /\ c.args.kind = "mapping"
     /\ taken' = m
     /\ UNCHANGED file
     /\ \/ /\ c.procedure = 1 /\ Len(store) < MaxSets /\ m.port \in {TCP, UDP}
           /\ store' = set(store, m)
           /\ reply'.result = Flag(set(store, m) # store)
        \/ /\ c.procedure = 2 /\ m.port \in {TCP, UDP}
           /\ store' = unset(store, m)
           /\ reply'.result = Flag(unset(store, m) # store)
        \/ /\ c.procedure = 3
           /\ UNCHANGED store
           /\ reply'.result = get_port(store, m)

Done(c) == Refusing \/ Attributing(c) \/ Registering(c)

Judged(c) == reply'.stat = IF Fits(c) THEN "SUCCESS" ELSE "GARBAGE_ARGS"

Kinds(args) == args.kind = "words" \/ args.kind = "mapping" \/ args.kind = "setattr"

LEMMA GarbageDone ==
  ASSUME NEW c, Garbage, ~Fits(c)
  PROVE  Done(c) /\ Judged(c)
BY DEF Garbage, Answer, Done, Refusing, Judged

\* NULL.
LEMMA NullDone ==
  ASSUME NEW c \in Calls, c.procedure = 0, Null(Params(c.args))
  PROVE  Done(c) /\ Judged(c)
<1>1. c.args \in Arguments /\ Kinds(c.args)
  BY ServicesAssumption DEF Call, Arguments, Kinds
<1>2. Fits(c) <=> Params(c.args) = <<>>
  <2>1. CASE c.args.kind = "words"
    BY <2>1, StrangeRead DEF Fits
  <2>2. CASE c.args.kind = "mapping"
    BY <1>1, <2>2, MappingRead DEF Fits
  <2>3. CASE c.args.kind = "setattr"
    BY <1>1, <2>3, SetAttrRead DEF Fits
  <2>4. QED
    BY <1>1, <2>1, <2>2, <2>3 DEF Kinds
<1>3. CASE Params(c.args) = <<>>
  <2>1. reply' = [stat |-> "SUCCESS", result |-> 0] /\ taken' = None /\ UNCHANGED <<store, file>>
    BY <1>3 DEF Null, Answer
  <2>2. QED
    BY <1>2, <1>3, <2>1 DEF Done, Refusing, Judged
<1>4. CASE Params(c.args) # <<>>
  BY <1>2, <1>4, GarbageDone DEF Null
<1>5. QED
  BY <1>3, <1>4

\* SETATTR.
LEMMA SetAttrDone ==
  ASSUME NEW c \in Calls, c.server = "nfs", c.procedure = 2, SetAttr(Params(c.args))
  PROVE  Done(c) /\ Judged(c)
<1> DEFINE w == Params(c.args)
<1>1. c.args \in Arguments /\ Kinds(c.args)
  BY ServicesAssumption DEF Call, Arguments, Kinds
<1>2. Fits(c) <=> c.args.kind = "setattr"
  BY DEF Fits
<1>3. CASE c.args.kind = "setattr"
  <2>1. ValidSetAttrArgs(w) /\ SentRead(c.args, ReadSetAttrArgs(w))
    BY <1>1, <1>3, SetAttrRead
  <2> DEFINE got == ReadSetAttrArgs(w)
             size == got.attributes.size
             resized == IF size = <<>> THEN file ELSE size
  <2>2. /\ taken' = got /\ store' = store /\ reply'.stat = "SUCCESS"
        /\ file' = resized \/ file' \in {file, resized}
    BY <2>1 DEF SetAttr, Answer
  <2>3. size = <<>> \/ Len(size) = 2
    BY <2>1 DEF SentRead
  <2> HIDE DEF got
  <2>4. file' = file \/ Len(file') = 2
    BY <2>2, <2>3
  <2>5. SentRead(c.args, taken')
    BY <2>1, <2>2 DEF got
  <2>6. QED
    BY <1>2, <1>3, <2>2, <2>4, <2>5 DEF Done, Attributing, Judged
<1>4. CASE c.args.kind # "setattr"
  <2>1. ~ValidSetAttrArgs(w)
    BY <1>1, <1>4, StrangeRead, MappingRead DEF Kinds
  <2>2. QED
    BY <1>2, <1>4, <2>1, GarbageDone DEF SetAttr
<1>5. QED
  BY <1>3, <1>4

\* SET, UNSET and GETPORT.
LEMMA PortmapDone ==
  ASSUME NEW c \in Calls, c.server = "portmap",
         \/ /\ c.procedure = 1 /\ Len(store) < MaxSets
            /\ Change(Params(c.args), set(store, read_mapping(Params(c.args))))
         \/ c.procedure = 2 /\ Change(Params(c.args), unset(store, read_mapping(Params(c.args))))
         \/ c.procedure = 3 /\ GetPort(Params(c.args))
  PROVE  Done(c) /\ Judged(c)
<1> DEFINE w == Params(c.args)
           m == SentMapping(c.args)
<1>1. c.args \in Arguments /\ Kinds(c.args) /\ c.args.kind # "setattr"
  BY ServicesAssumption DEF Call, Arguments, Kinds
<1>2. CASE c.args.kind = "words"
  <2>1. ~HasMapping(w)
    BY <1>2, StrangeRead
  <2>2. ~Fits(c)
    BY <1>2 DEF Fits
  <2>3. Garbage
    BY <2>1 DEF Change, GetPort
  <2>4. QED
    BY <2>2, <2>3, GarbageDone
<1>3. CASE c.args.kind = "mapping"
  <2>1. HasMapping(w) /\ read_mapping(w) = m
    BY <1>1, <1>3, MappingRead
  <2>2. m.port = c.args.port
    BY DEF SentMapping
  <2> HIDE DEF m
  <2>3. CASE c.procedure = 3
    <3>1. GetPort(w)
      BY <2>3
    <3>2. /\ reply' = [stat |-> "SUCCESS", result |-> get_port(store, m)]
          /\ taken' = m /\ UNCHANGED <<store, file>>
      BY <2>1, <3>1 DEF GetPort, Answer
    <3>3. Fits(c)
      BY <1>3, <2>3 DEF Fits
    <3>4. Registering(c)
      BY <1>3, <2>3, <3>2 DEF Registering, m
    <3>5. QED
      BY <3>2, <3>3, <3>4 DEF Done, Judged
  <2>4. CASE c.procedure # 3 /\ m.port \notin {TCP, UDP}
    <3>1. Garbage
      BY <2>1, <2>4 DEF Change
    <3>2. ~Fits(c)
      BY <2>2, <2>4 DEF Fits
    <3>3. QED
      BY <3>1, <3>2, GarbageDone
  <2>5. CASE c.procedure = 1 /\ m.port \in {TCP, UDP}
    <3>1. Len(store) < MaxSets /\ Change(w, set(store, m))
      BY <2>1, <2>5
    <3>2. /\ reply' = [stat |-> "SUCCESS", result |-> Flag(set(store, m) # store)]
          /\ taken' = m /\ store' = set(store, m) /\ UNCHANGED file
      BY <2>1, <2>5, <3>1 DEF Change, Answer
    <3>3. Fits(c)
      BY <1>3, <2>2, <2>5 DEF Fits
    <3>4. Registering(c)
      BY <1>3, <2>5, <3>1, <3>2 DEF Registering, m
    <3>5. QED
      BY <3>2, <3>3, <3>4 DEF Done, Judged
  <2>6. CASE c.procedure = 2 /\ m.port \in {TCP, UDP}
    <3>1. Change(w, unset(store, m))
      BY <2>1, <2>6
    <3>2. /\ reply' = [stat |-> "SUCCESS", result |-> Flag(unset(store, m) # store)]
          /\ taken' = m /\ store' = unset(store, m) /\ UNCHANGED file
      BY <2>1, <2>6, <3>1 DEF Change, Answer
    <3>3. Fits(c)
      BY <1>3, <2>2, <2>6 DEF Fits
    <3>4. Registering(c)
      BY <1>3, <2>6, <3>2 DEF Registering, m
    <3>5. QED
      BY <3>2, <3>3, <3>4 DEF Done, Judged
  <2>7. QED
    BY <2>3, <2>4, <2>5, <2>6
<1>4. QED
  BY <1>1, <1>2, <1>3 DEF Kinds

\* A call that gets as far as its procedure.
LEMMA RunDone ==
  ASSUME NEW c \in Calls, c.procedure \in Offers[c.server].procedures,
         Run(At(TableFor(c.server), c.procedure).name, Params(c.args))
  PROVE  Done(c) /\ Judged(c)
<1> DEFINE name == At(TableFor(c.server), c.procedure).name
           w == Params(c.args)
           server == c.server
           p == c.procedure
<1>1. c \in Call /\ p \in Nat /\ server \in Servers
  BY ServicesAssumption DEF Call, Servers
<1>2. /\ name = "NULL" <=> p = 0
      /\ name = "SET" <=> server = "portmap" /\ p = 1
      /\ name = "UNSET" <=> server = "portmap" /\ p = 2
      /\ name = "GETPORT" <=> server = "portmap" /\ p = 3
      /\ name = "SETATTR" <=> server = "nfs" /\ p = 2
  BY <1>1, AllOffered DEF Offered
<1> HIDE DEF name
<1>3. CASE name = "NULL" /\ Null(w)
  BY <1>2, <1>3, NullDone
<1>4. CASE name = "SET" /\ Len(store) < MaxSets /\ Change(w, set(store, read_mapping(w)))
  BY <1>2, <1>4, PortmapDone
<1>5. CASE name = "UNSET" /\ Change(w, unset(store, read_mapping(w)))
  BY <1>2, <1>5, PortmapDone
<1>6. CASE name = "GETPORT" /\ GetPort(w)
  BY <1>2, <1>6, PortmapDone
<1>7. CASE name = "SETATTR" /\ SetAttr(w)
  BY <1>2, <1>7, SetAttrDone
<1>8. Run(name, w)
  BY DEF name
<1>9. QED
  BY <1>3, <1>4, <1>5, <1>6, <1>7, <1>8 DEF Run

\* Every call: what it does and how it is answered.
LEMMA CallDone ==
  ASSUME NEW c \in Calls, HandleCall(c)
  PROVE  /\ asked = None /\ asked' = c
         /\ Done(c)
         /\ reply'.stat = Expected(c)
         /\ reply'.stat = "PROG_MISMATCH" =>
              reply'.low = Offers[c.server].version /\ reply'.high = reply'.low
<1> DEFINE answer == handle(Programs[c.server], Message(c))
           offer == Offers[c.server]
           versioned == c.program = offer.program /\ c.version = offer.version
           offered == versioned /\ c.procedure \in offer.procedures
<1>1. c \in Call /\ Heard(c, answer)
  BY ParamsAre, Understood
<1>2. asked = None /\ asked' = c
  BY DEF HandleCall
<1>3. /\ answer.stat = "call" => Run(answer.name, answer.parameters)
      /\ answer.stat # "call" => reply' = answer /\ Refusing
  BY DEF HandleCall, Refusing
<1> HIDE DEF answer
<1>4. c.whole \in BOOLEAN
  BY <1>1 DEF Call
<1>5. CASE ~c.whole
  <2>1. answer = Silence
    BY <1>1, <1>5 DEF Heard
  <2>2. answer.stat = "none"
    BY <2>1 DEF Silence
  <2>3. Expected(c) = "none"
    BY <1>5 DEF Expected
  <2>4. QED
    BY <1>2, <1>3, <2>2, <2>3 DEF Done
<1>6. CASE c.whole /\ c.rpcvers # VERSION
  <2>1. answer = Rejected
    BY <1>1, <1>6 DEF Heard
  <2>2. answer.stat = "RPC_MISMATCH"
    BY <2>1 DEF Rejected
  <2>3. Expected(c) = "RPC_MISMATCH"
    BY <1>6 DEF Expected
  <2>4. QED
    BY <1>2, <1>3, <2>2, <2>3 DEF Done
<1>7. CASE c.whole /\ c.rpcvers = VERSION
  <2>1. Expected(c) = IF c.program # offer.program THEN "PROG_UNAVAIL"
                      ELSE IF c.version # offer.version THEN "PROG_MISMATCH"
                      ELSE IF c.procedure \notin offer.procedures THEN "PROC_UNAVAIL"
                      ELSE IF Fits(c) THEN "SUCCESS" ELSE "GARBAGE_ARGS"
    BY <1>7 DEF Expected
  <2>2. CASE c.program # offer.program
    <3>1. answer = Accepted("PROG_UNAVAIL")
      BY <1>1, <1>7, <2>2 DEF Heard
    <3>2. answer.stat = "PROG_UNAVAIL"
      BY <3>1 DEF Accepted
    <3>3. QED
      BY <1>2, <1>3, <2>1, <2>2, <3>2 DEF Done
  <2>3. CASE c.program = offer.program /\ ~versioned
    <3>1. answer = [stat |-> "PROG_MISMATCH", low |-> offer.version, high |-> offer.version]
      BY <1>1, <1>7, <2>3 DEF Heard
    <3>2. QED
      BY <1>2, <1>3, <2>1, <2>3, <3>1 DEF Done
  <2>4. CASE versioned /\ ~offered
    <3>1. answer = Accepted("PROC_UNAVAIL")
      BY <1>1, <1>7, <2>4 DEF Heard
    <3>2. answer.stat = "PROC_UNAVAIL"
      BY <3>1 DEF Accepted
    <3>3. QED
      BY <1>2, <1>3, <2>1, <2>4, <3>2 DEF Done
  <2>5. CASE offered
    <3>1. answer = [stat |-> "call", name |-> At(TableFor(c.server), c.procedure).name,
                    parameters |-> Params(c.args)]
      BY <1>1, <1>7, <2>5 DEF Heard
    <3>2. Run(At(TableFor(c.server), c.procedure).name, Params(c.args))
      BY <1>3, <3>1
    <3>3. Done(c) /\ Judged(c)
      BY <2>5, <3>2, RunDone
    <3>4. reply'.stat = Expected(c) /\ reply'.stat # "PROG_MISMATCH"
      BY <2>1, <2>5, <3>3 DEF Judged
    <3>5. QED
      BY <1>2, <3>3, <3>4
  <2>6. QED
    BY <2>2, <2>3, <2>4, <2>5
<1>8. QED
  BY <1>4, <1>5, <1>6, <1>7

-----------------------------------------------------------------------------
(* The registrations and the types. *)

ServicesInv == store \in Seq(Registration) /\ ServicesTypeOK

\* The ports of a list are its own or, from SET, protocols.
Ported(list) == \A i \in 1 .. Len(list) : list[i].port \in {TCP, UDP} \/ list[i] \in Range(Started)

LEMMA ServicesInvIs ==
  ServicesInv <=>
    /\ store \in Seq(Registration) /\ Once(store) /\ Ported(store)
    /\ Len(store) <= MaxSets
    /\ Len(file) = 2
    /\ asked \in Calls \cup {None}
<1>1. store \in Seq(Registration) => DOMAIN store = 1 .. Len(store)
  OBVIOUS
<1>2. QED
  BY <1>1 DEF ServicesInv, ServicesTypeOK, Once, Ported

LEMMA SetKeeps ==
  ASSUME NEW list \in Seq(Registration), Once(list), Ported(list),
         NEW m \in Registration, m.port \in {TCP, UDP}
  PROVE  /\ set(list, m) \in Seq(Registration) /\ Once(set(list, m)) /\ Ported(set(list, m))
         /\ Len(set(list, m)) <= Len(list) + 1
         /\ set(list, m) # list <=> find(list, m) = 0
<1>1. CASE find(list, m) # 0
  BY <1>1 DEF set
<1>2. CASE find(list, m) = 0
  <2> DEFINE longer == Append(list, m)
             n == Len(list)
  <2>1. set(list, m) = longer
    BY <1>2 DEF set
  <2>2. Once(longer)
    BY <1>2, PortsAdded
  <2>3. /\ longer \in Seq(Registration) /\ n \in Nat /\ Len(longer) = n + 1
        /\ longer[n + 1] = m
        /\ \A i \in 1 .. n : longer[i] = list[i]
    OBVIOUS
  <2> HIDE DEF longer, n
  <2>4. ASSUME NEW i \in 1 .. n + 1
        PROVE  longer[i].port \in {TCP, UDP} \/ longer[i] \in Range(Started)
    <3>1. CASE i = n + 1
      BY <2>3, <3>1
    <3>2. CASE i # n + 1
      <4>1. i \in 1 .. n
        BY <2>3, <3>2
      <4>2. QED
        BY <2>3, <4>1 DEF Ported, n
    <3>3. QED
      BY <3>1, <3>2
  <2>5. longer # list
    <3>1. Len(longer) # Len(list)
      BY <2>3 DEF n
    <3>2. QED
      BY <3>1
  <2>6. QED
    BY <1>2, <2>1, <2>2, <2>3, <2>4, <2>5 DEF Ported, n
<1>3. QED
  BY <1>1, <1>2

LEMMA UnsetKeeps ==
  ASSUME NEW list \in Seq(Registration), Once(list), Ported(list), NEW m
  PROVE  /\ unset(list, m) \in Seq(Registration) /\ Once(unset(list, m)) /\ Ported(unset(list, m))
         /\ Len(unset(list, m)) <= Len(list)
         /\ unset(list, m) # list <=> find(list, m) # 0
<1> DEFINE p == find(list, m)
<1>1. p \in 0 .. Len(list)
  BY Found
<1>2. CASE p = 0
  BY <1>2 DEF unset
<1>3. CASE p # 0
  <2> DEFINE less == RemoveAt(list, p)
             n == Len(list)
  <2>1. unset(list, m) = less
    BY <1>3 DEF unset
  <2> HIDE DEF p
  <2>2. p \in 1 .. Len(list) /\ n \in Nat
    BY <1>1, <1>3
  <2>3. /\ less \in Seq(Registration) /\ Len(less) = n - 1
        /\ \A i \in 1 .. n - 1 : less[i] = list[IF i < p THEN i ELSE i + 1]
    BY <2>2, Removed
  <2>4. Once(less)
    BY <2>2, PortsRemoved
  <2> HIDE DEF less
  <2>5. ASSUME NEW i \in 1 .. n - 1
        PROVE  less[i].port \in {TCP, UDP} \/ less[i] \in Range(Started)
    <3>1. (IF i < p THEN i ELSE i + 1) \in 1 .. n
      BY <2>2
    <3>2. QED
      BY <2>3, <3>1 DEF Ported
  <2>6. Len(less) <= n /\ Len(less) # n
    BY <2>2, <2>3
  <2>7. less # list
    BY <2>6
  <2>8. QED
    BY <1>3, <2>1, <2>3, <2>4, <2>5, <2>6, <2>7 DEF Ported, p
<1>4. QED
  BY <1>2, <1>3

LEMMA ServicesInitKeeps == ServicesInit => ServicesInv
<1> SUFFICES ASSUME ServicesInit PROVE ServicesInv
  OBVIOUS
<1>1. store = Started /\ file = <<0, 5>> /\ asked = None
  BY DEF ServicesInit
<1>2. /\ store \in Seq(Registration) /\ Once(store) /\ Len(store) = 4
  BY <1>1, StartedIs, OwnListIs
<1>3. Ported(store)
  BY <1>1 DEF Ported, Range
<1>4. Len(store) <= MaxSets
  BY <1>2, ServicesAssumption
<1>5. Len(file) = 2
  BY <1>1
<1>6. QED
  BY <1>1, <1>2, <1>3, <1>4, <1>5, ServicesInvIs

LEMMA CallKeeps ==
  ASSUME ServicesInv, NEW c \in Calls, HandleCall(c)
  PROVE  ServicesInv'
<1> DEFINE m == SentMapping(c.args)
<1>0. /\ store \in Seq(Registration) /\ Once(store) /\ Ported(store)
      /\ Len(store) <= MaxSets /\ Len(store) \in Nat /\ MaxSets \in Nat
      /\ Len(file) = 2
  BY ServicesInvIs, ServicesAssumption
<1>1. asked' = c /\ Done(c)
  BY CallDone
<1>2. asked' \in Calls \cup {None}
  BY <1>1
<1> SUFFICES /\ store' \in Seq(Registration) /\ Once(store') /\ Ported(store')
             /\ Len(store') <= MaxSets
             /\ Len(file') = 2
  <2>1. (ServicesInv <=> /\ store \in Seq(Registration) /\ Once(store) /\ Ported(store)
                         /\ Len(store) <= MaxSets
                         /\ Len(file) = 2
                         /\ asked \in Calls \cup {None})'
    BY ServicesInvIs, PTL
  <2>2. QED
    BY <1>2, <2>1
<1>3. CASE Refusing
  BY <1>0, <1>3 DEF Refusing
<1>4. CASE Attributing(c)
  BY <1>0, <1>4 DEF Attributing
<1>5. CASE Registering(c)
  <2>1. file' = file
    BY <1>5 DEF Registering
  <2>2. m \in Registration
    <3>1. c.args.kind = "mapping" /\ c.args \in Arguments
      BY <1>5, ParamsAre DEF Registering, Call
    <3>2. QED
      BY <3>1, MappingRead
  <2>3. \/ Len(store) < MaxSets /\ m.port \in {TCP, UDP} /\ store' = set(store, m)
        \/ store' = unset(store, m)
        \/ store' = store
    BY <1>5 DEF Registering
  <2> HIDE DEF m
  <2>4. CASE Len(store) < MaxSets /\ m.port \in {TCP, UDP} /\ store' = set(store, m)
    <3>1. /\ store' \in Seq(Registration) /\ Once(store') /\ Ported(store')
          /\ Len(store') <= Len(store) + 1
      BY <1>0, <2>2, <2>4, SetKeeps
    <3>2. Len(store') \in Nat
      BY <3>1
    <3>3. QED
      BY <1>0, <2>1, <2>4, <3>1, <3>2
  <2>5. CASE store' = unset(store, m)
    <3>1. /\ store' \in Seq(Registration) /\ Once(store') /\ Ported(store')
          /\ Len(store') <= Len(store)
      BY <1>0, <2>5, UnsetKeeps
    <3>2. Len(store') \in Nat
      BY <3>1
    <3>3. QED
      BY <1>0, <2>1, <3>1, <3>2
  <2>6. CASE store' = store
    BY <1>0, <2>1, <2>6
  <2>7. QED
    BY <2>3, <2>4, <2>5, <2>6
<1>6. QED
  BY <1>1, <1>3, <1>4, <1>5 DEF Done

LEMMA ServicesNextKeeps ==
  ASSUME ServicesInv, [ServicesNext]_services_vars
  PROVE  ServicesInv'
<1>1. CASE \E c \in Calls : HandleCall(c)
  BY <1>1, CallKeeps
<1>2. CASE Replied
  BY <1>2 DEF Replied, ServicesInv, ServicesTypeOK
<1>3. CASE UNCHANGED services_vars
  BY <1>3 DEF services_vars, ServicesInv, ServicesTypeOK
<1>4. QED
  BY <1>1, <1>2, <1>3 DEF ServicesNext

\* The variables of the services have values of their types: a program, version and protocol is
\* registered once, whatever SET and UNSET are called with (portmap.cpp:37-60), and the sizes
\* of a file that SETATTR leaves are whole.
THEOREM ServicesTypeCorrect == ServicesSpec => []ServicesTypeOK
<1>1. ServicesInit => ServicesInv
  BY ServicesInitKeeps
<1>2. ServicesInv /\ [ServicesNext]_services_vars => ServicesInv'
  BY ServicesNextKeeps
<1>3. ServicesInv => ServicesTypeOK
  BY DEF ServicesInv
<1>4. QED
  BY <1>1, <1>2, <1>3, PTL DEF ServicesSpec

\* Whatever the clients send, behind a credential and a verifier of any size, with any number,
\* version and procedure: the answer is the one the header calls for, and what a procedure gets
\* is what was sent, but for the uid, gid and size that SETATTR reads by its mode.
THEOREM CallsAreUnderstood == ServicesSpec => []CallsUnderstood
<1>1. ServicesInit => CallsUnderstood
  BY DEF ServicesInit, CallsUnderstood
<1>2. ASSUME CallsUnderstood, [ServicesNext]_services_vars PROVE CallsUnderstood'
  <2>1. ASSUME NEW c \in Calls, HandleCall(c) PROVE CallsUnderstood'
    <3>1. /\ asked' = c /\ Done(c) /\ reply'.stat = Expected(c)
          /\ reply'.stat = "PROG_MISMATCH" =>
               reply'.low = Offers[c.server].version /\ reply'.high = reply'.low
      BY <2>1, CallDone
    <3>2. taken' # None => TakenAsSent(c)'
      <4>1. CASE Refusing
        BY <4>1 DEF Refusing
      <4>2. CASE Attributing(c)
        <5>1. c.args.kind = "setattr" /\ SentRead(c.args, taken')
          BY <4>2 DEF Attributing
        <5>2. \A f \in {"mode", "atime", "mtime"} : taken'.attributes[f] = c.args[f]
          BY <5>1 DEF SentRead
        <5>3. \A f \in {"uid", "gid", "size"} :
                IF c.args.mode = <<>> THEN taken'.attributes[f] = <<>>
                ELSE c.args[f] # <<>> => taken'.attributes[f] = c.args[f]
          BY <5>1 DEF SentRead
        <5>4. taken'.check = c.args.check
          BY <5>1 DEF SentRead
        <5>5. QED
          BY <5>1, <5>2, <5>3, <5>4 DEF TakenAsSent
      <4>3. CASE Registering(c)
        <5>1. c.args.kind = "mapping" /\ taken' = SentMapping(c.args)
          BY <4>3 DEF Registering
        <5>2. \A f \in DOMAIN SentMapping(c.args) : SentMapping(c.args)[f] = c.args[f]
          BY DEF SentMapping
        <5>3. QED
          BY <5>1, <5>2 DEF TakenAsSent
      <4>4. QED
        BY <3>1, <4>1, <4>2, <4>3 DEF Done
    <3>3. Expected(asked') = Expected(c) /\ (TakenAsSent(asked) <=> TakenAsSent(c))'
      BY <3>1
    <3>4. QED
      BY <3>1, <3>2, <3>3 DEF CallsUnderstood
  <2>2. CASE Replied
    BY <2>2 DEF Replied, CallsUnderstood
  <2>3. CASE UNCHANGED services_vars
    BY <1>2, <2>3 DEF services_vars, CallsUnderstood, TakenAsSent
  <2>4. QED
    BY <1>2, <2>1, <2>2, <2>3 DEF ServicesNext
<1>3. QED
  BY <1>1, <1>2, PTL DEF ServicesSpec

-----------------------------------------------------------------------------
(* The abstract portmapper. *)

OwnPorts == [k \in {MOUNT, NFS} \X {3} \X {TCP, UDP} |-> IF k[1] = NFS THEN 2049 ELSE 1058]

\* The answer that the abstract portmapper sees.
Seen(got, call, answer) ==
  IF got # None /\ call.server = "portmap"
  THEN [proc |-> <<"SET", "UNSET", "GETPORT">>[call.procedure],
        key |-> KeyOf(got), result |-> answer.result]
  ELSE [proc |-> "none"]

PortsOfKeys(list, keys) ==
  [k \in keys |-> list[find(list, [program |-> k[1], version |-> k[2], protocol |-> k[3]])].port]

LEMMA PortsAreOfKeys ==
  ASSUME NEW list \in Seq(Registration)
  PROVE  PortsOfKeys(list, {KeyOf(list[i]) : i \in DOMAIN list}) = Ports(list)
<1>1. DOMAIN list = 1 .. Len(list)
  OBVIOUS
<1>2. QED
  BY <1>1 DEF PortsOfKeys, Ports, KeysIn, Asked

\* At the start it has the registrations of the program.
LEMMA OwnPortsIs == Ports(OwnList) = OwnPorts
<1> DEFINE D == {MOUNT, NFS} \X {3} \X {TCP, UDP}
           g == [k \in D |-> IF k[1] = NFS THEN 2049 ELSE 1058]
           list == OwnList
<1>1. /\ list \in Seq(Registration) /\ Len(list) = 4
      /\ list[1] = OwnOf(MOUNT, TCP, 1058) /\ list[2] = OwnOf(MOUNT, UDP, 1058)
      /\ list[3] = OwnOf(NFS, TCP, 2049) /\ list[4] = OwnOf(NFS, UDP, 2049)
      /\ Once(list)
  BY OwnListIs
<1> HIDE DEF list
<1>2. /\ KeyOf(list[1]) = <<MOUNT, 3, TCP>> /\ KeyOf(list[2]) = <<MOUNT, 3, UDP>>
      /\ KeyOf(list[3]) = <<NFS, 3, TCP>> /\ KeyOf(list[4]) = <<NFS, 3, UDP>>
      /\ list[1].port = 1058 /\ list[2].port = 1058
      /\ list[3].port = 2049 /\ list[4].port = 2049
  BY <1>1 DEF KeyOf, OwnOf
<1>3. MOUNT # NFS
  BY DEF MOUNT, NFS
<1>4. /\ g[<<MOUNT, 3, TCP>>] = 1058 /\ g[<<MOUNT, 3, UDP>>] = 1058
      /\ g[<<NFS, 3, TCP>>] = 2049 /\ g[<<NFS, 3, UDP>>] = 2049
      /\ {<<MOUNT, 3, TCP>>, <<MOUNT, 3, UDP>>, <<NFS, 3, TCP>>, <<NFS, 3, UDP>>} \subseteq D
  BY <1>3
<1>5. \A k \in D : k \in {<<MOUNT, 3, TCP>>, <<MOUNT, 3, UDP>>, <<NFS, 3, TCP>>, <<NFS, 3, UDP>>}
  OBVIOUS
<1>6. \A i \in 1 .. 4 : i = 1 \/ i = 2 \/ i = 3 \/ i = 4
  OBVIOUS
<1>7. g = [k \in D |-> g[k]]
  OBVIOUS
<1> HIDE DEF D, g
<1>8. PortsAre(list, D, g)
  <2>1. \A i \in 1 .. Len(list) : KeyOf(list[i]) \in D /\ g[KeyOf(list[i])] = list[i].port
    BY <1>1, <1>2, <1>4, <1>6
  <2>2. ASSUME NEW k \in D PROVE \E i \in 1 .. Len(list) : k = KeyOf(list[i])
    <3>1. 1 \in 1 .. Len(list) /\ 2 \in 1 .. Len(list) /\ 3 \in 1 .. Len(list) /\ 4 \in 1 .. Len(list)
      BY <1>1
    <3>2. QED
      BY <1>2, <1>5, <3>1
  <2>3. QED
    BY <2>1, <2>2 DEF PortsAre
<1>9. Ports(list) = g
  BY <1>1, <1>7, <1>8, SamePorts
<1>10. QED
  BY <1>9 DEF OwnPorts, list, g, D

\* A registration that is found is in the table with its port, one that is not found is not.
LEMMA FoundPort ==
  ASSUME NEW list \in Seq(Registration), Once(list), NEW m
  PROVE  /\ KeyOf(m) \in KeysIn(list) <=> find(list, m) # 0
         /\ find(list, m) # 0 =>
              /\ find(list, m) \in 1 .. Len(list)
              /\ KeyOf(list[find(list, m)]) = KeyOf(m)
              /\ Ports(list)[KeyOf(m)] = list[find(list, m)].port
<1> DEFINE p == find(list, m)
<1>1. /\ p \in 0 .. Len(list)
      /\ p = 0 => \A i \in 1 .. Len(list) : KeyOf(list[i]) # KeyOf(m)
      /\ p # 0 => KeyOf(list[p]) = KeyOf(m)
  BY Found
<1> HIDE DEF p
<1>2. p # 0 => p \in 1 .. Len(list)
  BY <1>1
<1>3. KeyOf(m) \in KeysIn(list) <=> p # 0
  BY <1>1, <1>2 DEF KeysIn
<1>4. p # 0 => Ports(list)[KeyOf(m)] = list[p].port
  BY <1>1, <1>2, PortOf
<1>5. QED
  BY <1>1, <1>2, <1>3, <1>4 DEF p

\* What SET does to the list it does to the table.
LEMMA SetInTable ==
  ASSUME NEW list \in Seq(Registration), Once(list), NEW m \in Registration
  PROVE  Ports(set(list, m)) =
           IF KeyOf(m) \in DOMAIN Ports(list) THEN Ports(list)
           ELSE [j \in DOMAIN Ports(list) \cup {KeyOf(m)} |->
                   IF j = KeyOf(m) THEN m.port ELSE Ports(list)[j]]
<1>1. DOMAIN Ports(list) = KeysIn(list)
  BY DEF Ports
<1>2. KeyOf(m) \in KeysIn(list) <=> find(list, m) # 0
  BY FoundPort
<1>3. CASE find(list, m) # 0
  BY <1>1, <1>2, <1>3 DEF set
<1>4. CASE find(list, m) = 0
  BY <1>1, <1>2, <1>4, PortsAdded DEF set
<1>5. QED
  BY <1>3, <1>4

\* And UNSET.
LEMMA UnsetInTable ==
  ASSUME NEW list \in Seq(Registration), Once(list), NEW m
  PROVE  Ports(unset(list, m)) = [j \in DOMAIN Ports(list) \ {KeyOf(m)} |-> Ports(list)[j]]
<1> DEFINE p == find(list, m)
<1>1. DOMAIN Ports(list) = KeysIn(list)
  BY DEF Ports
<1>2. /\ KeyOf(m) \in KeysIn(list) <=> p # 0
      /\ p # 0 => p \in 1 .. Len(list) /\ KeyOf(list[p]) = KeyOf(m)
  BY FoundPort
<1>3. unset(list, m) = IF p = 0 THEN list ELSE RemoveAt(list, p)
  BY DEF unset
<1> HIDE DEF p
<1>4. CASE p # 0
  <2>1. Ports(RemoveAt(list, p)) = [j \in KeysIn(list) \ {KeyOf(list[p])} |-> Ports(list)[j]]
    BY <1>2, <1>4, PortsRemoved
  <2>2. QED
    BY <1>1, <1>2, <1>3, <1>4, <2>1
<1>5. CASE p = 0
  <2>1. KeysIn(list) \ {KeyOf(m)} = KeysIn(list)
    BY <1>2, <1>5
  <2>2. Ports(list) = [j \in KeysIn(list) |-> Ports(list)[j]]
    BY DEF Ports
  <2>3. QED
    BY <1>1, <1>3, <1>5, <2>1, <2>2
<1>6. QED
  BY <1>4, <1>5

\* The mapping of the variables.
LEMMA TableSteps ==
  ASSUME ServicesInv, ServicesInv', [ServicesNext]_services_vars
  PROVE  [Table!Next]_Table!vars
<1> DEFINE reg == PortsOfKeys(store, Keys)
           seen == Seen(taken, asked, reply)
<1>0. /\ store \in Seq(Registration) /\ Once(store)
      /\ store' \in Seq(Registration)
  BY ServicesInvIs DEF ServicesInv
<1>1. reg = Ports(store)
  BY <1>0, PortsAreOfKeys DEF Keys
<1>2. reg' = Ports(store')
  <2>1. PortsOfKeys(store', {KeyOf(store'[i]) : i \in DOMAIN store'}) = Ports(store')
    BY <1>0, PortsAreOfKeys
  <2>2. QED
    BY <2>1 DEF Keys
<1> HIDE DEF reg
<1>3. ASSUME seen' = [proc |-> "none"], store' = store PROVE Table!Refuse
  BY <1>1, <1>2, <1>3 DEF Table!Refuse, Table!NoAnswer, reg, Seen, PortsOfKeys
<1>4. ASSUME NEW c \in Calls, HandleCall(c) PROVE Table!Next
  <2>1. asked' = c /\ Done(c)
    BY <1>4, CallDone
  <2>2. CASE Refusing
    BY <1>3, <2>2 DEF Refusing, Table!Next, Seen
  <2>3. CASE Attributing(c)
    BY <1>3, <2>1, <2>3 DEF Attributing, Table!Next, Seen
  <2>4. CASE Registering(c)
    <3> DEFINE m == SentMapping(c.args)
               k == KeyOf(m)
    <3>1. c.args.kind = "mapping" /\ c.server = "portmap" /\ taken' = m
      BY <2>4 DEF Registering
    <3>2. m \in Registration /\ m # None
      <4>1. c.args \in Arguments
        BY ParamsAre DEF Call
      <4>2. m \in Registration
        BY <3>1, <4>1, MappingRead
      <4>3. QED
        BY <4>2, ServicesAssumption
    <3>3. k \in Named
      <4>1. k = KeyOf(c.args)
        BY DEF KeyOf, SentMapping
      <4>2. QED
        BY <3>1, <4>1 DEF Named
    <3>4. seen' = [proc |-> <<"SET", "UNSET", "GETPORT">>[c.procedure], key |-> k,
                   result |-> reply'.result]
      BY <2>1, <3>1, <3>2 DEF Seen
    <3>5. k \in DOMAIN Ports(store) <=> find(store, m) # 0
      BY <1>0, FoundPort DEF Ports
    <3>6. \/ /\ c.procedure = 1 /\ m.port \in {TCP, UDP}
             /\ store' = set(store, m) /\ reply'.result = Flag(set(store, m) # store)
          \/ /\ c.procedure = 2
             /\ store' = unset(store, m) /\ reply'.result = Flag(unset(store, m) # store)
          \/ /\ c.procedure = 3
             /\ store' = store /\ reply'.result = get_port(store, m)
      BY <2>4 DEF Registering
    <3> HIDE DEF m, seen
    <3>7. CASE /\ c.procedure = 1 /\ m.port \in {TCP, UDP}
               /\ store' = set(store, m) /\ reply'.result = Flag(set(store, m) # store)
      <4>1. set(store, m) # store <=> find(store, m) = 0
        BY <1>0, <3>2, <3>7, SetKeeps, ServicesInvIs
      <4>2. reply'.result = IF k \in DOMAIN Ports(store) THEN 0 ELSE 1
        BY <3>5, <3>7, <4>1 DEF Flag
      <4>3. seen' = [proc |-> "SET", key |-> k, result |-> IF k \in DOMAIN reg THEN 0 ELSE 1]
        BY <1>1, <3>4, <3>7, <4>2
      <4>4. reg' = IF k \in DOMAIN reg THEN reg
                   ELSE [j \in DOMAIN reg \cup {k} |-> IF j = k THEN m.port ELSE reg[j]]
        <5>1. Ports(set(store, m)) =
                IF k \in DOMAIN Ports(store) THEN Ports(store)
                ELSE [j \in DOMAIN Ports(store) \cup {k} |->
                        IF j = k THEN m.port ELSE Ports(store)[j]]
          BY <1>0, <3>2, SetInTable
        <5>2. reg' = Ports(set(store, m))
          BY <1>2, <3>7
        <5>3. QED
          BY <1>1, <5>1, <5>2
      <4>5. Table!Set(k, m.port)
        BY <4>3, <4>4 DEF Table!Set, reg, seen, Seen, PortsOfKeys
      <4>6. QED
        BY <3>3, <3>7, <4>5 DEF Table!Next
    <3>8. CASE /\ c.procedure = 2
               /\ store' = unset(store, m) /\ reply'.result = Flag(unset(store, m) # store)
      <4>1. unset(store, m) # store <=> find(store, m) # 0
        BY <1>0, UnsetKeeps, ServicesInvIs
      <4>2. reply'.result = IF k \in DOMAIN Ports(store) THEN 1 ELSE 0
        BY <3>5, <3>8, <4>1 DEF Flag
      <4>3. seen' = [proc |-> "UNSET", key |-> k, result |-> IF k \in DOMAIN reg THEN 1 ELSE 0]
        BY <1>1, <3>4, <3>8, <4>2
      <4>4. reg' = [j \in DOMAIN reg \ {k} |-> reg[j]]
        <5>1. Ports(unset(store, m)) = [j \in DOMAIN Ports(store) \ {k} |-> Ports(store)[j]]
          BY <1>0, UnsetInTable
        <5>2. reg' = Ports(unset(store, m))
          BY <1>2, <3>8
        <5>3. QED
          BY <1>1, <5>1, <5>2
      <4>5. Table!Unset(k)
        BY <4>3, <4>4 DEF Table!Unset, reg, seen, Seen, PortsOfKeys
      <4>6. QED
        BY <3>3, <4>5 DEF Table!Next
    <3>9. CASE /\ c.procedure = 3
               /\ store' = store /\ reply'.result = get_port(store, m)
      <4>1. reply'.result = IF k \in DOMAIN Ports(store) THEN Ports(store)[k] ELSE 0
        <5>1. get_port(store, m) = IF find(store, m) = 0 THEN 0 ELSE store[find(store, m)].port
          BY DEF get_port
        <5>2. find(store, m) # 0 => Ports(store)[k] = store[find(store, m)].port
          BY <1>0, FoundPort
        <5>3. QED
          BY <3>5, <3>9, <5>1, <5>2
      <4>2. seen' = [proc |-> "GETPORT", key |-> k,
                     result |-> IF k \in DOMAIN reg THEN reg[k] ELSE 0]
        BY <1>1, <3>4, <3>9, <4>1
      <4>3. reg' = reg
        BY <1>1, <1>2, <3>9
      <4>4. Table!GetPort(k)
        BY <4>2, <4>3 DEF Table!GetPort, reg, seen, Seen, PortsOfKeys
      <4>5. QED
        BY <3>3, <4>4 DEF Table!Next
    <3>10. QED
      BY <3>6, <3>7, <3>8, <3>9
  <2>5. QED
    BY <2>1, <2>2, <2>3, <2>4 DEF Done
<1>5. CASE Replied
  BY <1>3, <1>5 DEF Replied, Table!Next, Seen
<1>6. CASE UNCHANGED services_vars
  <2>1. reg' = reg /\ seen' = seen
    BY <1>1, <1>2, <1>6 DEF services_vars, Seen
  <2>2. UNCHANGED Table!vars
    BY <2>1 DEF Table!vars, reg, seen, Seen, PortsOfKeys
  <2>3. QED
    BY <2>2
<1>7. QED
  BY <1>4, <1>5, <1>6 DEF ServicesNext

LEMMA TableStarts == ServicesInit => Table!Init
<1> SUFFICES ASSUME ServicesInit PROVE Table!Init
  OBVIOUS
<1>1. store = OwnList /\ taken = None
  BY StartedIs DEF ServicesInit
<1>2. PortsOfKeys(store, Keys) = OwnPorts
  BY <1>1, OwnListIs, OwnPortsIs, PortsAreOfKeys DEF Keys
<1>3. QED
  BY <1>1, <1>2 DEF Table!Init, Table!NoAnswer, OwnPorts, PortsOfKeys

\* Whatever is called, the registrations are those of the abstract portmapper, and SET, UNSET
\* and GETPORT answer as it does: the vector of registrations keeps the one that came first
\* for each program, version and protocol (portmap.cpp:37-60).
THEOREM PortmapImplemented == ServicesSpec => ImplementsPortmap
<1>1. ServicesInit => ServicesInv
  BY ServicesInitKeeps
<1>2. ServicesInv /\ [ServicesNext]_services_vars => ServicesInv'
  BY ServicesNextKeeps
<1>3. ServicesInit => Table!Init
  BY TableStarts
<1>4. ServicesInv /\ ServicesInv' /\ [ServicesNext]_services_vars => [Table!Next]_Table!vars
  BY TableSteps
<1>5. QED
  BY <1>1, <1>2, <1>3, <1>4, PTL DEF ServicesSpec, ImplementsPortmap, Table!Spec

=============================================================================
