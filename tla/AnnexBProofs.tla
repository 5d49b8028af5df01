---------------------------- MODULE AnnexBProofs ----------------------------
(***************************************************************************)
(* Proofs about the search for NALUs (module AnnexB), for buffers of any   *)
(* number of NALUs of any length and any contents.                         *)
(***************************************************************************)
EXTENDS AnnexB, SequenceTheorems, WellFoundedInduction, TLAPS

--------------------------------------------------------------------------------
(* Numbers and sequences.                                                  *)

(* A set of natural numbers has a least element: what an induction over    *)
(* the length of a buffer rests on here.                                   *)
LEMMA LeastNatural ==
  ASSUME NEW T, T \subseteq Nat, T # {}
  PROVE  \E x \in T : \A y \in T : x <= y
<1>1. PICK x \in T : \A y \in T : ~(<<y, x>> \in OpToRel(<, Nat))
  BY NatLessThanWellFounded, WFMin
<1>2. \A y \in T : ~(y < x)
  BY <1>1 DEF OpToRel
<1>3. QED
  BY <1>2

LEMMA LeastIsMin ==
  ASSUME NEW S, S \subseteq Nat, S # {}
  PROVE  Min(S) \in S /\ \A y \in S : Min(S) <= y
  BY LeastNatural DEF Min

LEMMA MaxOfTwo ==
  ASSUME NEW a \in Nat, NEW b \in Nat
  PROVE  Max({a, b}) = IF a >= b THEN a ELSE b
<1> DEFINE m == IF a >= b THEN a ELSE b
<1>1. m \in {a, b} /\ \A y \in {a, b} : m >= y
  OBVIOUS
<1>2. Max({a, b}) \in {a, b} /\ \A y \in {a, b} : Max({a, b}) >= y
  BY <1>1 DEF Max
<1>3. QED
  BY <1>2

--------------------------------------------------------------------------------
(* Sequences put together.                                                 *)

(* The first m of the sequences, appended one after the other.             *)
Appended(seqs, f, m) ==
  [i \in 1 .. m |-> IF i = 1 THEN seqs[i] ELSE f[i - 1] \o seqs[i]]

Appends(seqs, m) == \E f : f = Appended(seqs, f, m)

LEMMA AppendsOneMore ==
  ASSUME NEW seqs, NEW m \in Nat \ {0}, Appends(seqs, m)
  PROVE  Appends(seqs, m + 1)
<1>1. PICK f : f = Appended(seqs, f, m)
  BY DEF Appends
<1> DEFINE g == [i \in 1 .. m + 1 |-> IF i <= m THEN f[i] ELSE f[m] \o seqs[m + 1]]
<1>2. ASSUME NEW i \in 1 .. m + 1
      PROVE  g[i] = IF i = 1 THEN seqs[i] ELSE g[i - 1] \o seqs[i]
  <2>1. CASE i <= m
    <3>1. i \in 1 .. m /\ (i # 1 => i - 1 \in 1 .. m + 1 /\ i - 1 <= m)
      BY <2>1
    <3>2. f[i] = IF i = 1 THEN seqs[i] ELSE f[i - 1] \o seqs[i]
      BY <1>1, <3>1 DEF Appended
    <3>3. g[i] = f[i] /\ (i # 1 => g[i - 1] = f[i - 1])
      BY <2>1, <3>1
    <3>4. QED
      BY <3>2, <3>3
  <2>2. CASE i = m + 1
    <3>1. m \in 1 .. m + 1 /\ ~(i <= m) /\ m <= m /\ i # 1 /\ i - 1 = m
      BY <2>2
    <3>2. g[i] = f[m] \o seqs[m + 1]
      BY <3>1
    <3>3. g[m] = f[m]
      BY <3>1
    <3>4. QED
      BY <2>2, <3>1, <3>2, <3>3
  <2>3. i <= m \/ i = m + 1
    OBVIOUS
  <2>4. QED
    BY <2>1, <2>2, <2>3
<1>3. g = [i \in 1 .. m + 1 |-> g[i]]
  OBVIOUS
<1> HIDE DEF g
<1>4. g = Appended(seqs, g, m + 1)
  BY <1>2, <1>3 DEF Appended
<1>5. QED
  BY <1>4 DEF Appends

LEMMA AppendsAll ==
  ASSUME NEW seqs, NEW n \in Nat \ {0}
  PROVE  Appends(seqs, n)
<1> DEFINE missing == {m \in Nat \ {0} : ~Appends(seqs, m)}
<1> SUFFICES ASSUME missing # {} PROVE FALSE
  OBVIOUS
<1>1. PICK m \in missing : \A k \in missing : m <= k
  BY LeastNatural
<1>2. CASE m = 1
  <2> DEFINE g == [i \in 1 .. 1 |-> seqs[i]]
  <2>1. g = Appended(seqs, g, 1)
    BY DEF Appended
  <2>2. QED
    BY <1>1, <1>2, <2>1 DEF Appends
<1>3. CASE m # 1
  <2>1. m - 1 \in Nat \ {0} /\ m - 1 \notin missing /\ (m - 1) + 1 = m
    BY <1>1, <1>3
  <2>2. Appends(seqs, m - 1)
    BY <2>1
  <2>3. Appends(seqs, (m - 1) + 1)
    BY <2>1, <2>2, AppendsOneMore
  <2>4. QED
    BY <1>1, <2>1, <2>3
<1>4. QED
  BY <1>2, <1>3

(* So FlattenSeq appends all of them: the recursive function it is defined *)
(* by exists.                                                              *)
LEMMA Flattening ==
  ASSUME NEW seqs \in Seq(Seq(Byte)), seqs # <<>>
  PROVE  \E f \in [1 .. Len(seqs) -> Seq(Byte)] :
           /\ FlattenSeq(seqs) = f[Len(seqs)]
           /\ \A i \in 1 .. Len(seqs) :
                f[i] = IF i = 1 THEN seqs[i] ELSE f[i - 1] \o seqs[i]
<1> DEFINE n == Len(seqs)
<1>1. n \in Nat \ {0} /\ \A i \in 1 .. n : seqs[i] \in Seq(Byte)
  OBVIOUS
<1> DEFINE f == CHOOSE f : f = Appended(seqs, f, n)
<1>2. f = Appended(seqs, f, n)
  BY <1>1, AppendsAll DEF Appends
<1>3. FlattenSeq(seqs) = f[n]
  BY <1>1 DEF FlattenSeq, Appended
<1> HIDE DEF f
<1>4. \A i \in 1 .. n : f[i] = IF i = 1 THEN seqs[i] ELSE f[i - 1] \o seqs[i]
  BY <1>2 DEF Appended
<1>5. \A i \in 1 .. n : f[i] \in Seq(Byte)
  <2> DEFINE wrong == {k \in 1 .. n : f[k] \notin Seq(Byte)}
  <2> HIDE DEF n
  <2> SUFFICES ASSUME wrong # {} PROVE FALSE
    OBVIOUS
  <2>1. PICK k \in wrong : \A j \in wrong : k <= j
    <3>1. wrong \subseteq Nat
      BY <1>1
    <3>2. QED
      BY <3>1, LeastNatural
  <2>2. k # 1
    BY <1>1, <1>4, <2>1
  <2>3. k - 1 \in 1 .. n /\ k - 1 \notin wrong
    BY <1>1, <2>1, <2>2
  <2>4. f[k - 1] \in Seq(Byte) /\ f[k] = f[k - 1] \o seqs[k]
    BY <1>4, <2>2, <2>3
  <2>5. f[k] \in Seq(Byte)
    BY <1>1, <2>1, <2>4, ConcatProperties
  <2>6. QED
    BY <2>1, <2>5
<1>6. f \in [1 .. n -> Seq(Byte)]
  <2>1. f = [i \in 1 .. n |-> f[i]]
    BY <1>2 DEF Appended
  <2>2. QED
    BY <1>5, <2>1
<1>7. QED
  BY <1>3, <1>4, <1>6

LEMMA ConcatParts ==
  ASSUME NEW s \in Seq(Byte), NEW t \in Seq(Byte)
  PROVE  /\ Len(s) \in Nat /\ Len(t) \in Nat
         /\ Len(s \o t) = Len(s) + Len(t)
         /\ \A j \in 1 .. Len(s) : (s \o t)[j] = s[j]
         /\ \A j \in 1 .. Len(t) : (s \o t)[Len(s) + j] = t[j]
<1>1. Len(s) \in Nat /\ Len(t) \in Nat
  OBVIOUS
<1>2. ASSUME NEW j \in 1 .. Len(s) PROVE (s \o t)[j] = s[j]
  <2>1. j \in 1 .. Len(s) + Len(t) /\ j <= Len(s)
    BY <1>1
  <2>2. QED
    BY <2>1, ConcatProperties
<1>3. ASSUME NEW j \in 1 .. Len(t) PROVE (s \o t)[Len(s) + j] = t[j]
  <2>1. /\ Len(s) + j \in 1 .. Len(s) + Len(t) /\ ~(Len(s) + j <= Len(s))
        /\ Len(s) + j - Len(s) = j
    BY <1>1
  <2>2. QED
    BY <2>1, ConcatProperties
<1>4. QED
  BY <1>1, <1>2, <1>3, ConcatProperties

(* A sequence that starts another one; what is joined to it follows there. *)
Starts(s, all) == Len(s) <= Len(all) /\ \A j \in 1 .. Len(s) : all[j] = s[j]

LEMMA FrontStarts ==
  ASSUME NEW s \in Seq(Byte), NEW t \in Seq(Byte), NEW all \in Seq(Byte),
         Starts(s \o t, all)
  PROVE  /\ Starts(s, all)
         /\ \A j \in 1 .. Len(t) : all[Len(s) + j] = t[j]
<1> DEFINE a == Len(s)
           b == Len(t)
           c == Len(all)
           u == s \o t
<1>1. /\ a \in Nat /\ b \in Nat /\ c \in Nat
      /\ Len(u) = a + b
      /\ \A j \in 1 .. a : u[j] = s[j]
      /\ \A j \in 1 .. b : u[a + j] = t[j]
  BY ConcatParts
<1>2. Len(u) <= c /\ \A j \in 1 .. Len(u) : all[j] = u[j]
  BY DEF Starts
<1> HIDE DEF a, b, c, u
<1>3. a <= c
  BY <1>1, <1>2
<1>4. \A j \in 1 .. a : all[j] = s[j]
  BY <1>1, <1>2
<1>5. \A j \in 1 .. b : all[a + j] = t[j]
  <2>1. \A j \in 1 .. b : a + j \in 1 .. Len(u)
    BY <1>1
  <2>2. QED
    BY <1>1, <1>2, <2>1
<1>6. QED
  BY <1>3, <1>4, <1>5 DEF a, b, c, Starts

(* Where each sequence is in the sequence they make together.              *)
Laid(seqs, all, at) ==
  /\ at \in [1 .. Len(seqs) + 1 -> 0 .. Len(all)]
  /\ at[1] = 0 /\ at[Len(seqs) + 1] = Len(all)
  /\ \A i \in 1 .. Len(seqs) :
       /\ at[i + 1] = at[i] + Len(seqs[i])
       /\ \A j \in 1 .. Len(seqs[i]) : all[at[i] + j] = seqs[i][j]

LEMMA FlattenedIsLaid ==
  ASSUME NEW seqs \in Seq(Seq(Byte)), seqs # <<>>
  PROVE  /\ FlattenSeq(seqs) \in Seq(Byte)
         /\ \E at : Laid(seqs, FlattenSeq(seqs), at)
<1> DEFINE n == Len(seqs)
           all == FlattenSeq(seqs)
<1>1. n \in Nat \ {0} /\ \A i \in 1 .. n : seqs[i] \in Seq(Byte)
  OBVIOUS
<1>2. PICK f \in [1 .. n -> Seq(Byte)] :
        /\ all = f[n]
        /\ \A i \in 1 .. n : f[i] = IF i = 1 THEN seqs[i] ELSE f[i - 1] \o seqs[i]
  BY Flattening
<1> HIDE DEF n, all
<1>3. all \in Seq(Byte)
  BY <1>1, <1>2
<1>4. ASSUME NEW i \in 1 .. n - 1
      PROVE  /\ f[i] \in Seq(Byte) /\ seqs[i + 1] \in Seq(Byte)
             /\ f[i + 1] = f[i] \o seqs[i + 1]
  <2>1. i \in 1 .. n /\ i + 1 \in 1 .. n /\ i + 1 # 1 /\ (i + 1) - 1 = i
    BY <1>1
  <2>2. QED
    BY <1>1, <1>2, <2>1
<1>5. ASSUME NEW i \in 1 .. n - 1, Starts(f[i + 1], all)
      PROVE  /\ Starts(f[i], all)
             /\ \A j \in 1 .. Len(seqs[i + 1]) : all[Len(f[i]) + j] = seqs[i + 1][j]
  <2>1. PICK s \in Seq(Byte), t \in Seq(Byte) :
          s = f[i] /\ t = seqs[i + 1] /\ f[i + 1] = s \o t
    BY <1>4
  <2>2. Starts(s \o t, all)
    BY <1>5, <2>1
  <2>3. Starts(s, all) /\ \A j \in 1 .. Len(t) : all[Len(s) + j] = t[j]
    BY ONLY <1>3, <2>2, FrontStarts
  <2>4. QED
    BY <2>1, <2>3
(* Each f[i] starts all: otherwise there is a last one that does not.      *)
<1>6. \A i \in 1 .. n : Starts(f[i], all)
  <2> DEFINE others == {d \in 0 .. n - 1 : ~Starts(f[n - d], all)}
  <2>1. others = {}
    <3> SUFFICES ASSUME others # {} PROVE FALSE
      OBVIOUS
    <3>1. PICK d \in others : \A k \in others : d <= k
      <4>1. others \subseteq Nat
        BY <1>1
      <4>2. QED
        BY <4>1, LeastNatural
    <3>2. d # 0
      <4>1. Starts(f[n], all)
        BY <1>2, <1>3 DEF Starts
      <4>2. n - 0 = n
        BY <1>1
      <4>3. QED
        BY <3>1, <4>1, <4>2
    <3>3. /\ n - d \in 1 .. n - 1 /\ d - 1 \in 0 .. n - 1
          /\ n - (d - 1) = (n - d) + 1
      BY <1>1, <3>1, <3>2
    <3>4. d - 1 \notin others
      BY <3>1, <3>3
    <3>5. Starts(f[(n - d) + 1], all)
      BY <3>3, <3>4
    <3>6. Starts(f[n - d], all)
      BY <1>5, <3>3, <3>5
    <3>7. QED
      BY <3>1, <3>6
  <2>2. ASSUME NEW i \in 1 .. n PROVE Starts(f[i], all)
    <3>1. n - i \in 0 .. n - 1 /\ n - (n - i) = i
      BY <1>1
    <3>2. QED
      BY <2>1, <3>1
  <2>3. QED
    BY <2>2
<1> DEFINE at == [i \in 1 .. n + 1 |-> IF i = 1 THEN 0 ELSE Len(f[i - 1])]
<1>7. at \in [1 .. n + 1 -> 0 .. Len(all)]
  <2>1. Len(all) \in Nat
    BY <1>3
  <2>2. ASSUME NEW i \in 1 .. n + 1, i # 1
        PROVE  Len(f[i - 1]) \in 0 .. Len(all)
    <3>1. i - 1 \in 1 .. n
      BY <1>1, <2>2
    <3>2. QED
      BY <1>2, <1>6, <2>1, <3>1 DEF Starts
  <2>3. QED
    BY <2>1, <2>2
<1>8. at[1] = 0 /\ at[n + 1] = Len(all)
  <2>1. 1 \in 1 .. n + 1 /\ n + 1 \in 1 .. n + 1 /\ n + 1 # 1 /\ (n + 1) - 1 = n
    BY <1>1
  <2>2. QED
    BY <1>2, <2>1
<1>9. ASSUME NEW i \in 1 .. n
      PROVE  /\ at[i + 1] = at[i] + Len(seqs[i])
             /\ \A j \in 1 .. Len(seqs[i]) : all[at[i] + j] = seqs[i][j]
  <2>1. at[i + 1] = Len(f[i])
    <3>1. i + 1 \in 1 .. n + 1 /\ i + 1 # 1 /\ (i + 1) - 1 = i
      BY <1>1
    <3>2. QED
      BY <3>1
  <2>2. CASE i = 1
    <3>1. at[i] = 0 /\ f[i] = seqs[i] /\ seqs[i] \in Seq(Byte)
      BY <1>1, <1>2, <1>8, <2>2
    <3>2. PICK s \in Seq(Byte) : s = seqs[i] /\ f[i] = s
      BY <3>1
    <3> HIDE DEF at
    <3>3. at[i + 1] = at[i] + Len(s)
      BY <2>1, <3>1, <3>2
    <3>4. \A j \in 1 .. Len(s) : all[at[i] + j] = s[j]
      <4>1. \A j \in 1 .. Len(s) : at[i] + j = j
        BY <3>1
      <4>2. Starts(s, all)
        BY <1>6, <3>2
      <4>3. QED
        BY <4>1, <4>2 DEF Starts
    <3>5. QED
      BY <3>2, <3>3, <3>4
  <2>3. CASE i # 1
    <3>1. /\ i - 1 \in 1 .. n - 1 /\ (i - 1) + 1 = i /\ i \in 1 .. n + 1
      BY <1>1, <2>3
    <3>2. at[i] = Len(f[i - 1])
      BY <2>3, <3>1
    <3> HIDE DEF at
    <3>3. PICK s \in Seq(Byte), t \in Seq(Byte) :
            s = f[i - 1] /\ t = seqs[i] /\ f[i] = s \o t
      <4>1. /\ f[i - 1] \in Seq(Byte) /\ seqs[(i - 1) + 1] \in Seq(Byte)
            /\ f[(i - 1) + 1] = f[i - 1] \o seqs[(i - 1) + 1]
        BY <1>4, <3>1
      <4>2. QED
        BY <3>1, <4>1
    <3>4. Starts(s \o t, all)
      BY <1>6, <3>3
    <3>5. \A j \in 1 .. Len(t) : all[Len(s) + j] = t[j]
      BY <1>3, <3>4, FrontStarts
    <3>6. Len(s \o t) = Len(s) + Len(t)
      BY ConcatParts
    <3>7. QED
      BY <2>1, <3>2, <3>3, <3>5, <3>6
  <2>4. QED
    BY <2>2, <2>3
<1> HIDE DEF at
<1>10. Laid(seqs, all, at)
  BY <1>7, <1>8, <1>9 DEF Laid, n
<1>11. QED
  BY <1>3, <1>10 DEF all

--------------------------------------------------------------------------------
(* The memory.                                                             *)

(* There is a buffer with four bytes behind it, and the scan is in it.     *)
MemoryTypes ==
  /\ inbuf_size \in Nat \ {0}
  /\ mem \in Seq(Byte) /\ Len(mem) = inbuf_size + 4
  /\ next_nalu_ptr \in 0 .. inbuf_size - 1 \cup {NULL}

(* A start code, byte by byte.                                             *)
LEMMA StartCodeBytes ==
  ASSUME MemoryTypes, NEW p \in 0 .. inbuf_size - 1
  PROVE  /\ IsStartCode3(p) <=> mem[p + 1] = 0 /\ mem[p + 2] = 0 /\ mem[p + 3] = 1
         /\ IsStartCode4(p) <=> /\ mem[p + 1] = 0 /\ mem[p + 2] = 0
                                /\ mem[p + 3] = 0 /\ mem[p + 4] = 1
<1>1. p \in Nat /\ p + 4 <= Len(mem)
  BY DEF MemoryTypes
<1>2. /\ SubSeq(mem, p + 1, p + 3) \in Seq(Byte)
      /\ Len(SubSeq(mem, p + 1, p + 3)) = 3
      /\ \A i \in 1 .. 3 : SubSeq(mem, p + 1, p + 3)[i] = mem[p + i]
  BY <1>1 DEF MemoryTypes
<1>3. /\ SubSeq(mem, p + 1, p + 4) \in Seq(Byte)
      /\ Len(SubSeq(mem, p + 1, p + 4)) = 4
      /\ \A i \in 1 .. 4 : SubSeq(mem, p + 1, p + 4)[i] = mem[p + i]
  BY <1>1 DEF MemoryTypes
<1>4. \A s \in Seq(Byte) :
        /\ s = <<0, 0, 1>> <=> Len(s) = 3 /\ s[1] = 0 /\ s[2] = 0 /\ s[3] = 1
        /\ s = <<0, 0, 0, 1>> <=> /\ Len(s) = 4 /\ s[1] = 0 /\ s[2] = 0
                                  /\ s[3] = 0 /\ s[4] = 1
  OBVIOUS
<1>5. IsStartCode3(p) <=> mem[p + 1] = 0 /\ mem[p + 2] = 0 /\ mem[p + 3] = 1
  <2> DEFINE s == SubSeq(mem, p + 1, p + 3)
  <2>1. s[1] = mem[p + 1] /\ s[2] = mem[p + 2] /\ s[3] = mem[p + 3]
    BY <1>2
  <2> HIDE DEF s
  <2>2. s \in Seq(Byte) /\ Len(s) = 3
    BY <1>2 DEF s
  <2>3. IsStartCode3(p) <=> s = <<0, 0, 1>>
    BY DEF IsStartCode3, StartCode3, s
  <2>4. QED
    BY <1>4, <2>1, <2>2, <2>3
<1>6. IsStartCode4(p) <=> /\ mem[p + 1] = 0 /\ mem[p + 2] = 0
                          /\ mem[p + 3] = 0 /\ mem[p + 4] = 1
  <2> DEFINE s == SubSeq(mem, p + 1, p + 4)
  <2>1. /\ s[1] = mem[p + 1] /\ s[2] = mem[p + 2] /\ s[3] = mem[p + 3]
        /\ s[4] = mem[p + 4]
    BY <1>3
  <2> HIDE DEF s
  <2>2. s \in Seq(Byte) /\ Len(s) = 4
    BY <1>3 DEF s
  <2>3. IsStartCode4(p) <=> s = <<0, 0, 0, 1>>
    BY DEF IsStartCode4, StartCode4, s
  <2>4. QED
    BY <1>4, <2>1, <2>2, <2>3
<1>7. QED
  BY <1>5, <1>6

(* Where the scan may stop, and that it stops at the first such place.     *)
Stops(p) == p >= inbuf_size \/ IsStartCode3(p) \/ IsStartCode4(p)

LEMMA ScanStops ==
  ASSUME MemoryTypes, NEW first \in Nat
  PROVE  /\ ScanFrom(first) \in Nat
         /\ ScanFrom(first) >= first + 1
         /\ ScanFrom(first) <= first + 1 \/ ScanFrom(first) <= inbuf_size
         /\ Stops(ScanFrom(first))
         /\ \A p \in first + 1 .. ScanFrom(first) - 1 : ~Stops(p)
<1> DEFINE last == IF first + 1 >= inbuf_size THEN first + 1 ELSE inbuf_size
           places == {p \in first + 1 .. last : Stops(p)}
<1>1. inbuf_size \in Nat
  BY DEF MemoryTypes
<1>2. ScanFrom(first) = Min(places)
  <2>1. Max({first + 1, inbuf_size}) = last
    BY <1>1, MaxOfTwo
  <2>2. QED
    BY <2>1 DEF ScanFrom, Stops
<1>3. last \in places /\ places \subseteq Nat
  BY <1>1 DEF Stops
<1>4. Min(places) \in places /\ \A p \in places : Min(places) <= p
  BY <1>3, LeastIsMin
<1>5. \A p \in first + 1 .. Min(places) - 1 : ~Stops(p)
  BY <1>1, <1>4
<1>6. QED
  BY <1>1, <1>2, <1>4, <1>5

LEMMA ScanStopsFirst ==
  ASSUME MemoryTypes, NEW first \in Nat, NEW e \in Nat, e >= first + 1, Stops(e),
         \A p \in first + 1 .. e - 1 : ~Stops(p)
  PROVE  ScanFrom(first) = e
<1> DEFINE q == ScanFrom(first)
<1>1. /\ q \in Nat /\ q >= first + 1 /\ Stops(q)
      /\ \A p \in first + 1 .. q - 1 : ~Stops(p)
  BY ScanStops
<1> HIDE DEF q
<1>2. ~(e < q)
  BY <1>1
<1>3. ~(q < e)
  BY <1>1
<1>4. q = e
  BY <1>1, <1>2, <1>3
<1>5. QED
  BY <1>4 DEF q

LEMMA MemoryAtFirst ==
  ASSUME NEW buf \in Seq(Byte), buf # <<>>, NEW behind \in Behind,
         PackPut(buf, behind)
  PROVE  MemoryTypes
<1>1. behind \in Seq(Byte) /\ Len(behind) = 4
  <2>1. PICK n \in Nat : n = 4
    OBVIOUS
  <2>2. behind \in [1 .. n -> Byte]
    BY <2>1 DEF Behind, Byte
  <2>3. behind \in Seq(Byte) /\ Len(behind) = n
    BY <2>2
  <2>4. QED
    BY <2>1, <2>3
<1>2. Len(buf) \in Nat \ {0}
  OBVIOUS
<1>3. buf \o behind \in Seq(Byte) /\ Len(buf \o behind) = Len(buf) + 4
  <2>1. Len(buf \o behind) = Len(buf) + Len(behind)
    BY <1>1, ConcatParts
  <2>2. QED
    BY <1>1, <2>1, ConcatProperties
<1>4. QED
  BY <1>2, <1>3 DEF PackPut, MemoryTypes

LEMMA ByteSeqsAreSequences ==
  ASSUME NEW lo \in Nat, NEW hi \in Nat, NEW s \in ByteSeqs(lo, hi)
  PROVE  s \in Seq(Byte) /\ Len(s) >= lo
<1>1. PICK n \in lo .. hi : s \in [1 .. n -> Byte]
  BY DEF ByteSeqs
<1>2. n \in Nat
  OBVIOUS
<1>3. QED
  BY <1>1, <1>2

--------------------------------------------------------------------------------
(* What holds of a NALU found, whatever the buffer holds.                  *)

TypesKept ==
  /\ MemoryTypes
  /\ found \in Seq(Seq(Byte))
  /\ ret \in {-1, 0, 1}

Kept == TypesKept /\ NaluHasHeader /\ NaluInsideBuffer

(* The series of NALUs an encoder wrote is a buffer of bytes, in which     *)
(* each start code and NALU has its place.                                 *)
LEMMA SeriesIsLaid ==
  ASSUME NEW n \in Nat \ {0}, NEW ns \in [1 .. n -> NaluSet],
         NEW codes \in [1 .. n -> {StartCode3, StartCode4}]
  PROVE  LET seqs == [i \in 1 .. n |-> codes[i] \o ns[i]]
         IN  /\ WithStartCodes(ns, codes) \in Seq(Byte)
             /\ WithStartCodes(ns, codes) # <<>>
             /\ \E at : Laid(seqs, WithStartCodes(ns, codes), at)
<1> DEFINE seqs == [i \in 1 .. n |-> codes[i] \o ns[i]]
           all == WithStartCodes(ns, codes)
<1>1. ASSUME NEW i \in 1 .. n
      PROVE  /\ codes[i] \in Seq(Byte) /\ Len(codes[i]) # 0
             /\ ns[i] \in Seq(Byte)
  <2>1. ns[i] \in ByteSeqs(1, MaxNaluBytes) /\ MaxNaluBytes \in Nat
    BY BoundsAssumption DEF NaluSet
  <2>2. codes[i] = <<0, 0, 1>> \/ codes[i] = <<0, 0, 0, 1>>
    BY DEF StartCode3, StartCode4
  <2>3. /\ <<0, 0, 1>> \in Seq(Byte) /\ Len(<<0, 0, 1>>) # 0
        /\ <<0, 0, 0, 1>> \in Seq(Byte) /\ Len(<<0, 0, 0, 1>>) # 0
    BY DEF Byte
  <2>4. QED
    BY <2>1, <2>2, <2>3, ByteSeqsAreSequences
<1>2. \A i \in 1 .. n : seqs[i] \in Seq(Byte) /\ Len(seqs[i]) # 0
  <2>1. ASSUME NEW i \in 1 .. n PROVE seqs[i] \in Seq(Byte) /\ Len(seqs[i]) # 0
    <3>1. PICK s \in Seq(Byte), t \in Seq(Byte) :
            s = codes[i] /\ t = ns[i] /\ seqs[i] = s \o t
      BY <1>1
    <3>2. Len(s) # 0 /\ Len(s) \in Nat /\ Len(t) \in Nat
      <4>1. Len(s) # 0
        BY <1>1, <3>1, Zenon
      <4>2. QED
        BY <4>1, ConcatParts
    <3>3. s \o t \in Seq(Byte) /\ Len(s \o t) # 0
      BY <3>2, ConcatParts, ConcatProperties
    <3>4. QED
      BY <3>1, <3>3
  <2>2. QED
    BY <2>1
<1>3. seqs \in [1 .. n -> Seq(Byte)]
  BY <1>2
<1>4. seqs \in Seq(Seq(Byte)) /\ Len(seqs) = n
  <2> HIDE DEF seqs
  <2>1. QED
    BY <1>3
<1>5. all = FlattenSeq(seqs)
  <2>1. Len(ns) = n
    OBVIOUS
  <2>2. QED
    BY <2>1 DEF WithStartCodes
<1> HIDE DEF seqs, all
<1>6. seqs # <<>>
  BY <1>4
<1>7. all \in Seq(Byte) /\ \E at : Laid(seqs, all, at)
  BY <1>4, <1>5, <1>6, FlattenedIsLaid
<1>8. all # <<>>
  <2>1. PICK at : Laid(seqs, all, at)
    BY <1>7
  <2>2. 1 \in 1 .. n /\ 2 \in 1 .. n + 1 /\ 1 \in 1 .. n + 1
    OBVIOUS
  <2>3. at[2] = at[1] + Len(seqs[1]) /\ at[1] = 0 /\ at[2] \in 0 .. Len(all)
    BY <1>4, <2>1, <2>2 DEF Laid
  <2>4. PICK s \in Seq(Byte) : s = seqs[1] /\ Len(s) # 0
    BY <1>2, <2>2
  <2>5. Len(s) \in Nat /\ Len(all) \in Nat /\ at[2] = 0 + Len(s)
    BY <1>7, <2>3, <2>4
  <2>6. Len(all) # 0
    BY <2>3, <2>4, <2>5
  <2>7. QED
    BY <2>6
<1>9. QED
  BY <1>7, <1>8 DEF all, seqs

LEMMA KeptAtFirst ==
  ASSUME Init
  PROVE  Kept
<1>1. \E buf \in Seq(Byte), behind \in Behind : buf # <<>> /\ PackPut(buf, behind)
  <2>1. CASE InitWritten
    <3>1. PICK n \in 1 .. MaxNalus :
            /\ written \in [1 .. n -> NaluSet]
            /\ \E codes \in [1 .. n -> {StartCode3, StartCode4}],
                  behind \in Behind :
                 PackPut(WithStartCodes(written, codes), behind)
      BY <2>1 DEF InitWritten
    <3>2. PICK codes \in [1 .. n -> {StartCode3, StartCode4}], behind \in Behind :
            PackPut(WithStartCodes(written, codes), behind)
      BY <3>1
    <3>3. n \in Nat \ {0}
      BY BoundsAssumption
    <3>4. /\ WithStartCodes(written, codes) \in Seq(Byte)
          /\ WithStartCodes(written, codes) # <<>>
      BY <3>1, <3>3, SeriesIsLaid
    <3>5. QED
      BY <3>2, <3>4
  <2>2. CASE InitRaw
    <3>1. PICK buf \in ByteSeqs(1, MaxRawBytes), behind \in Behind :
            PackPut(buf, behind)
      BY <2>2 DEF InitRaw
    <3>2. buf \in Seq(Byte) /\ Len(buf) >= 1
      BY BoundsAssumption, ByteSeqsAreSequences
    <3>3. QED
      BY <3>1, <3>2
  <2>3. QED
    BY <2>1, <2>2 DEF Init
<1>2. PICK buf \in Seq(Byte), behind \in Behind : buf # <<>> /\ PackPut(buf, behind)
  BY <1>1
<1>3. MemoryTypes
  BY <1>2, MemoryAtFirst
<1>4. found = <<>> /\ ret = 1
  BY <1>2 DEF PackPut
<1>5. QED
  BY <1>3, <1>4 DEF Kept, TypesKept, NaluHasHeader, NaluInsideBuffer

(* The NALU found next, and where the scan goes on.                        *)
LEMMA Finds ==
  ASSUME TypesKept, FindNalu
  PROVE  \E data \in Nat, next \in Nat :
           /\ data = next_nalu_ptr + PrefixLen(next_nalu_ptr)
           /\ next_nalu_ptr \in 0 .. inbuf_size - 1
           /\ IsStartCode3(next_nalu_ptr) \/ IsStartCode4(next_nalu_ptr)
           /\ next = ScanFrom(data) /\ next >= data + 1
           /\ next <= data + 1 \/ next <= inbuf_size
           /\ nalu'.data = data /\ nalu'.len = next - data
           /\ next_nalu_ptr' = IF next >= inbuf_size THEN NULL ELSE next
           /\ found' = Append(found, SubSeq(mem, data + 1, next))
<1> DEFINE data == next_nalu_ptr + PrefixLen(next_nalu_ptr)
           next == ScanFrom(data)
<1>1. /\ next_nalu_ptr \in 0 .. inbuf_size - 1
      /\ IsStartCode3(next_nalu_ptr) \/ IsStartCode4(next_nalu_ptr)
  BY DEF FindNalu, TypesKept, MemoryTypes
<1>2. data \in Nat
  BY <1>1 DEF PrefixLen, TypesKept, MemoryTypes
<1>3. /\ nalu'.data = data /\ nalu'.len = next - data
      /\ next_nalu_ptr' = IF next >= inbuf_size THEN NULL ELSE next
      /\ found' = Append(found, SubSeq(mem, data + 1, next))
  BY DEF FindNalu
<1> HIDE DEF data
<1>4. /\ next \in Nat /\ next >= data + 1
      /\ next <= data + 1 \/ next <= inbuf_size
  BY <1>2, ScanStops DEF TypesKept
<1> HIDE DEF next
<1>5. data = next_nalu_ptr + PrefixLen(next_nalu_ptr) /\ next = ScanFrom(data)
  BY DEF data, next
<1>6. QED
  BY <1>1, <1>2, <1>3, <1>4, <1>5

LEMMA TypesStayKept ==
  ASSUME TypesKept, [Next]_vars
  PROVE  TypesKept'
<1> USE DEF TypesKept, MemoryTypes
<1>1. CASE FindNalu
  <2>1. PICK data \in Nat, next \in Nat :
          /\ data = next_nalu_ptr + PrefixLen(next_nalu_ptr)
          /\ next_nalu_ptr \in 0 .. inbuf_size - 1
          /\ next >= data + 1
          /\ next <= data + 1 \/ next <= inbuf_size
          /\ next_nalu_ptr' = IF next >= inbuf_size THEN NULL ELSE next
          /\ found' = Append(found, SubSeq(mem, data + 1, next))
    BY <1>1, Finds
  <2>2. UNCHANGED <<written, mem, inbuf_size>> /\ ret' = 1
    BY <1>1 DEF FindNalu
  <2>3. next_nalu_ptr' \in 0 .. inbuf_size - 1 \cup {NULL}
    BY <2>1
  <2>4. found' \in Seq(Seq(Byte))
    <3>1. PrefixLen(next_nalu_ptr) <= 4 /\ PrefixLen(next_nalu_ptr) \in Nat
      BY DEF PrefixLen
    <3>2. data <= inbuf_size + 3
      BY <2>1, <3>1
    <3>3. next <= Len(mem)
      BY <2>1, <3>2
    <3>4. SubSeq(mem, data + 1, next) \in Seq(Byte)
      <4>1. \A i \in data + 1 .. next : mem[i] \in Byte
        BY <3>3
      <4>2. QED
        BY <4>1, SubSeqProperties
    <3>5. QED
      BY <2>1, <3>4, AppendProperties
  <2>5. QED
    BY <2>2, <2>3, <2>4
<1>2. CASE DataEnd
  BY <1>2 DEF DataEnd
<1>3. CASE NoStartCode
  BY <1>3 DEF NoStartCode
<1>4. CASE UNCHANGED vars
  BY <1>4 DEF vars
<1>5. QED
  BY <1>1, <1>2, <1>3, <1>4 DEF Next

(* In a buffer that ends clean a start code leaves a byte for the NALU.    *)
LEMMA RoomBehindCode ==
  ASSUME MemoryTypes, EndsClean, NEW p \in 0 .. inbuf_size - 1,
         IsStartCode3(p) \/ IsStartCode4(p)
  PROVE  p + PrefixLen(p) + 1 <= inbuf_size
<1>1. inbuf_size \in Nat
  BY DEF MemoryTypes
<1>2. mem[inbuf_size] # 0
  BY DEF EndsClean
<1>3. CASE IsStartCode3(p)
  <2>1. mem[p + 1] = 0 /\ mem[p + 2] = 0 /\ PrefixLen(p) = 3
    BY <1>3, StartCodeBytes DEF PrefixLen
  <2>2. p + 1 # inbuf_size /\ p + 2 # inbuf_size
    BY <1>2, <2>1
  <2>3. p + 3 # inbuf_size
    <3>1. SUFFICES ASSUME p + 3 = inbuf_size PROVE FALSE
      OBVIOUS
    <3>2. inbuf_size >= 3 /\ inbuf_size - 3 = p
      BY <1>1, <3>1
    <3>3. QED
      BY <1>3, <3>2 DEF EndsClean
  <2>4. QED
    BY <1>1, <2>1, <2>2, <2>3
<1>4. CASE ~IsStartCode3(p) /\ IsStartCode4(p)
  <2>1. /\ mem[p + 1] = 0 /\ mem[p + 2] = 0 /\ mem[p + 3] = 0 /\ mem[p + 4] = 1
        /\ PrefixLen(p) = 4
    BY <1>4, StartCodeBytes DEF PrefixLen
  <2>2. p + 1 # inbuf_size /\ p + 2 # inbuf_size /\ p + 3 # inbuf_size
    BY <1>2, <2>1
  <2>3. p + 4 # inbuf_size
    <3>1. SUFFICES ASSUME p + 4 = inbuf_size PROVE FALSE
      OBVIOUS
    <3>2. /\ inbuf_size >= 3 /\ inbuf_size - 3 = p + 1
          /\ p + 1 \in 0 .. inbuf_size - 1
      BY <1>1, <3>1
    <3>3. (p + 1) + 1 = p + 2 /\ (p + 1) + 2 = p + 3 /\ (p + 1) + 3 = p + 4
      OBVIOUS
    <3>4. IsStartCode3(p + 1)
      BY <2>1, <3>2, <3>3, StartCodeBytes
    <3>5. QED
      BY <3>2, <3>4 DEF EndsClean
  <2>4. QED
    BY <1>1, <2>1, <2>2, <2>3
<1>5. QED
  BY <1>3, <1>4

LEMMA StaysKept ==
  ASSUME Kept, [Next]_vars
  PROVE  Kept'
<1> USE DEF Kept
<1>1. TypesKept'
  BY TypesStayKept
<1>2. CASE FindNalu
  <2>1. PICK data \in Nat, next \in Nat :
          /\ data = next_nalu_ptr + PrefixLen(next_nalu_ptr)
          /\ next_nalu_ptr \in 0 .. inbuf_size - 1
          /\ IsStartCode3(next_nalu_ptr) \/ IsStartCode4(next_nalu_ptr)
          /\ next >= data + 1
          /\ next <= data + 1 \/ next <= inbuf_size
          /\ nalu'.data = data /\ nalu'.len = next - data
    BY <1>2, Finds
  <2>2. NaluHasHeader'
    BY <2>1 DEF NaluHasHeader
  <2>3. EndsClean' => nalu'.data + nalu'.len <= inbuf_size'
    <3>1. mem' = mem /\ inbuf_size' = inbuf_size
      BY <1>2 DEF FindNalu
    <3>2. SUFFICES ASSUME EndsClean PROVE nalu'.data + nalu'.len <= inbuf_size
      BY <3>1 DEF EndsClean, IsStartCode3
    <3>3. data + 1 <= inbuf_size
      BY <2>1, <3>2, RoomBehindCode DEF TypesKept
    <3>4. inbuf_size \in Nat
      BY DEF TypesKept, MemoryTypes
    <3>5. QED
      BY <2>1, <3>3, <3>4
  <2>4. QED
    BY <1>1, <2>2, <2>3 DEF NaluInsideBuffer
<1>3. CASE DataEnd \/ NoStartCode \/ UNCHANGED vars
  <2>1. UNCHANGED <<mem, inbuf_size, nalu, found>>
    BY <1>3 DEF DataEnd, NoStartCode, vars
  <2>2. QED
    BY <1>1, <2>1 DEF NaluHasHeader, NaluInsideBuffer, EndsClean, IsStartCode3
<1>4. QED
  BY <1>2, <1>3 DEF Next

LEMMA AlwaysKept == Spec => []Kept
<1>1. Init => Kept
  BY KeptAtFirst
<1>2. Kept /\ [Next]_vars => Kept'
  BY StaysKept
<1>3. QED
  BY <1>1, <1>2, PTL DEF Spec

(* Whatever bytes the buffer holds, a NALU found has at least the byte of  *)
(* its header: the scan skips the first byte behind the start code.        *)
THEOREM HeaderIsThere == Spec => []NaluHasHeader
<1>1. Kept => NaluHasHeader
  BY DEF Kept
<1>2. QED
  BY <1>1, AlwaysKept, PTL

(* In a buffer that does not end in a zero byte or in a start code, no     *)
(* NALU reaches past the end, although the scan reads up to four bytes of  *)
(* what is there.                                                          *)
THEOREM NalusAreInside == Spec => []NaluInsideBuffer
<1>1. Kept => NaluInsideBuffer
  BY DEF Kept
<1>2. QED
  BY <1>1, AlwaysKept, PTL

--------------------------------------------------------------------------------
(* A buffer an encoder wrote.                                              *)

Codes == {StartCode3, StartCode4}

LEMMA CodeLengths ==
  /\ Len(StartCode3) = 3 /\ StartCode3[1] = 0 /\ StartCode3[2] = 0
  /\ StartCode3[3] = 1 /\ StartCode3 \in Seq(Byte)
  /\ Len(StartCode4) = 4 /\ StartCode4[1] = 0 /\ StartCode4[2] = 0
  /\ StartCode4[3] = 0 /\ StartCode4[4] = 1 /\ StartCode4 \in Seq(Byte)
  BY DEF StartCode3, StartCode4, Byte

(* Where a start code is, the scan sees it, and which of the two it is.    *)
LEMMA CodeIsSeen ==
  ASSUME MemoryTypes, NEW p \in 0 .. inbuf_size - 1, NEW c \in Codes,
         \A j \in 1 .. Len(c) : mem[p + j] = c[j]
  PROVE  /\ IsStartCode3(p) \/ IsStartCode4(p)
         /\ PrefixLen(p) = Len(c)
<1>1. CASE c = StartCode3
  <2>1. \A j \in 1 .. 3 : mem[p + j] = StartCode3[j]
    BY <1>1, CodeLengths
  <2>2. IsStartCode3(p)
    BY <2>1, CodeLengths, StartCodeBytes
  <2>3. QED
    BY <1>1, <2>2, CodeLengths DEF PrefixLen
<1>2. CASE c = StartCode4
  <2>1. \A j \in 1 .. 4 : mem[p + j] = StartCode4[j]
    BY <1>2, CodeLengths
  <2>2. IsStartCode4(p) /\ mem[p + 3] = 0
    BY <2>1, CodeLengths, StartCodeBytes
  <2>3. ~IsStartCode3(p)
    BY <2>2, StartCodeBytes
  <2>4. QED
    BY <1>2, <2>2, <2>3, CodeLengths DEF PrefixLen
<1>3. QED
  BY <1>1, <1>2 DEF Codes

(* A NALU does not hold a start code, byte by byte.                        *)
LEMMA NaluBytes ==
  ASSUME NEW w \in Seq(Byte), IsNalu(w)
  PROVE  /\ Len(w) \in Nat \ {0} /\ w[Len(w)] # 0
         /\ \A i \in 1 .. Len(w) - 2 : ~(w[i] = 0 /\ w[i + 1] = 0 /\ w[i + 2] = 1)
<1>1. Len(w) \in Nat \ {0} /\ w[Len(w)] # 0
  BY DEF IsNalu
<1>2. ASSUME NEW i \in 1 .. Len(w) - 2, w[i] = 0, w[i + 1] = 0, w[i + 2] = 1
      PROVE  FALSE
  <2> DEFINE s == SubSeq(w, i, i + 2)
  <2>1. s # StartCode3
    BY DEF IsNalu
  <2>2. i \in 1 .. Len(w) /\ i + 1 \in 1 .. Len(w) /\ i + 2 \in 1 .. Len(w)
    BY <1>1
  <2>3. s \in Seq(Byte) /\ Len(s) = 3 /\ \A j \in 1 .. 3 : s[j] = w[i + j - 1]
    BY <2>2
  <2>4. s[1] = w[i] /\ s[2] = w[i + 1] /\ s[3] = w[i + 2]
    BY <2>3
  <2> HIDE DEF s
  <2>5. s = <<0, 0, 1>>
    BY <1>2, <2>3, <2>4
  <2>6. QED
    BY <2>1, <2>5 DEF StartCode3
<1>3. QED
  BY <1>1, <1>2

(* The scan of a NALU stops where the NALU ends: no start code is in it,   *)
(* and none begins with its last bytes.                                    *)
LEMMA ScanCutsNalu ==
  ASSUME MemoryTypes, NEW w \in Seq(Byte), IsNalu(w), NEW data \in Nat,
         data + Len(w) <= inbuf_size, Stops(data + Len(w)),
         \A j \in 1 .. Len(w) : mem[data + j] = w[j]
  PROVE  /\ ScanFrom(data) = data + Len(w)
         /\ SubSeq(mem, data + 1, data + Len(w)) = w
<1> DEFINE n == Len(w)
           e == data + n
<1>1. /\ n \in Nat \ {0} /\ w[n] # 0
      /\ \A i \in 1 .. n - 2 : ~(w[i] = 0 /\ w[i + 1] = 0 /\ w[i + 2] = 1)
  BY NaluBytes
<1>2. inbuf_size \in Nat /\ e <= inbuf_size /\ Stops(e)
  BY DEF MemoryTypes
<1>3. \A j \in 1 .. n : mem[data + j] = w[j]
  OBVIOUS
<1> HIDE DEF n
<1>4. ASSUME NEW p \in data + 1 .. e - 1 PROVE ~Stops(p)
  <2>1. PICK j \in 1 .. n - 1 : p = data + j
    <3>1. p - data \in 1 .. n - 1 /\ p = data + (p - data)
      BY <1>1
    <3>2. QED
      BY <3>1
  <2>2. p \in 0 .. inbuf_size - 1 /\ ~(p >= inbuf_size)
    BY <1>1, <1>2
  <2>3. \A k \in 1 .. n - j : mem[p + k] = w[j + k]
    <3>1. ASSUME NEW k \in 1 .. n - j PROVE mem[p + k] = w[j + k]
      <4>1. j + k \in 1 .. n /\ p + k = data + (j + k)
        BY <1>1, <2>1
      <4>2. QED
        BY <1>3, <4>1
    <3>2. QED
      BY <3>1
  <2>4. mem[p + (n - j)] # 0 /\ n - j \in 1 .. n - j
    <3>1. n - j \in 1 .. n - j /\ j + (n - j) = n
      BY <1>1
    <3>2. QED
      BY <1>1, <2>3, <3>1
  <2>5. ~IsStartCode3(p)
    <3>1. SUFFICES ASSUME mem[p + 1] = 0, mem[p + 2] = 0, mem[p + 3] = 1
                   PROVE  FALSE
      BY <2>2, StartCodeBytes
    <3>2. n - j # 1 /\ n - j # 2
      BY <2>4, <3>1
    <3>3. /\ j + 1 \in 1 .. n - 2 /\ 1 \in 1 .. n - j /\ 2 \in 1 .. n - j
          /\ 3 \in 1 .. n - j /\ (j + 1) + 1 = j + 2 /\ (j + 1) + 2 = j + 3
      BY <1>1, <3>2
    <3>4. w[j + 1] = 0 /\ w[j + 2] = 0 /\ w[j + 3] = 1
      BY <2>3, <3>1, <3>3
    <3>5. QED
      BY <1>1, <3>3, <3>4
  <2>6. ~IsStartCode4(p)
    <3>1. SUFFICES ASSUME mem[p + 1] = 0, mem[p + 2] = 0, mem[p + 3] = 0,
                          mem[p + 4] = 1
                   PROVE  FALSE
      BY <2>2, StartCodeBytes
    <3>2. n - j # 1 /\ n - j # 2 /\ n - j # 3
      BY <2>4, <3>1
    <3>3. /\ j + 2 \in 1 .. n - 2 /\ 2 \in 1 .. n - j /\ 3 \in 1 .. n - j
          /\ 4 \in 1 .. n - j /\ (j + 2) + 1 = j + 3 /\ (j + 2) + 2 = j + 4
      BY <1>1, <3>2
    <3>4. w[j + 2] = 0 /\ w[j + 3] = 0 /\ w[j + 4] = 1
      BY <2>3, <3>1, <3>3
    <3>5. QED
      BY <1>1, <3>3, <3>4
  <2>7. QED
    BY <2>2, <2>5, <2>6 DEF Stops
<1>5. ScanFrom(data) = e
  <2>1. e \in Nat /\ e >= data + 1
    BY <1>1
  <2> HIDE DEF e
  <2>2. QED
    BY <1>2, <1>4, <2>1, ScanStopsFirst
<1>6. SubSeq(mem, data + 1, e) = w
  <2> DEFINE s == SubSeq(mem, data + 1, e)
  <2>1. e <= Len(mem) /\ e \in Nat
    BY <1>1, <1>2 DEF MemoryTypes
  <2>2. s \in Seq(Byte) /\ Len(s) = n /\ \A i \in 1 .. n : s[i] = mem[data + i]
    <3>1. \A i \in data + 1 .. e : mem[i] \in Byte
      BY <2>1 DEF MemoryTypes
    <3>2. e - (data + 1) + 1 = n /\ \A i \in 1 .. n : (data + 1) + i - 1 = data + i
      BY <1>1
    <3>3. data + 1 <= e + 1
      BY <1>1
    <3>4. QED
      BY <1>1, <2>1, <3>1, <3>2, <3>3, SubSeqProperties DEF MemoryTypes
  <2> HIDE DEF s
  <2>3. Len(s) = Len(w) /\ \A i \in 1 .. Len(w) : s[i] = w[i]
    BY <1>3, <2>2 DEF n
  <2>4. s = w
    BY <2>2, <2>3
  <2>5. QED
    BY <2>4 DEF s
<1>7. QED
  BY <1>5, <1>6 DEF n

(* Each NALU is where at says, behind its start code.                      *)
Placed(codes, at) ==
  /\ codes \in [1 .. Len(written) -> Codes]
  /\ at \in [1 .. Len(written) + 1 -> 0 .. inbuf_size]
  /\ at[1] = 0 /\ at[Len(written) + 1] = inbuf_size
  /\ \A i \in 1 .. Len(written) :
       LET data == at[i] + Len(codes[i])
       IN  /\ at[i + 1] = data + Len(written[i])
           /\ \A j \in 1 .. Len(codes[i]) : mem[at[i] + j] = codes[i][j]
           /\ \A j \in 1 .. Len(written[i]) : mem[data + j] = written[i][j]

(* The scan has cut off the first of them and stands at the next.          *)
Cut(at) ==
  /\ Len(found) <= Len(written)
  /\ \A i \in 1 .. Len(found) : found[i] = written[i]
  /\ next_nalu_ptr = IF Len(found) = Len(written) THEN NULL ELSE at[Len(found) + 1]
  /\ ret # 1 => ret = 0 /\ Len(found) = Len(written)

Series ==
  /\ written \in Seq(Seq(Byte)) /\ Len(written) \in Nat \ {0}
  /\ \A i \in 1 .. Len(written) : IsNalu(written[i])
  /\ \E codes, at : Placed(codes, at) /\ Cut(at)

CutInv == TypesKept /\ (written # <<>> => Series)

(* What the scan meets at the place of a NALU.                             *)
LEMMA AtItsPlace ==
  ASSUME MemoryTypes, written \in Seq(Seq(Byte)),
         \A i \in 1 .. Len(written) : IsNalu(written[i]),
         NEW codes, NEW at, Placed(codes, at), NEW i \in 1 .. Len(written)
  PROVE  LET data == at[i] + Len(codes[i])
         IN  /\ at[i] \in 0 .. inbuf_size - 1
             /\ IsStartCode3(at[i]) \/ IsStartCode4(at[i])
             /\ PrefixLen(at[i]) = Len(codes[i])
             /\ data \in Nat
             /\ data + Len(written[i]) = at[i + 1]
             /\ at[i + 1] <= inbuf_size
<1>1. /\ codes[i] \in Codes /\ Len(written) \in Nat
      /\ i \in 1 .. Len(written) + 1 /\ i + 1 \in 1 .. Len(written) + 1
  <2>1. codes \in [1 .. Len(written) -> Codes]
    BY Zenon DEF Placed
  <2>2. codes[i] \in Codes
    BY ONLY <2>1, i \in 1 .. Len(written)
  <2>3. Len(written) \in Nat
    BY ONLY written \in Seq(Seq(Byte))
  <2>4. i \in 1 .. Len(written) + 1 /\ i + 1 \in 1 .. Len(written) + 1
    BY ONLY <2>3, i \in 1 .. Len(written)
  <2>5. QED
    BY ONLY <2>2, <2>3, <2>4
<1>2. PICK p \in Nat, q \in Nat, c \in Codes, w \in Seq(Byte) :
        /\ p = at[i] /\ q = at[i + 1] /\ c = codes[i] /\ w = written[i]
        /\ q <= inbuf_size
  <2>1. at[i] \in 0 .. inbuf_size /\ at[i + 1] \in 0 .. inbuf_size
    BY <1>1 DEF Placed
  <2>2. at[i] \in Nat /\ at[i + 1] \in Nat /\ at[i + 1] <= inbuf_size
    BY <2>1 DEF MemoryTypes
  <2>3. written[i] \in Seq(Byte)
    OBVIOUS
  <2>4. QED
    BY <1>1, <2>2, <2>3
<1>3. q = p + Len(c) + Len(w) /\ \A j \in 1 .. Len(c) : mem[p + j] = c[j]
  BY <1>2 DEF Placed
<1>4. Len(w) \in Nat \ {0}
  BY <1>2, NaluBytes
<1>5. Len(c) \in Nat
  BY CodeLengths DEF Codes
<1>6. p \in 0 .. inbuf_size - 1 /\ p + Len(c) \in Nat
  <2> DEFINE a == Len(c)
             b == Len(w)
  <2>1. a \in Nat /\ b \in Nat \ {0} /\ q = p + a + b
    BY <1>3, <1>4, <1>5
  <2> HIDE DEF a, b
  <2>2. inbuf_size \in Nat /\ q <= inbuf_size
    BY <1>2 DEF MemoryTypes
  <2>3. p \in 0 .. inbuf_size - 1 /\ p + a \in Nat
    BY <2>1, <2>2
  <2>4. QED
    BY <2>3 DEF a
<1>7. /\ IsStartCode3(p) \/ IsStartCode4(p)
      /\ PrefixLen(p) = Len(c)
  BY <1>3, <1>6, CodeIsSeen
<1>8. QED
  BY <1>2, <1>3, <1>6, <1>7

(* The buffer as it was written.                                           *)
LEMMA SeriesAtFirst ==
  ASSUME InitWritten
  PROVE  Series
<1>1. PICK n \in 1 .. MaxNalus :
        /\ written \in [1 .. n -> NaluSet]
        /\ \E codes \in [1 .. n -> Codes], behind \in Behind :
             PackPut(WithStartCodes(written, codes), behind)
  BY DEF InitWritten, Codes
<1>2. PICK codes \in [1 .. n -> Codes], behind \in Behind :
        PackPut(WithStartCodes(written, codes), behind)
  BY <1>1
<1>3. n \in Nat \ {0}
  BY BoundsAssumption
<1>4. /\ written \in Seq(Seq(Byte)) /\ Len(written) = n
      /\ \A i \in 1 .. n : IsNalu(written[i])
  <2>1. \A s \in NaluSet : s \in Seq(Byte) /\ IsNalu(s)
    BY BoundsAssumption, ByteSeqsAreSequences DEF NaluSet
  <2>2. written \in [1 .. n -> Seq(Byte)]
    BY <1>1, <2>1
  <2>3. QED
    BY <1>1, <1>3, <2>1, <2>2
<1> DEFINE seqs == [i \in 1 .. n |-> codes[i] \o written[i]]
           buf == WithStartCodes(written, codes)
<1>5. /\ buf \in Seq(Byte)
      /\ \E at : Laid(seqs, buf, at)
  BY <1>1, <1>3, SeriesIsLaid DEF Codes
<1>6. PICK at : Laid(seqs, buf, at)
  BY <1>5
<1>7. /\ mem = buf \o behind /\ inbuf_size = Len(buf)
      /\ next_nalu_ptr = 0 /\ found = <<>> /\ ret = 1
  BY <1>2 DEF PackPut
<1>8. /\ Len(seqs) = n
      /\ \A i \in 1 .. n : seqs[i] = codes[i] \o written[i]
  BY <1>3
<1> HIDE DEF seqs, buf
<1>9. /\ at \in [1 .. n + 1 -> 0 .. inbuf_size]
      /\ at[1] = 0 /\ at[n + 1] = inbuf_size
  BY <1>6, <1>7, <1>8 DEF Laid
<1>10. ASSUME NEW j \in 1 .. inbuf_size PROVE mem[j] = buf[j]
  <2>1. behind \in Seq(Byte)
    <3>1. PICK four \in Nat : four = 4
      OBVIOUS
    <3>2. behind \in [1 .. four -> Byte]
      BY <3>1 DEF Behind, Byte
    <3>3. QED
      BY <3>2
  <2>2. QED
    BY <1>5, <1>7, <2>1, ConcatParts
<1>11. ASSUME NEW i \in 1 .. n
       PROVE  LET data == at[i] + Len(codes[i])
              IN  /\ at[i + 1] = data + Len(written[i])
                  /\ \A j \in 1 .. Len(codes[i]) : mem[at[i] + j] = codes[i][j]
                  /\ \A j \in 1 .. Len(written[i]) : mem[data + j] = written[i][j]
  <2>1. PICK c \in Seq(Byte), w \in Seq(Byte) : c = codes[i] /\ w = written[i]
    <3>1. codes[i] \in Seq(Byte)
      <4>1. codes[i] \in Codes
        BY <1>2
      <4>2. QED
        BY <4>1, CodeLengths DEF Codes
    <3>2. written[i] \in Seq(Byte)
      BY <1>4
    <3>3. QED
      BY <3>1, <3>2
  <2>2. /\ Len(c) \in Nat /\ Len(w) \in Nat
        /\ Len(c \o w) = Len(c) + Len(w)
        /\ \A j \in 1 .. Len(c) : (c \o w)[j] = c[j]
        /\ \A j \in 1 .. Len(w) : (c \o w)[Len(c) + j] = w[j]
    BY ConcatParts
  <2>3. PICK p \in Nat, q \in Nat : p = at[i] /\ q = at[i + 1] /\ q <= inbuf_size
    <3>1. i \in 1 .. n + 1 /\ i + 1 \in 1 .. n + 1
      BY <1>3
    <3>2. inbuf_size \in Nat
      BY <1>5, <1>7
    <3>3. QED
      BY <1>9, <3>1, <3>2
  <2>4. /\ q = p + Len(c \o w)
        /\ \A j \in 1 .. Len(c \o w) : buf[p + j] = (c \o w)[j]
    <3>1. seqs[i] = c \o w
      BY <1>8, <2>1
    <3>2. /\ at[i + 1] = at[i] + Len(seqs[i])
          /\ \A j \in 1 .. Len(seqs[i]) : buf[at[i] + j] = seqs[i][j]
      BY <1>6, <1>8 DEF Laid
    <3>3. QED
      BY <2>3, <3>1, <3>2
  <2> DEFINE a == Len(c)
             b == Len(w)
             u == c \o w
  <2>5. /\ a \in Nat /\ b \in Nat /\ Len(u) = a + b /\ q = p + Len(u)
        /\ \A j \in 1 .. a : u[j] = c[j]
        /\ \A j \in 1 .. b : u[a + j] = w[j]
        /\ \A j \in 1 .. Len(u) : buf[p + j] = u[j]
    BY <2>2, <2>4
  <2> HIDE DEF a, b, u
  <2>6. inbuf_size \in Nat
    BY <1>5, <1>7
  <2>7. ASSUME NEW j \in 1 .. a PROVE mem[p + j] = c[j]
    <3>1. j \in 1 .. Len(u) /\ p + j \in 1 .. inbuf_size
      BY <2>3, <2>5, <2>6
    <3>2. QED
      BY <1>10, <2>5, <3>1
  <2>8. ASSUME NEW j \in 1 .. b PROVE mem[(p + a) + j] = w[j]
    <3>1. a + j \in 1 .. Len(u) /\ (p + a) + j = p + (a + j)
      BY <2>5
    <3>2. p + (a + j) \in 1 .. inbuf_size
      BY <2>3, <2>5, <2>6
    <3>3. QED
      BY <1>10, <2>5, <3>1, <3>2
  <2>9. q = (p + a) + b
    BY <2>5
  <2>10. QED
    BY <2>1, <2>3, <2>7, <2>8, <2>9 DEF a, b
<1>12. Placed(codes, at)
  BY <1>4, <1>9, <1>11 DEF Placed
<1>13. Cut(at)
  BY <1>3, <1>4, <1>7, <1>9 DEF Cut
<1>14. QED
  BY <1>3, <1>4, <1>12, <1>13 DEF Series

(* One NALU more is cut off, where it was put.                             *)
LEMMA CutsOneMore ==
  ASSUME CutInv, written # <<>>, FindNalu
  PROVE  Series'
<1>1. MemoryTypes /\ Series /\ found \in Seq(Seq(Byte))
  BY DEF CutInv, TypesKept
<1>2. PICK codes, at : Placed(codes, at) /\ Cut(at)
  BY <1>1 DEF Series
<1>3. /\ written \in Seq(Seq(Byte)) /\ Len(written) \in Nat \ {0}
      /\ \A i \in 1 .. Len(written) : IsNalu(written[i])
  BY <1>1 DEF Series
<1>4. UNCHANGED <<written, mem, inbuf_size>> /\ ret' = 1 /\ next_nalu_ptr # NULL
  BY DEF FindNalu
<1> DEFINE k == Len(found)
           n == Len(written)
<1>5. /\ k \in Nat /\ k <= n /\ k # n /\ n \in Nat /\ next_nalu_ptr = at[k + 1]
      /\ \A i \in 1 .. k : found[i] = written[i]
  <2>1. k \in Nat
    BY <1>1
  <2>2. QED
    BY <1>2, <1>3, <1>4, <2>1 DEF Cut
<1> HIDE DEF k
<1>6. k + 1 \in 1 .. n
  BY <1>5
<1>7. PICK w \in Seq(Byte) : w = written[k + 1] /\ IsNalu(w)
  BY <1>3, <1>6
<1>8. PICK data \in Nat, e \in Nat :
        /\ data = at[k + 1] + Len(codes[k + 1])
        /\ data = next_nalu_ptr + PrefixLen(next_nalu_ptr)
        /\ e = at[(k + 1) + 1]
        /\ data + Len(w) = e
        /\ e <= inbuf_size
  <2>1. LET data == at[k + 1] + Len(codes[k + 1])
        IN  /\ PrefixLen(at[k + 1]) = Len(codes[k + 1])
            /\ data \in Nat
            /\ data + Len(written[k + 1]) = at[(k + 1) + 1]
            /\ at[(k + 1) + 1] <= inbuf_size
    <3>1. PICK i \in 1 .. Len(written) : i = k + 1
      BY <1>6
    <3>2. LET data == at[i] + Len(codes[i])
          IN  /\ PrefixLen(at[i]) = Len(codes[i])
              /\ data \in Nat
              /\ data + Len(written[i]) = at[i + 1]
              /\ at[i + 1] <= inbuf_size
      BY <1>1, <1>2, <1>3, AtItsPlace
    <3>3. QED
      BY <3>1, <3>2
  <2>2. at[(k + 1) + 1] \in Nat
    <3>1. (k + 1) + 1 \in 1 .. n + 1
      BY <1>5
    <3>2. at[(k + 1) + 1] \in 0 .. inbuf_size
      BY <1>2, <3>1 DEF Placed
    <3>3. QED
      BY <1>1, <3>2 DEF MemoryTypes
  <2>3. QED
    BY <1>5, <1>7, <2>1, <2>2
<1>9. /\ k + 1 = n => e = inbuf_size
      /\ k + 1 # n => /\ e < inbuf_size
                      /\ IsStartCode3(e) \/ IsStartCode4(e)
  <2>1. CASE k + 1 = n
    <3>1. (k + 1) + 1 = n + 1
      BY <2>1
    <3>2. QED
      BY <1>2, <1>8, <2>1, <3>1 DEF Placed
  <2>2. CASE k + 1 # n
    <3>1. (k + 1) + 1 \in 1 .. n
      BY <1>5, <2>2
    <3>2. /\ e \in 0 .. inbuf_size - 1
          /\ IsStartCode3(e) \/ IsStartCode4(e)
      BY <1>1, <1>2, <1>3, <1>8, <3>1, AtItsPlace
    <3>3. QED
      BY <1>1, <2>2, <3>2 DEF MemoryTypes
  <2>3. QED
    BY <2>1, <2>2
<1>10. ScanFrom(data) = e /\ SubSeq(mem, data + 1, e) = w
  <2>1. Stops(data + Len(w)) /\ data + Len(w) <= inbuf_size
    BY <1>8, <1>9 DEF Stops
  <2>2. \A j \in 1 .. Len(w) : mem[data + j] = w[j]
    BY <1>2, <1>6, <1>7, <1>8 DEF Placed
  <2>3. /\ ScanFrom(data) = data + Len(w)
        /\ SubSeq(mem, data + 1, data + Len(w)) = w
    BY <1>1, <1>7, <2>1, <2>2, ScanCutsNalu
  <2>4. QED
    BY <1>8, <2>3
<1>11. /\ found' = Append(found, w)
       /\ next_nalu_ptr' = IF e >= inbuf_size THEN NULL ELSE e
  BY <1>8, <1>10 DEF FindNalu
<1>12. /\ found' \in Seq(Seq(Byte)) /\ Len(found') = k + 1
       /\ \A i \in 1 .. k + 1 : found'[i] = written[i]
  <2>1. /\ found' \in Seq(Seq(Byte)) /\ Len(found') = k + 1
        /\ \A i \in 1 .. k : found'[i] = found[i]
        /\ found'[k + 1] = w
    BY <1>1, <1>7, <1>11, AppendProperties DEF k
  <2>2. \A i \in 1 .. k + 1 : i \in 1 .. k \/ i = k + 1
    BY <1>5
  <2>3. QED
    BY <1>5, <1>7, <2>1, <2>2
<1>13. next_nalu_ptr' = IF k + 1 = n THEN NULL ELSE at[(k + 1) + 1]
  BY <1>1, <1>8, <1>9, <1>11 DEF MemoryTypes
<1>14. Cut(at)'
  <2>1. at' = at
    OBVIOUS
  <2>2. k + 1 <= n
    BY <1>5
  <2>3. QED
    BY <1>4, <1>12, <1>13, <2>2 DEF Cut
<1>15. Placed(codes, at)'
  BY <1>2, <1>4 DEF Placed
<1>16. QED
  BY <1>3, <1>4, <1>14, <1>15 DEF Series

LEMMA SeriesStays ==
  ASSUME CutInv, [Next]_vars
  PROVE  CutInv'
<1>1. TypesKept'
  BY TypesStayKept DEF CutInv
<1>2. CASE FindNalu
  <2>1. written' = written
    BY <1>2 DEF FindNalu
  <2>2. QED
    BY <1>1, <1>2, <2>1, CutsOneMore DEF CutInv
<1>3. CASE DataEnd
  <2>1. /\ UNCHANGED <<written, mem, inbuf_size, next_nalu_ptr, found>>
        /\ ret' = 0 /\ next_nalu_ptr = NULL
    BY <1>3 DEF DataEnd
  <2>2. SUFFICES ASSUME written # <<>> PROVE Series'
    BY <1>1, <2>1 DEF CutInv
  <2>3. Series /\ found \in Seq(Seq(Byte))
    BY <2>2 DEF CutInv, TypesKept
  <2>4. PICK codes, at : Placed(codes, at) /\ Cut(at)
    BY <2>3 DEF Series
  <2>5. Len(found) = Len(written)
    <3>1. SUFFICES ASSUME Len(found) # Len(written) PROVE FALSE
      OBVIOUS
    <3>2. next_nalu_ptr = at[Len(found) + 1]
      BY <2>4, <3>1 DEF Cut
    <3>3. PICK k \in Nat, n \in Nat : k = Len(found) /\ n = Len(written)
      BY <2>3 DEF Series
    <3>4. k + 1 \in 1 .. n + 1
      BY <2>4, <3>3 DEF Cut
    <3>5. at[k + 1] \in 0 .. inbuf_size
      BY <2>4, <3>3, <3>4 DEF Placed
    <3>6. QED
      BY <2>1, <3>2, <3>3, <3>5 DEF NULL
  <2>6. Cut(at)' /\ Placed(codes, at)'
    BY <2>1, <2>4, <2>5 DEF Cut, Placed
  <2>7. QED
    BY <2>1, <2>3, <2>6 DEF Series
<1>4. CASE NoStartCode
  <2>1. /\ UNCHANGED <<written, mem, inbuf_size, next_nalu_ptr, found>>
        /\ next_nalu_ptr # NULL
        /\ ~IsStartCode3(next_nalu_ptr) /\ ~IsStartCode4(next_nalu_ptr)
    BY <1>4 DEF NoStartCode
  <2>2. SUFFICES ASSUME written # <<>> PROVE FALSE
    BY <1>1, <2>1 DEF CutInv
  <2>3. Series /\ MemoryTypes /\ found \in Seq(Seq(Byte))
    BY <2>2 DEF CutInv, TypesKept
  <2>4. PICK codes, at : Placed(codes, at) /\ Cut(at)
    BY <2>3 DEF Series
  <2>5. Len(found) # Len(written) /\ next_nalu_ptr = at[Len(found) + 1]
    BY <2>1, <2>4 DEF Cut
  <2>6. PICK k \in Nat, n \in Nat : k = Len(found) /\ n = Len(written)
    BY <2>3 DEF Series
  <2>7. k + 1 \in 1 .. n
    BY <2>4, <2>5, <2>6 DEF Cut
  <2>8. IsStartCode3(at[k + 1]) \/ IsStartCode4(at[k + 1])
    BY <2>3, <2>4, <2>6, <2>7, AtItsPlace DEF Series
  <2>9. QED
    BY <2>1, <2>5, <2>6, <2>8
<1>5. CASE UNCHANGED vars
  <2>1. UNCHANGED <<written, mem, inbuf_size, next_nalu_ptr, found, ret>>
    BY <1>5 DEF vars
  <2>2. ASSUME Series PROVE Series'
    <3>1. PICK codes, at : Placed(codes, at) /\ Cut(at)
      BY <2>2 DEF Series
    <3>2. Placed(codes, at)' /\ Cut(at)'
      BY <2>1, <3>1 DEF Placed, Cut
    <3>3. QED
      BY <2>1, <2>2, <3>2 DEF Series
  <2>3. QED
    BY <1>1, <2>1, <2>2 DEF CutInv
<1>6. QED
  BY <1>2, <1>3, <1>4, <1>5 DEF Next

LEMMA CutInvImplies ==
  ASSUME CutInv
  PROVE  CutsAsWritten
<1>1. SUFFICES ASSUME written # <<>>
               PROVE  /\ IsPrefix(found, written)
                      /\ ret # 1 => found = written /\ ret = 0
  BY DEF CutsAsWritten
<1>2. Series /\ found \in Seq(Seq(Byte)) /\ written \in Seq(Seq(Byte))
  BY <1>1 DEF CutInv, TypesKept, Series
<1>3. PICK at : Cut(at)
  BY <1>2 DEF Series
<1>4. /\ Len(found) <= Len(written)
      /\ \A i \in 1 .. Len(found) : found[i] = written[i]
      /\ ret # 1 => ret = 0 /\ Len(found) = Len(written)
  BY <1>3 DEF Cut
<1>5. SubSeq(found, 1, Len(found)) = SubSeq(written, 1, Len(found))
  <2>1. PICK k \in Nat, n \in Nat : k = Len(found) /\ n = Len(written)
    BY <1>2
  <2>2. k <= n /\ \A i \in 1 .. k : found[i] = written[i]
    BY <1>4, <2>1
  <2>3. \A i \in 1 .. k : 1 + i - 1 = i /\ i \in 1 .. k /\ i \in 1 .. n
    BY <2>2
  <2>4. /\ SubSeq(found, 1, k) = [i \in 1 .. k |-> found[i]]
        /\ SubSeq(written, 1, k) = [i \in 1 .. k |-> written[i]]
    BY <1>2, <2>1, <2>2
  <2>5. QED
    BY <2>1, <2>2, <2>4
<1>6. Len(found) = Len(written) => found = written
  <2>1. SUFFICES ASSUME Len(found) = Len(written) PROVE found = written
    OBVIOUS
  <2>2. \A i \in 1 .. Len(found) : found[i] = written[i]
    BY <1>4
  <2>3. QED
    BY ONLY <1>2, <2>1, <2>2, SeqEqual
<1>7. QED
  BY <1>4, <1>5, <1>6 DEF IsPrefix

(* The scan cuts a buffer an encoder wrote into the NALUs it was put       *)
(* together from, in their order, whatever start codes they have and       *)
(* whatever the memory behind the buffer holds, and it ends with the last. *)
THEOREM ScanCutsAsWritten == Spec => []CutsAsWritten
<1>1. Init => CutInv
  <2>1. InitRaw => written = <<>>
    BY DEF InitRaw
  <2>2. QED
    BY <2>1, KeptAtFirst, SeriesAtFirst DEF Init, CutInv, Kept
<1>2. CutInv /\ [Next]_vars => CutInv'
  BY SeriesStays
<1>3. CutInv => CutsAsWritten
  BY CutInvImplies
<1>4. QED
  BY <1>1, <1>2, <1>3, PTL DEF Spec

================================================================================
