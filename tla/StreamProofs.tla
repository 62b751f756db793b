---------------------------- MODULE StreamProofs ----------------------------
(***************************************************************************)
(* Proof that StdioStream implements AbstractStream, for every buffer      *)
(* size, every set of bytes, every length of a file and every host that    *)
(* reads short or fails.                                                   *)
(*                                                                         *)
(* Everything rests on what a program sees of a FILE f: View(f), the file  *)
(* with what f still holds back laid over it, Position(f), and InputOf(f), *)
(* the bytes a read returns next.  There is one lemma per operation of     *)
(* stdio, which says what it does to these three, and one per action of    *)
(* the abstract stream, which says when a step of stdio is that action.    *)
(*                                                                         *)
(*   1  sequences, the size of the buffer       5  writing                 *)
(*   2  one write of the host after another     6  pushing back            *)
(*   3  the FILE, and what is seen of it        7  seeking, flushing       *)
(*   4  reading                                 8  the refinement          *)
(***************************************************************************)
EXTENDS StdioStream, SequenceTheorems, FiniteSetTheorems, WellFoundedInduction, TLAPS

(***************************************************************************)
(* 1  Sequences, and the size of the buffer                                *)
(***************************************************************************)
LEMMA IsSeq ==
  ASSUME NEW n \in Nat, NEW s \in [1 .. n -> Nat]
  PROVE  s \in Seq(Nat) /\ Len(s) = n
<1>1. s \in Seq(Nat)
  BY SeqDef
<1>2. DOMAIN s = 1 .. n /\ DOMAIN s = 1 .. Len(s) /\ Len(s) \in Nat
  BY <1>1, LenProperties
<1> QED BY <1>1, <1>2

LEMMA PrefixIs ==
  ASSUME NEW s \in Seq(Nat), NEW n \in 0 .. Len(s)
  PROVE  /\ Prefix(s, n) \in Seq(Nat) /\ Len(Prefix(s, n)) = n
         /\ \A i \in 1 .. n : Prefix(s, n)[i] = s[i]
<1>1. Len(s) \in Nat /\ \A i \in 1 .. n : s[i] \in Nat
  BY LenProperties, ElementOfSeq
<1> QED BY <1>1, SubSeqProperties DEF Prefix

LEMMA BeyondIs ==
  ASSUME NEW s \in Seq(Nat), NEW n \in Nat
  PROVE  /\ Beyond(s, n) \in Seq(Nat)
         /\ Len(Beyond(s, n)) = IF n < Len(s) THEN Len(s) - n ELSE 0
         /\ \A i \in 1 .. Len(s) - n : Beyond(s, n)[i] = s[n + i]
<1>1. Len(s) \in Nat /\ \A i \in n + 1 .. Len(s) : s[i] \in Nat
  BY LenProperties, ElementOfSeq
<1>2. /\ Beyond(s, n) \in Seq(Nat)
      /\ Len(Beyond(s, n)) = IF n + 1 <= Len(s) THEN Len(s) - (n + 1) + 1 ELSE 0
      /\ \A i \in 1 .. Len(s) - (n + 1) + 1 : Beyond(s, n)[i] = s[n + 1 + i - 1]
  BY <1>1, SubSeqProperties DEF Beyond
<1> QED BY <1>1, <1>2

\* What a FILE may be at all
FILES ==
  [rpos : Nat, rend : Nat, wbase : Nat, wpos : Nat, wend : Nat,
   mem : [1 .. UNGET + Max({BUFSIZ} \cup VbufSizes) -> Nat],
   size : Nat, line : BOOLEAN, eof : BOOLEAN, err : BOOLEAN, nord : BOOLEAN, nowr : BOOLEAN,
   app : BOOLEAN, data : Seq(Nat), off : Nat]

LEMMA MinOfNaturals ==
  ASSUME NEW S, S \subseteq Nat, S # {}
  PROVE  Min(S) \in S /\ \A y \in S : Min(S) <= y
<1>1. PICK x \in S : \A y \in S : ~ (<<y, x>> \in OpToRel(<, Nat))
  BY NatLessThanWellFounded, WFMin, Zenon
<1>2. \A y \in S : ~(y < x)
  BY <1>1 DEF OpToRel
<1>3. \A y \in S : x <= y
  BY <1>2
<1> QED BY <1>3, Zenon DEF Min

LEMMA BoundOneMore ==
  ASSUME NEW n \in Nat, NEW e \in [1 .. n -> Nat], NEW m \in 1 .. n,
         NEW u \in Nat, \A i \in 1 .. m - 1 : e[i] <= u
  PROVE  \E v \in Nat : \A i \in 1 .. m : e[i] <= v
<1>1. PICK w \in Nat : w = e[m]
  OBVIOUS
<1>2. ASSUME NEW i \in 1 .. m PROVE e[i] <= u + w
  <2>1. CASE i = m
    BY <1>1, <2>1
  <2>2. CASE i # m
    <3>1. i \in 1 .. m - 1 /\ i \in 1 .. n
      BY <2>2
    <3>2. e[i] \in Nat /\ e[i] <= u
      BY <3>1
    <3> QED BY <3>2
  <2> QED BY <2>1, <2>2
<1>3. u + w \in Nat
  OBVIOUS
<1> QED BY <1>2, <1>3

\* A finite set of naturals is bounded, and has a largest member.
LEMMA FiniteIsBounded ==
  ASSUME NEW S, S \subseteq Nat, IsFiniteSet(S)
  PROVE  \E u \in Nat : \A x \in S : x <= u
<1>1. PICK n \in Nat : ExistsSurjection(1 .. n, S)
  BY FS_NatSurjection
<1>2. PICK e \in [1 .. n -> S] : \A x \in S : \E i \in 1 .. n : e[i] = x
  BY <1>1 DEF ExistsSurjection, Surjection
<1>6. e \in [1 .. n -> Nat]
  BY <1>2
<1> DEFINE B == {j \in 0 .. n : ~ \E u \in Nat : \A i \in 1 .. j : e[i] <= u}
<1>3. B = {}
  <2> SUFFICES ASSUME B # {} PROVE FALSE
    OBVIOUS
  <2>1. B \subseteq Nat
    OBVIOUS
  <2>2. Min(B) \in B /\ \A y \in B : Min(B) <= y
    BY <2>1, MinOfNaturals
  <2> DEFINE least == Min(B)
  <2>3. least \in 0 .. n /\ ~ \E u \in Nat : \A i \in 1 .. least : e[i] <= u
    BY <2>2
  <2>4. \A y \in B : least <= y
    BY <2>2
  <2> HIDE DEF least
  <2>5. least # 0
    <3>1. ASSUME least = 0 PROVE FALSE
      <4>1. \A i \in 1 .. least : e[i] <= 0
        BY <3>1
      <4> QED BY <2>3, <4>1
    <3> QED BY <3>1
  <2>6. least - 1 \in 0 .. n /\ ~(least <= least - 1)
    BY <2>3, <2>5
  <2>7. least - 1 \notin B
    BY <2>4, <2>6
  <2>8. PICK u \in Nat : \A i \in 1 .. least - 1 : e[i] <= u
    BY <2>6, <2>7
  <2>9. least \in 1 .. n
    BY <2>3, <2>5
  <2>10. \E v \in Nat : \A i \in 1 .. least : e[i] <= v
    BY <1>6, <2>8, <2>9, BoundOneMore
  <2> QED BY <2>3, <2>10
<1>4. n \in 0 .. n
  OBVIOUS
<1>5. PICK u \in Nat : \A i \in 1 .. n : e[i] <= u
  BY <1>3, <1>4
<1> QED BY <1>2, <1>5

LEMMA MaxOfFinite ==
  ASSUME NEW S, S \subseteq Nat, S # {}, IsFiniteSet(S)
  PROVE  Max(S) \in S /\ \A y \in S : y <= Max(S)
<1>1. PICK u \in Nat : \A x \in S : x <= u
  BY FiniteIsBounded
<1> DEFINE U == {v \in Nat : \A x \in S : x <= v}
<1>2. U \subseteq Nat /\ U # {}
  BY <1>1
<1>3. Min(U) \in U /\ \A y \in U : Min(U) <= y
  BY <1>2, MinOfNaturals
<1>4. PICK v \in U : \A y \in U : v <= y
  BY <1>3
<1>5. v \in S
  <2> SUFFICES ASSUME v \notin S PROVE FALSE
    OBVIOUS
  <2>1. PICK x0 \in S : TRUE
    OBVIOUS
  <2>2. v # 0
    BY <1>4, <2>1
  <2>3. v - 1 \in Nat /\ \A x \in S : x <= v - 1
    BY <1>4, <2>2
  <2> QED BY <1>4, <2>3
<1>6. \A y \in S : v >= y
  BY <1>4
<1>7. \A y \in S : Max(S) >= y
  BY <1>5, <1>6, Zenon DEF Max
<1>8. Max(S) \in S
  BY <1>5, <1>6, Zenon DEF Max
<1> QED BY <1>7, <1>8

LEMMA RoomIs ==
  /\ UNGET + Max({BUFSIZ} \cup VbufSizes) \in Nat
  /\ \A n \in {BUFSIZ} \cup VbufSizes : UNGET + n <= UNGET + Max({BUFSIZ} \cup VbufSizes)
<1> DEFINE S == {BUFSIZ} \cup VbufSizes
<1>1. S \subseteq Nat /\ S # {} /\ IsFiniteSet(S)
  BY StreamAssumption, FS_Singleton, FS_Union
<1>2. Max(S) \in S /\ \A y \in S : y <= Max(S)
  BY <1>1, MaxOfFinite
<1> HIDE DEF S
<1>3. Max(S) \in Nat /\ UNGET \in Nat /\ \A n \in S : n \in Nat /\ n <= Max(S)
  BY <1>1, <1>2, StreamAssumption
<1>4. UNGET + Max(S) \in Nat /\ \A n \in S : UNGET + n <= UNGET + Max(S)
  BY <1>3
<1> QED BY <1>4 DEF S

-----------------------------------------------------------------------------
(***************************************************************************)
(* 2  One write of the host after another                                  *)
(***************************************************************************)
\* b over data, from offset at on
Overlay(data, at, b) == Stream!Overlay(data, at, b)

\* Where the host writes next
At(f) == IF f.app THEN Len(f.data) ELSE f.off

LEMMA OverlayIs ==
  ASSUME NEW data \in Seq(Nat), NEW at \in Nat, NEW b \in Seq(Nat), b # <<>>
  PROVE  /\ Overlay(data, at, b) \in Seq(Nat)
         /\ Len(Overlay(data, at, b)) = IF at + Len(b) > Len(data) THEN at + Len(b) ELSE Len(data)
         /\ \A i \in 1 .. Len(Overlay(data, at, b)) :
              Overlay(data, at, b)[i] = IF i > at /\ i <= at + Len(b) THEN b[i - at]
                                        ELSE IF i <= Len(data) THEN data[i] ELSE 0
<1> DEFINE end == IF at + Len(b) > Len(data) THEN at + Len(b) ELSE Len(data)
           o == [i \in 1 .. end |-> IF i > at /\ i <= at + Len(b) THEN b[i - at]
                                    ELSE IF i <= Len(data) THEN data[i] ELSE 0]
<1>1. /\ Len(b) \in Nat /\ Len(data) \in Nat /\ end \in Nat
      /\ \A i \in 1 .. Len(b) : b[i] \in Nat
      /\ \A i \in 1 .. Len(data) : data[i] \in Nat
  BY LenProperties, ElementOfSeq
<1>2. o \in [1 .. end -> Nat]
  BY <1>1, SMTT(30)
<1>3. o \in Seq(Nat) /\ Len(o) = end
  BY <1>1, <1>2, IsSeq
<1>4. Overlay(data, at, b) = o
  BY DEF Overlay, Stream!Overlay
<1> QED BY <1>3, <1>4

LEMMA OverlayEmpty ==
  ASSUME NEW data, NEW at
  PROVE  Overlay(data, at, <<>>) = data
BY DEF Overlay, Stream!Overlay

LEMMA OverlayInSeq ==
  ASSUME NEW data \in Seq(Nat), NEW at \in Nat, NEW b \in Seq(Nat)
  PROVE  /\ Overlay(data, at, b) \in Seq(Nat)
         /\ Len(Overlay(data, at, b)) \in Nat
         /\ Len(Overlay(data, at, b)) >= Len(data)
         /\ b # <<>> => Len(Overlay(data, at, b)) >= at + Len(b)
<1>1. Len(data) \in Nat /\ Len(b) \in Nat
  BY LenProperties
<1>2. CASE b = <<>>
  BY <1>1, <1>2, OverlayEmpty
<1>3. CASE b # <<>>
  BY <1>1, <1>3, OverlayIs
<1> QED BY <1>2, <1>3

LEMMA OverlayAtEnd ==
  ASSUME NEW data \in Seq(Nat), NEW b \in Seq(Nat)
  PROVE  Len(Overlay(data, Len(data), b)) = Len(data) + Len(b)
<1>1. Len(data) \in Nat /\ Len(b) \in Nat /\ Len(<<>>) = 0
  BY LenProperties, EmptySeq
<1>2. CASE b = <<>>
  BY <1>1, <1>2, OverlayEmpty
<1>3. CASE b # <<>>
  <2>1. Len(b) # 0
    BY <1>3, EmptySeq
  <2> QED BY <1>1, <1>3, <2>1, OverlayIs
<1> QED BY <1>2, <1>3

\* Writing a and then b behind it writes a \o b.
LEMMA OverlayTwice ==
  ASSUME NEW data \in Seq(Nat), NEW at \in Nat, NEW a \in Seq(Nat), NEW b \in Seq(Nat)
  PROVE  Overlay(Overlay(data, at, a), at + Len(a), b) = Overlay(data, at, a \o b)
<1>1. Len(data) \in Nat /\ Len(a) \in Nat /\ Len(b) \in Nat /\ Len(<<>>) = 0
  BY LenProperties, EmptySeq
<1>2. CASE a = <<>>
  <2>1. a \o b = b /\ at + Len(a) = at
    BY <1>1, <1>2, ConcatEmptySeq
  <2> QED BY <1>2, <2>1, OverlayEmpty
<1>3. CASE b = <<>>
  <2>1. a \o b = a
    BY <1>3, ConcatEmptySeq
  <2> QED BY <1>3, <2>1, OverlayEmpty
<1>4. CASE a # <<>> /\ b # <<>>
  <2> DEFINE ab == a \o b
             x == Overlay(data, at, a)
             y == Overlay(x, at + Len(a), b)
             z == Overlay(data, at, ab)
  <2>1. /\ ab \in Seq(Nat) /\ Len(ab) = Len(a) + Len(b) /\ ab # <<>>
        /\ \A i \in 1 .. Len(a) + Len(b) : ab[i] = IF i <= Len(a) THEN a[i] ELSE b[i - Len(a)]
    <3>1. /\ ab \in Seq(Nat) /\ Len(ab) = Len(a) + Len(b)
          /\ \A i \in 1 .. Len(a) + Len(b) : ab[i] = IF i <= Len(a) THEN a[i] ELSE b[i - Len(a)]
      BY ConcatProperties
    <3>2. Len(a) # 0
      BY <1>4, EmptySeq
    <3> QED BY <1>1, <3>1, <3>2
  <2> HIDE DEF ab
  <2>2. /\ x \in Seq(Nat)
        /\ Len(x) = IF at + Len(a) > Len(data) THEN at + Len(a) ELSE Len(data)
        /\ \A i \in 1 .. Len(x) : x[i] = IF i > at /\ i <= at + Len(a) THEN a[i - at]
                                         ELSE IF i <= Len(data) THEN data[i] ELSE 0
    BY <1>4, OverlayIs
  <2> HIDE DEF x
  <2>3. at + Len(a) \in Nat /\ Len(x) \in Nat
    BY <1>1, <2>2
  <2>4. /\ y \in Seq(Nat)
        /\ Len(y) = IF at + Len(a) + Len(b) > Len(x) THEN at + Len(a) + Len(b) ELSE Len(x)
        /\ \A i \in 1 .. Len(y) : y[i] = IF i > at + Len(a) /\ i <= at + Len(a) + Len(b) THEN b[i - (at + Len(a))]
                                         ELSE IF i <= Len(x) THEN x[i] ELSE 0
    BY <1>4, <2>2, <2>3, OverlayIs
  <2>5. /\ z \in Seq(Nat)
        /\ Len(z) = IF at + Len(ab) > Len(data) THEN at + Len(ab) ELSE Len(data)
        /\ \A i \in 1 .. Len(z) : z[i] = IF i > at /\ i <= at + Len(ab) THEN ab[i - at]
                                         ELSE IF i <= Len(data) THEN data[i] ELSE 0
    BY <2>1, OverlayIs
  <2> HIDE DEF y, z
  <2>9. /\ Len(ab) = Len(a) + Len(b)
        /\ Len(x) = IF at + Len(a) > Len(data) THEN at + Len(a) ELSE Len(data)
        /\ Len(y) = IF at + Len(a) + Len(b) > Len(x) THEN at + Len(a) + Len(b) ELSE Len(x)
        /\ Len(z) = IF at + Len(ab) > Len(data) THEN at + Len(ab) ELSE Len(data)
    BY <2>1, <2>2, <2>4, <2>5
  <2>6. Len(y) = Len(z) /\ Len(z) \in Nat
    <3>1. PICK d \in Nat, la \in Nat, lb \in Nat : d = Len(data) /\ la = Len(a) /\ lb = Len(b)
      BY <1>1
    <3>2. Len(ab) = la + lb
      BY <2>9, <3>1
    <3>3. Len(x) = IF at + la > d THEN at + la ELSE d
      BY <2>9, <3>1
    <3>4. Len(y) = IF at + la + lb > Len(x) THEN at + la + lb ELSE Len(x)
      BY <2>9, <3>1
    <3>5. Len(z) = IF at + Len(ab) > d THEN at + Len(ab) ELSE d
      BY <2>9, <3>1
    <3>6. Len(z) = IF at + la + lb > d THEN at + la + lb ELSE d
      BY <3>2, <3>5
    <3> QED BY <3>3, <3>4, <3>6
  <2>7. ASSUME NEW i \in 1 .. Len(y) PROVE y[i] = z[i]
    <3>0. PICK la \in Nat, lb \in Nat, ld \in Nat, lx \in Nat :
            la = Len(a) /\ lb = Len(b) /\ ld = Len(data) /\ lx = Len(x)
      BY <1>1, <2>3
    <3>a. i \in Nat /\ i >= 1 /\ i \in 1 .. Len(z)
      BY <2>6
    <3>b. z[i] = IF i > at /\ i <= at + (la + lb) THEN ab[i - at] ELSE IF i <= ld THEN data[i] ELSE 0
      BY <2>5, <2>9, <3>0, <3>a
    <3>c. y[i] = IF i > at + la /\ i <= at + la + lb THEN b[i - (at + la)]
                 ELSE IF i <= lx THEN x[i] ELSE 0
      BY <2>4, <3>0
    <3>d. i <= lx => x[i] = IF i > at /\ i <= at + la THEN a[i - at] ELSE IF i <= ld THEN data[i] ELSE 0
      <4>1. i <= lx => i \in 1 .. Len(x)
        BY <3>0, <3>a
      <4> QED BY <2>2, <3>0, <4>1
    <3>e. i > at /\ i <= at + (la + lb) => ab[i - at] = IF i - at <= la THEN a[i - at] ELSE b[i - at - la]
      <4>1. i > at /\ i <= at + (la + lb) => i - at \in 1 .. Len(a) + Len(b)
        BY <3>0, <3>a
      <4> QED BY <2>1, <3>0, <4>1
    <3>f. lx = IF at + la > ld THEN at + la ELSE ld
      BY <2>9, <3>0
    <3>1. CASE i <= at
      BY <3>1, <3>a, <3>b, <3>c, <3>d, <3>f
    <3>2. CASE i > at /\ i <= at + la
      <4>1. i - at <= la /\ i <= at + (la + lb) /\ i <= lx /\ ~(i > at + la)
        BY <3>2, <3>a, <3>f
      <4> QED BY <3>2, <3>b, <3>c, <3>d, <3>e, <4>1
    <3>3. CASE i > at + la /\ i <= at + la + lb
      <4>1. ~(i - at <= la) /\ i > at /\ i <= at + (la + lb) /\ i - (at + la) = i - at - la
        BY <3>3, <3>a
      <4> QED BY <3>3, <3>b, <3>c, <3>e, <4>1
    <3>4. CASE i > at + la + lb
      BY <3>4, <3>a, <3>b, <3>c, <3>d, <3>f
    <3> QED BY <3>a, <3>1, <3>2, <3>3, <3>4
  <2>8. y = z
    BY <2>4, <2>5, <2>6, <2>7, SeqEqual
  <2> QED BY <2>8 DEF x, y, z, ab
<1> QED BY <1>2, <1>3, <1>4

-----------------------------------------------------------------------------
(***************************************************************************)
(* 3  The FILE, and what is seen of it                                     *)
(***************************************************************************)
\* The file as it is once f has written what it holds
View(f) == HostWrite(f, Held(f)).data
\* The bytes a read returns next
InputOf(f) == IF f.wend # NIL THEN Beyond(View(f), Position(f)) ELSE Unread(f) \o Beyond(f.data, f.off)

\* The buffer is for reading or for writing, and its pointers are in order.
Pointers(f) ==
  /\ UNGET + f.size <= UNGET + Max({BUFSIZ} \cup VbufSizes)
  /\ \/ f.rpos = NIL /\ f.rend = NIL
     \/ f.rpos >= 1 /\ f.rpos <= f.rend /\ f.rend <= Buf + f.size
  /\ \/ f.wbase = NIL /\ f.wpos = NIL /\ f.wend = NIL
     \/ /\ f.wbase = Buf /\ f.wend = Buf + f.size /\ f.wpos >= Buf /\ f.wpos <= f.wend
        /\ f.rend = NIL

\* Where the end was met, there is nothing left to read.
EndOfFile(f) == f.eof => f.rpos = f.rend /\ f.off >= Len(f.data)

\* A line-buffered stream holds no newline back.
LinesWritten(f) == f.line => \A i \in 1 .. f.wpos - f.wbase : Held(f)[i] # NL

\* The invariant of a FILE between two calls
FileOK(f) == f \in FILES /\ Pointers(f) /\ EndOfFile(f) /\ LinesWritten(f)

\* What only setvbuf and fdopen choose
SameMode(g, f) ==
  g.size = f.size /\ g.line = f.line /\ g.app = f.app /\ g.nord = f.nord /\ g.nowr = f.nowr

SameReading(g, f) == g.rpos = f.rpos /\ g.rend = f.rend
SameWriting(g, f) == g.wbase = f.wbase /\ g.wpos = f.wpos /\ g.wend = f.wend

LEMMA BufIs == Buf \in Nat /\ Buf >= 1 /\ UNGET \in Nat /\ Buf = UNGET + 1
BY StreamAssumption DEF Buf

LEMMA HeldIs ==
  ASSUME NEW f, FileOK(f)
  PROVE  /\ Held(f) \in Seq(Nat) /\ Len(Held(f)) = f.wpos - f.wbase /\ f.wpos - f.wbase \in Nat
         /\ \A i \in 1 .. f.wpos - f.wbase : Held(f)[i] = f.mem[f.wbase + i - 1]
         /\ Held(f) = <<>> <=> f.wpos = f.wbase
<1>1. f \in FILES /\ Pointers(f) /\ f.wbase \in Nat /\ f.wpos \in Nat /\ f.size \in Nat
  BY DEF FileOK, FILES
<1>2. f.wpos - f.wbase \in Nat /\ (f.wpos # f.wbase => f.wbase >= 1 /\ f.wpos <= Buf + f.size)
  BY <1>1, BufIs DEF Pointers, NIL
<1>3. PICK room \in Nat : room = UNGET + Max({BUFSIZ} \cup VbufSizes)
  BY RoomIs
<1>4. UNGET + f.size <= room /\ f.mem \in [1 .. room -> Nat]
  BY <1>1, <1>3 DEF Pointers, FILES
<1>5. \A i \in 1 .. f.wpos - f.wbase : f.mem[f.wbase + i - 1] \in Nat
  <2>1. ASSUME NEW i \in 1 .. f.wpos - f.wbase PROVE f.wbase + i - 1 \in 1 .. room
    <3>1. i \in Nat /\ i >= 1 /\ i <= f.wpos - f.wbase /\ f.wpos # f.wbase
      BY <1>1
    <3>2. f.wbase >= 1 /\ f.wbase + i - 1 < UNGET + 1 + f.size
      BY <1>1, <1>2, <3>1, BufIs
    <3>4. PICK x \in Int : x = f.wbase + i - 1
      BY <1>1, <3>1
    <3>5. UNGET + f.size <= room /\ x < UNGET + 1 + f.size /\ x >= 1
      BY <1>1, <1>4, <3>1, <3>2, <3>4
    <3>6. x \in 1 .. room
      BY <1>1, <3>5, BufIs
    <3> QED BY <3>4, <3>6
  <2> QED BY <1>4, <2>1
<1>6. Held(f) \in [1 .. f.wpos - f.wbase -> Nat]
  BY <1>5 DEF Held
<1>7. Held(f) \in Seq(Nat) /\ Len(Held(f)) = f.wpos - f.wbase
  BY <1>2, <1>6, IsSeq
<1>8. \A i \in 1 .. f.wpos - f.wbase : Held(f)[i] = f.mem[f.wbase + i - 1]
  BY DEF Held
<1>9. Held(f) = <<>> <=> f.wpos = f.wbase
  BY <1>1, <1>2, <1>7, EmptySeq
<1> QED BY <1>2, <1>7, <1>8, <1>9

LEMMA UnreadIs ==
  ASSUME NEW f, FileOK(f)
  PROVE  /\ Unread(f) \in Seq(Nat) /\ Len(Unread(f)) = f.rend - f.rpos /\ f.rend - f.rpos \in Nat
         /\ \A i \in 1 .. f.rend - f.rpos : Unread(f)[i] = f.mem[f.rpos + i - 1]
         /\ Unread(f) = <<>> <=> f.rpos = f.rend
<1>1. f \in FILES /\ Pointers(f) /\ f.rpos \in Nat /\ f.rend \in Nat /\ f.size \in Nat
  BY DEF FileOK, FILES
<1>2. f.rend - f.rpos \in Nat /\ (f.rend # f.rpos => f.rpos >= 1 /\ f.rend <= Buf + f.size)
  BY <1>1, BufIs DEF Pointers, NIL
<1>3. PICK room \in Nat : room = UNGET + Max({BUFSIZ} \cup VbufSizes)
  BY RoomIs
<1>4. UNGET + f.size <= room /\ f.mem \in [1 .. room -> Nat]
  BY <1>1, <1>3 DEF Pointers, FILES
<1>5. \A i \in 1 .. f.rend - f.rpos : f.mem[f.rpos + i - 1] \in Nat
  <2>1. ASSUME NEW i \in 1 .. f.rend - f.rpos PROVE f.rpos + i - 1 \in 1 .. room
    <3>1. i \in Nat /\ i >= 1 /\ i <= f.rend - f.rpos /\ f.rend # f.rpos
      BY <1>1
    <3>3. f.rpos >= 1
      BY <1>2, <3>1
    <3>2. f.rpos + i - 1 < UNGET + 1 + f.size
      BY <1>1, <1>2, <3>1, BufIs
    <3>4. PICK x \in Int : x = f.rpos + i - 1
      BY <1>1, <3>1
    <3>5. UNGET + f.size <= room /\ x < UNGET + 1 + f.size /\ x >= 1
      BY <1>1, <1>4, <3>1, <3>2, <3>3, <3>4
    <3>6. x \in 1 .. room
      BY <1>1, <3>5, BufIs
    <3> QED BY <3>4, <3>6
  <2> QED BY <1>4, <2>1
<1>6. Unread(f) \in [1 .. f.rend - f.rpos -> Nat]
  BY <1>5 DEF Unread
<1>7. Unread(f) \in Seq(Nat) /\ Len(Unread(f)) = f.rend - f.rpos
  BY <1>2, <1>6, IsSeq
<1>8. \A i \in 1 .. f.rend - f.rpos : Unread(f)[i] = f.mem[f.rpos + i - 1]
  BY DEF Unread
<1>9. Unread(f) = <<>> <=> f.rpos = f.rend
  BY <1>1, <1>2, <1>7, EmptySeq
<1> QED BY <1>2, <1>7, <1>8, <1>9

LEMMA AtIs ==
  ASSUME NEW f \in FILES
  PROVE  At(f) \in Nat /\ f.data \in Seq(Nat) /\ Len(f.data) \in Nat /\ f.off \in Nat /\ f.app \in BOOLEAN
<1>1. f.data \in Seq(Nat) /\ f.off \in Nat /\ f.app \in BOOLEAN
  BY DEF FILES
<1>2. Len(f.data) \in Nat
  BY <1>1, LenProperties
<1> QED BY <1>1, <1>2 DEF At

LEMMA HostWriteIs ==
  ASSUME NEW f \in FILES, NEW b \in Seq(Nat)
  PROVE  LET g == HostWrite(f, b) IN
         /\ g \in FILES /\ SameMode(g, f) /\ SameReading(g, f) /\ SameWriting(g, f)
         /\ g.eof = f.eof /\ g.err = f.err /\ g.mem = f.mem
         /\ g.data = Overlay(f.data, At(f), b)
         /\ g.off = IF b = <<>> THEN f.off ELSE At(f) + Len(b)
         /\ f.off >= Len(f.data) => g.off >= Len(g.data)
<1>1. At(f) \in Nat /\ f.data \in Seq(Nat) /\ Len(f.data) \in Nat /\ Len(b) \in Nat
  BY AtIs, LenProperties
<1>2. CASE b = <<>>
  <2>1. HostWrite(f, b) = f /\ Overlay(f.data, At(f), b) = f.data
    BY <1>2, OverlayEmpty DEF HostWrite
  <2> QED BY <1>2, <2>1 DEF SameMode, SameReading, SameWriting
<1>3. CASE b # <<>>
  <2>1. PICK d \in Seq(Nat), o \in Nat : d = Overlay(f.data, At(f), b) /\ o = At(f) + Len(b)
    BY <1>1, OverlayInSeq
  <2>2. HostWrite(f, b) = [f EXCEPT !.off = o, !.data = d]
    BY <1>3, <2>1 DEF HostWrite, At, Overlay, Stream!Overlay
  <2>3. LET g == HostWrite(f, b) IN
        /\ g \in FILES /\ SameMode(g, f) /\ SameReading(g, f) /\ SameWriting(g, f)
        /\ g.eof = f.eof /\ g.err = f.err /\ g.mem = f.mem
        /\ g.data = d /\ g.off = o
    BY <2>2 DEF FILES, SameMode, SameReading, SameWriting
  <2>4. Len(d) = IF At(f) + Len(b) > Len(f.data) THEN At(f) + Len(b) ELSE Len(f.data)
    BY <1>1, <1>3, <2>1, OverlayIs
  <2>5. f.off \in Nat /\ f.app \in BOOLEAN
    BY DEF FILES
  <2>6. f.off >= Len(f.data) => At(f) >= Len(f.data)
    BY <1>1, <2>5 DEF At
  <2>7. f.off >= Len(f.data) => o >= Len(d)
    BY <1>1, <2>1, <2>4, <2>6
  <2> QED BY <1>3, <2>1, <2>3, <2>7
<1> QED BY <1>2, <1>3

\* The file and the position, if nothing is held back, and if something is.
LEMMA ViewIs ==
  ASSUME NEW f, FileOK(f)
  PROVE  /\ View(f) = Overlay(f.data, At(f), Held(f)) /\ View(f) \in Seq(Nat)
         /\ Held(f) # <<>> => Position(f) = At(f) + Len(Held(f)) /\ f.wend # NIL
         /\ Held(f) = <<>> =>
              /\ View(f) = f.data
              /\ Position(f) = f.off - (f.rend - f.rpos)
              /\ InputOf(f) = Unread(f) \o Beyond(f.data, f.off)
         /\ f.wend # NIL => f.rend = NIL /\ f.rpos = NIL /\ Unread(f) = <<>>
         /\ Position(f) \in Int
<1>1. f \in FILES /\ Pointers(f) /\ At(f) \in Nat /\ f.data \in Seq(Nat) /\ f.off \in Nat
      /\ f.rend \in Nat /\ f.rpos \in Nat /\ Len(f.data) \in Nat
  BY AtIs DEF FileOK, FILES
<1>2. /\ Held(f) \in Seq(Nat) /\ Len(Held(f)) = f.wpos - f.wbase /\ f.wpos - f.wbase \in Nat
      /\ Held(f) = <<>> <=> f.wpos = f.wbase
  BY HeldIs
<1>3. Unread(f) \in Seq(Nat) /\ (Unread(f) = <<>> <=> f.rpos = f.rend)
  BY UnreadIs
<1>4. View(f) = Overlay(f.data, At(f), Held(f)) /\ View(f) \in Seq(Nat)
  BY <1>1, <1>2, HostWriteIs, OverlayInSeq DEF View
<1>5. f.wend # NIL => f.rend = NIL /\ f.rpos = NIL /\ Unread(f) = <<>>
  BY <1>1, <1>3 DEF Pointers, NIL
<1>6. ASSUME Held(f) # <<>> PROVE Position(f) = At(f) + Len(Held(f)) /\ f.wend # NIL
  <2>1. f.wpos # f.wbase
    BY <1>2, <1>6
  <2>2. f.wend # NIL
    BY <1>1, <2>1, BufIs DEF Pointers, NIL, FILES
  <2> QED BY <1>2, <2>1, <2>2 DEF Position, At
<1>7. ASSUME Held(f) = <<>>
      PROVE  /\ View(f) = f.data /\ Position(f) = f.off - (f.rend - f.rpos)
             /\ InputOf(f) = Unread(f) \o Beyond(f.data, f.off)
  <2>1. View(f) = f.data
    BY <1>4, <1>7, OverlayEmpty
  <2>2. Position(f) = f.off - (f.rend - f.rpos)
    BY <1>2, <1>7 DEF Position
  <2>3. InputOf(f) = Unread(f) \o Beyond(f.data, f.off)
    <3>1. CASE f.wend # NIL
      <4>1. Position(f) = f.off /\ Unread(f) = <<>>
        BY <1>1, <1>5, <2>2, <3>1 DEF NIL
      <4>2. Beyond(f.data, f.off) \in Seq(Nat)
        BY <1>1, BeyondIs
      <4>3. Unread(f) \o Beyond(f.data, f.off) = Beyond(f.data, f.off)
        BY <4>1, <4>2, ConcatEmptySeq
      <4> QED BY <2>1, <3>1, <4>1, <4>3 DEF InputOf
    <3>2. CASE f.wend = NIL
      BY <3>2 DEF InputOf
    <3> QED BY <3>1, <3>2
  <2> QED BY <2>1, <2>2, <2>3
<1>8. Position(f) \in Int
  BY <1>1, <1>2, <1>6, <1>7
<1> QED BY <1>4, <1>5, <1>6, <1>7, <1>8

-----------------------------------------------------------------------------
LEMMA ReadyIsOK ==
  ASSUME NEW f, FileOK(f), NEW g \in FILES, g.size = f.size, g.wpos = g.wbase, EndOfFile(g),
         \/ g.rpos = NIL /\ g.rend = NIL
         \/ g.rpos >= 1 /\ g.rpos <= g.rend /\ g.rend <= Buf + g.size,
         \/ g.wbase = NIL /\ g.wpos = NIL /\ g.wend = NIL
         \/ g.wbase = Buf /\ g.wend = Buf + g.size /\ g.rend = NIL
  PROVE  FileOK(g) /\ Held(g) = <<>>
<1>1. g.size \in Nat /\ g.wpos \in Nat /\ f \in FILES
  BY DEF FILES, FileOK
<1>2. Pointers(g)
  BY <1>1, BufIs DEF FileOK, Pointers
<1>3. LinesWritten(g)
  BY <1>1 DEF LinesWritten
<1>4. FileOK(g)
  BY <1>2, <1>3 DEF FileOK
<1> QED BY <1>4, HeldIs

\* The host takes all that is held and b behind it; or something is lost, the error
\* indicator is set, and less than b is reported as written.
LEMMA StdioWriteIs ==
  ASSUME NEW f, FileOK(f), f.wend # NIL, NEW b \in Seq(Nat), NEW o \in StdioWrite(f, b)
  PROVE  /\ FileOK(o.f) /\ Held(o.f) = <<>> /\ SameMode(o.f, f)
         /\ o.f.rpos = NIL /\ o.f.rend = NIL /\ o.f.eof = f.eof
         /\ ~ o.lost =>
              /\ o.n = Len(b) /\ o.f.wend # NIL /\ o.f.err = f.err
              /\ o.f.wbase = Buf /\ o.f.wpos = Buf /\ o.f.wend = Buf + f.size
              /\ o.f.data = Overlay(f.data, At(f), Held(f) \o b)
              /\ o.f.off = IF Held(f) \o b = <<>> THEN f.off ELSE At(f) + Len(Held(f) \o b)
         /\ o.lost => /\ o.f.err /\ o.n \in Nat /\ (b # <<>> => o.n < Len(b))
                      /\ o.f.wbase = NIL /\ o.f.wpos = NIL /\ o.f.wend = NIL
         /\ o.lost \in BOOLEAN
<1> DEFINE all == Held(f) \o b
<1>1. f \in FILES /\ f.rpos = NIL /\ f.rend = NIL /\ EndOfFile(f) /\ f.off \in Nat /\ f.size \in Nat
  BY ViewIs DEF FileOK, Pointers, NIL, FILES
<1>2. Held(f) \in Seq(Nat) /\ Len(Held(f)) \in Nat /\ Len(b) \in Nat
  BY HeldIs, LenProperties
<1>3. all \in Seq(Nat) /\ Len(all) = Len(Held(f)) + Len(b) /\ Len(all) \in Nat
  BY <1>2, ConcatProperties
<1>4. b # <<>> => Len(b) # 0
  BY EmptySeq
<1>5. \/ o = [f |-> Writing(HostWrite(f, all)), n |-> Len(b), lost |-> FALSE]
      \/ \E k \in 0 .. Len(all) - 1 :
           o = [f |-> [NotWriting(HostWrite(f, Prefix(all, k))) EXCEPT !.err = TRUE],
                n |-> IF k > Len(Held(f)) THEN k - Len(Held(f)) ELSE 0, lost |-> TRUE]
  BY DEF StdioWrite
<1>6. CASE o = [f |-> Writing(HostWrite(f, all)), n |-> Len(b), lost |-> FALSE]
  <2> DEFINE h == HostWrite(f, all)
  <2>1. /\ h \in FILES /\ SameMode(h, f) /\ SameReading(h, f)
        /\ h.eof = f.eof /\ h.err = f.err
        /\ h.data = Overlay(f.data, At(f), all)
        /\ h.off = IF all = <<>> THEN f.off ELSE At(f) + Len(all)
        /\ f.off >= Len(f.data) => h.off >= Len(h.data)
    BY <1>1, <1>3, HostWriteIs
  <2>2. o.f = Writing(h) /\ o.n = Len(b) /\ o.lost = FALSE
    BY <1>6
  <2> HIDE DEF h, all
  <2>3. /\ o.f \in FILES /\ SameMode(o.f, h) /\ SameReading(o.f, h)
        /\ o.f.eof = h.eof /\ o.f.err = h.err /\ o.f.data = h.data /\ o.f.off = h.off
        /\ o.f.wbase = Buf /\ o.f.wpos = Buf /\ o.f.wend = Buf + h.size
    <3>1. h.size \in Nat /\ Buf \in Nat /\ Buf + h.size \in Nat
      BY <2>1, BufIs DEF FILES
    <3> QED BY <2>1, <2>2, <3>1, ZenonT(60) DEF Writing, FILES, SameMode, SameReading
  <2>4. /\ SameMode(o.f, f) /\ o.f.rpos = NIL /\ o.f.rend = NIL /\ o.f.eof = f.eof
        /\ o.f.wend = Buf + f.size
    BY <1>1, <2>1, <2>3 DEF SameMode, SameReading
  <2>5. EndOfFile(o.f)
    BY <1>1, <2>1, <2>3, <2>4 DEF EndOfFile
  <2>6. FileOK(o.f) /\ Held(o.f) = <<>>
    BY <2>3, <2>4, <2>5, ReadyIsOK DEF SameMode
  <2>7. o.f.wend # NIL
    BY <1>1, <2>4, BufIs DEF NIL
  <2> QED BY <2>1, <2>2, <2>3, <2>4, <2>6, <2>7 DEF all
<1>7. ASSUME NEW k \in 0 .. Len(all) - 1,
             o = [f |-> [NotWriting(HostWrite(f, Prefix(all, k))) EXCEPT !.err = TRUE],
                  n |-> IF k > Len(Held(f)) THEN k - Len(Held(f)) ELSE 0, lost |-> TRUE]
      PROVE  /\ FileOK(o.f) /\ Held(o.f) = <<>> /\ SameMode(o.f, f)
             /\ o.f.rpos = NIL /\ o.f.rend = NIL /\ o.f.eof = f.eof
             /\ o.lost = TRUE /\ o.f.err = TRUE /\ o.n \in Nat /\ (b # <<>> => o.n < Len(b))
             /\ o.f.wbase = NIL /\ o.f.wpos = NIL /\ o.f.wend = NIL
  <2> DEFINE h == HostWrite(f, Prefix(all, k))
  <2>9. k \in 0 .. Len(all)
    BY <1>3
  <2>1. Prefix(all, k) \in Seq(Nat)
    BY <1>3, <2>9, PrefixIs
  <2>2. /\ h \in FILES /\ SameMode(h, f) /\ SameReading(h, f) /\ h.eof = f.eof
        /\ f.off >= Len(f.data) => h.off >= Len(h.data)
    BY <1>1, <2>1, HostWriteIs
  <2>3. o.f = [NotWriting(h) EXCEPT !.err = TRUE] /\ o.lost = TRUE
        /\ o.n = IF k > Len(Held(f)) THEN k - Len(Held(f)) ELSE 0
    BY <1>7
  <2>4. o.n \in Nat /\ (b # <<>> => o.n < Len(b))
    BY <1>2, <1>3, <1>4, <2>3
  <2> HIDE DEF h, all
  <2>5. /\ o.f \in FILES /\ SameMode(o.f, h) /\ SameReading(o.f, h)
        /\ o.f.eof = h.eof /\ o.f.err = TRUE /\ o.f.data = h.data /\ o.f.off = h.off
        /\ o.f.wbase = NIL /\ o.f.wpos = NIL /\ o.f.wend = NIL
    <3>1. PICK w \in FILES : w = NotWriting(h)
      BY <2>2 DEF NotWriting, FILES, NIL
    <3>2. /\ w.rpos = h.rpos /\ w.rend = h.rend /\ w.size = h.size /\ w.line = h.line /\ w.eof = h.eof
          /\ w.nord = h.nord /\ w.nowr = h.nowr /\ w.app = h.app /\ w.data = h.data /\ w.off = h.off
          /\ w.wbase = NIL /\ w.wpos = NIL /\ w.wend = NIL
      BY <2>2, <3>1 DEF NotWriting, FILES
    <3>3. o.f = [w EXCEPT !.err = TRUE]
      BY <2>3, <3>1
    <3>4. /\ o.f \in FILES /\ SameMode(o.f, w) /\ SameReading(o.f, w) /\ o.f.eof = w.eof /\ o.f.err = TRUE
          /\ o.f.data = w.data /\ o.f.off = w.off
          /\ o.f.wbase = w.wbase /\ o.f.wpos = w.wpos /\ o.f.wend = w.wend
      BY <3>3 DEF FILES, SameMode, SameReading
    <3> QED BY <3>2, <3>4 DEF SameMode, SameReading
  <2>6. /\ SameMode(o.f, f) /\ o.f.rpos = NIL /\ o.f.rend = NIL /\ o.f.eof = f.eof
    BY <1>1, <2>2, <2>5 DEF SameMode, SameReading
  <2>7. EndOfFile(o.f)
    BY <1>1, <2>2, <2>5, <2>6 DEF EndOfFile
  <2>8. FileOK(o.f) /\ Held(o.f) = <<>>
    BY <2>5, <2>6, <2>7, ReadyIsOK DEF SameMode
  <2> QED BY <2>3, <2>4, <2>5, <2>6, <2>8
<1> HIDE DEF all
<1>8. CASE \E k \in 0 .. Len(all) - 1 :
             o = [f |-> [NotWriting(HostWrite(f, Prefix(all, k))) EXCEPT !.err = TRUE],
                  n |-> IF k > Len(Held(f)) THEN k - Len(Held(f)) ELSE 0, lost |-> TRUE]
  BY <1>7, <1>8
<1> QED BY <1>5, <1>6, <1>8 DEF all

\* b is written at the position, or appended.
Wrote(f, g, b) ==
  LET at == IF f.app THEN Len(View(f)) ELSE Position(f) IN
  /\ at \in Nat
  /\ View(g) = Overlay(View(f), at, b)
  /\ Position(g) = IF b = <<>> THEN Position(f) ELSE at + Len(b)
  /\ InputOf(g) = Beyond(View(g), Position(g))

\* p of what was held and b is written, and q is held.
Split(f, g, b, p, q) ==
  /\ p \o q = Held(f) \o b
  /\ g.data = Overlay(f.data, At(f), p)
  /\ g.off = IF p = <<>> THEN f.off ELSE At(f) + Len(p)
  /\ Held(g) = q
  /\ g.app = f.app

LEMMA SplitIs ==
  ASSUME NEW f, FileOK(f), f.rpos = f.rend, NEW g, FileOK(g), g.wend # NIL,
         NEW b \in Seq(Nat), NEW p \in Seq(Nat), NEW q \in Seq(Nat), Split(f, g, b, p, q)
  PROVE  Wrote(f, g, b)
<1> DEFINE at == IF f.app THEN Len(View(f)) ELSE Position(f)
<1>20. /\ p \o q = Held(f) \o b
       /\ g.data = Overlay(f.data, At(f), p)
       /\ g.off = IF p = <<>> THEN f.off ELSE At(f) + Len(p)
       /\ Held(g) = q
       /\ g.app = f.app
  BY DEF Split
<1>0. \A data \in Seq(Nat), k \in Nat, x \in Seq(Nat), y \in Seq(Nat) :
        Overlay(Overlay(data, k, x), k + Len(x), y) = Overlay(data, k, x \o y)
  BY OverlayTwice
<1>1. /\ f \in FILES /\ g \in FILES /\ At(f) \in Nat /\ f.data \in Seq(Nat) /\ f.off \in Nat
      /\ f.rend \in Nat /\ Len(f.data) \in Nat /\ f.app \in BOOLEAN
  BY AtIs DEF FileOK, FILES
<1>2. Held(f) \in Seq(Nat)
  BY HeldIs
<1>3. PICK n \in Nat, lb \in Nat, lp \in Nat, lq \in Nat :
        n = Len(Held(f)) /\ lb = Len(b) /\ lp = Len(p) /\ lq = Len(q)
  BY <1>2, LenProperties
<1>4. lp + lq = n + lb
  <2>1. Len(p \o q) = Len(p) + Len(q) /\ Len(Held(f) \o b) = Len(Held(f)) + Len(b)
    BY <1>2, ConcatProperties
  <2> QED BY <1>3, <1>20, <2>1
<1>5. /\ View(f) = Overlay(f.data, At(f), Held(f)) /\ View(f) \in Seq(Nat)
      /\ Held(f) # <<>> => Position(f) = At(f) + n
      /\ Held(f) = <<>> => Position(f) = f.off - (f.rend - f.rpos)
  BY <1>3, ViewIs
<1>6. /\ Held(f) = <<>> => n = 0
      /\ b = <<>> => lb = 0
      /\ b # <<>> => lb # 0
      /\ p = <<>> => lp = 0
      /\ p # <<>> => lp # 0
      /\ q = <<>> => lq = 0
      /\ Held(f) # <<>> => n # 0
  BY <1>2, <1>3, EmptySeq
<1>7. at = At(f) + n
  <2>1. CASE f.app
    <3>1. At(f) = Len(f.data) /\ Len(View(f)) = Len(f.data) + Len(Held(f))
      <4>1. At(f) = Len(f.data)
        BY <2>1 DEF At
      <4>2. View(f) = Overlay(f.data, Len(f.data), Held(f))
        BY <1>5, <4>1
      <4>3. Len(Overlay(f.data, Len(f.data), Held(f))) = Len(f.data) + Len(Held(f))
        BY <1>1, <1>2, OverlayAtEnd
      <4> QED BY <4>1, <4>2, <4>3
    <3> QED BY <1>3, <2>1, <3>1
  <2>2. CASE ~ f.app
    <3>1. At(f) = f.off
      BY <2>2 DEF At
    <3>2. Position(f) = At(f) + n
      BY <1>1, <1>3, <1>5, <1>6, <3>1
    <3> QED BY <2>2, <3>2
  <2> QED BY <2>1, <2>2
<1>8. at \in Nat
  BY <1>1, <1>3, <1>7
<1>9. At(g) = At(f) + lp
  <2>1. CASE f.app
    <3>1. At(f) = Len(f.data) /\ At(g) = Len(g.data)
      BY <1>20, <2>1 DEF At
    <3>2. g.data = Overlay(f.data, Len(f.data), p)
      BY <1>20, <3>1
    <3>3. Len(Overlay(f.data, Len(f.data), p)) = Len(f.data) + Len(p)
      BY <1>1, OverlayAtEnd
    <3> QED BY <1>3, <3>1, <3>2, <3>3
  <2>2. CASE ~ f.app
    <3>1. At(f) = f.off /\ At(g) = g.off
      BY <1>20, <2>2 DEF At
    <3> QED BY <1>1, <1>3, <1>6, <1>20, <3>1
  <2> QED BY <2>1, <2>2
<1> HIDE DEF at
<1>10. View(g) = Overlay(View(f), at, b)
  <2>1. View(g) = Overlay(g.data, At(g), q)
    BY <1>20, ViewIs
  <2>4. f.data \in Seq(Nat) /\ At(f) \in Nat
    BY <1>1
  <2>2. Overlay(Overlay(f.data, At(f), p), At(f) + Len(p), q) = Overlay(f.data, At(f), p \o q)
    <3>1. PICK x \in Seq(Nat), y \in Seq(Nat) : x = p /\ y = q
      OBVIOUS
    <3>2. PICK data \in Seq(Nat), k \in Nat : data = f.data /\ k = At(f)
      BY <2>4
    <3>3. Overlay(Overlay(data, k, x), k + Len(x), y) = Overlay(data, k, x \o y)
      BY <1>0
    <3> QED BY <3>1, <3>2, <3>3
  <2>3. Overlay(Overlay(f.data, At(f), Held(f)), At(f) + Len(Held(f)), b) = Overlay(f.data, At(f), Held(f) \o b)
    <3>1. PICK data \in Seq(Nat), k \in Nat, h \in Seq(Nat) : data = f.data /\ k = At(f) /\ h = Held(f)
      BY <1>2, <2>4
    <3>2. Overlay(Overlay(data, k, h), k + Len(h), b) = Overlay(data, k, h \o b)
      BY OverlayTwice
    <3> QED BY <3>1, <3>2
  <2>5. View(g) = Overlay(f.data, At(f), p \o q)
    BY <1>3, <1>9, <1>20, <2>1, <2>2
  <2>6. Overlay(View(f), at, b) = Overlay(f.data, At(f), Held(f) \o b)
    BY <1>3, <1>5, <1>7, <2>3
  <2> QED BY <1>20, <2>5, <2>6
<1>11. g.rend = NIL /\ g.rpos = NIL /\ g.off \in Nat
  BY <1>1, ViewIs DEF FILES
<1>12. Position(g) = IF q # <<>> THEN At(g) + lq ELSE g.off
  <2>1. /\ q # <<>> => Position(g) = At(g) + lq
        /\ q = <<>> => Position(g) = g.off - (g.rend - g.rpos)
    BY <1>3, <1>20, ViewIs
  <2> QED BY <1>11, <2>1 DEF NIL
<1>13. b # <<>> => Position(g) = at + lb
  <2>1. CASE q # <<>>
    <3>1. PICK a \in Nat : a = At(f)
      BY <1>1
    <3>2. at = a + n /\ Position(g) = (a + lp) + lq
      BY <1>7, <1>9, <1>12, <2>1, <3>1
    <3>3. (a + lp) + lq = (a + n) + lb
      BY <1>4
    <3> QED BY <3>2, <3>3
  <2>2. CASE q = <<>> /\ b # <<>>
    <3>1. lq = 0 /\ lb # 0
      BY <1>6, <2>2
    <3>2. p # <<>>
      BY <1>4, <1>6, <3>1
    <3>3. Position(g) = At(f) + lp
      BY <1>3, <1>12, <1>20, <2>2, <3>2
    <3> QED BY <1>1, <1>4, <1>7, <3>1, <3>3
  <2> QED BY <2>1, <2>2
<1>14. b = <<>> => Position(g) = Position(f)
  <2> SUFFICES ASSUME b = <<>> PROVE Position(g) = Position(f)
    OBVIOUS
  <2>1. CASE Held(f) # <<>>
    <3>1. Position(f) = At(f) + n /\ n # 0 /\ lb = 0 /\ lp + lq = n
      BY <1>4, <1>5, <1>6, <2>1
    <3>2. CASE q # <<>>
      <4>1. PICK a \in Nat : a = At(f)
        BY <1>1
      <4>2. Position(f) = a + n /\ Position(g) = (a + lp) + lq
        BY <1>9, <1>12, <3>1, <3>2, <4>1
      <4>3. lp + lq = n
        BY <3>1
      <4>4. (a + lp) + lq = a + n
        BY <4>3
      <4> QED BY <4>2, <4>4
    <3>3. CASE q = <<>>
      <4>1. lq = 0 /\ lp = n
        BY <1>6, <3>1, <3>3
      <4>2. g.off = At(f) + lp
        BY <1>3, <1>6, <1>20, <3>1, <4>1
      <4> QED BY <1>12, <3>1, <3>3, <4>1, <4>2
    <3> QED BY <3>2, <3>3
  <2>2. CASE Held(f) = <<>>
    <3>1. n = 0 /\ lb = 0
      BY <1>6, <2>2
    <3>2. lp = 0 /\ lq = 0
      BY <1>4, <3>1
    <3>3. p = <<>> /\ q = <<>>
      BY <1>3, <3>2, EmptySeq
    <3>4. Position(g) = f.off /\ Position(f) = f.off
      BY <1>1, <1>5, <1>12, <1>20, <2>2, <3>3
    <3> QED BY <3>4
  <2> QED BY <2>1, <2>2
<1>15. InputOf(g) = Beyond(View(g), Position(g))
  BY DEF InputOf
<1> QED BY <1>3, <1>8, <1>10, <1>13, <1>14, <1>15 DEF at, Wrote

-----------------------------------------------------------------------------
\* A program sees no difference.
SameStreamAs(g, f) == View(g) = View(f) /\ Position(g) = Position(f) /\ InputOf(g) = InputOf(f)

LEMMA SameContent ==
  ASSUME NEW f, NEW g, FileOK(f), FileOK(g), Held(f) = <<>>, Held(g) = <<>>,
         g.data = f.data, g.off = f.off,
         \/ g.mem = f.mem /\ SameReading(g, f)
         \/ g.rpos = g.rend /\ f.rpos = f.rend
  PROVE  SameStreamAs(g, f)
<1>1. g.rend - g.rpos = f.rend - f.rpos /\ Unread(g) = Unread(f)
  <2>1. CASE g.mem = f.mem /\ SameReading(g, f)
    BY <2>1 DEF SameReading, Unread
  <2>2. CASE g.rpos = g.rend /\ f.rpos = f.rend
    <3>1. Unread(g) = <<>> /\ Unread(f) = <<>>
      BY <2>2, UnreadIs
    <3>2. g.rend \in Nat /\ f.rend \in Nat
      BY DEF FileOK, FILES
    <3> QED BY <2>2, <3>1, <3>2
  <2> QED BY <2>1, <2>2
<1>2. /\ View(f) = f.data /\ Position(f) = f.off - (f.rend - f.rpos)
      /\ InputOf(f) = Unread(f) \o Beyond(f.data, f.off)
  BY ViewIs
<1>3. /\ View(g) = g.data /\ Position(g) = g.off - (g.rend - g.rpos)
      /\ InputOf(g) = Unread(g) \o Beyond(g.data, g.off)
  BY ViewIs
<1> QED BY <1>1, <1>2, <1>3 DEF SameStreamAs

LEMMA FlushedIs ==
  ASSUME NEW f, FileOK(f), NEW o \in Flushed(f)
  PROVE  /\ FileOK(o.f) /\ Held(o.f) = <<>> /\ o.f.wpos = o.f.wbase
         /\ SameMode(o.f, f) /\ SameReading(o.f, f)
         /\ o.f.eof = f.eof /\ o.lost \in BOOLEAN
         /\ ~ o.lost => /\ o.f.err = f.err /\ SameStreamAs(o.f, f) /\ o.f.data = View(f)
                        /\ o.f.wend = f.wend
         /\ o.lost => /\ o.f.err /\ o.f.rpos = NIL /\ o.f.rend = NIL
                      /\ o.f.wbase = NIL /\ o.f.wpos = NIL /\ o.f.wend = NIL
<1>1. CASE f.wpos = f.wbase
  <2>1. o.f = f /\ o.lost = FALSE
    BY <1>1 DEF Flushed
  <2>2. Held(f) = <<>>
    BY <1>1, HeldIs
  <2>3. View(f) = f.data
    BY <2>2, ViewIs
  <2> QED BY <1>1, <2>1, <2>2, <2>3 DEF SameMode, SameReading, SameStreamAs
<1>2. CASE f.wpos # f.wbase
  <2>1. o \in StdioWrite(f, <<>>)
    BY <1>2 DEF Flushed
  <2>2. Held(f) # <<>> /\ Held(f) \in Seq(Nat)
    BY <1>2, HeldIs
  <2>3. f.wend # NIL /\ f.rpos = NIL /\ f.rend = NIL /\ Pointers(f)
    BY <2>2, ViewIs DEF FileOK
  <2>4. <<>> \in Seq(Nat) /\ Held(f) \o <<>> = Held(f)
    BY <2>2, EmptySeq, ConcatEmptySeq
  <2>5. /\ FileOK(o.f) /\ Held(o.f) = <<>> /\ SameMode(o.f, f)
        /\ o.f.rpos = NIL /\ o.f.rend = NIL /\ o.f.eof = f.eof
        /\ ~ o.lost =>
             /\ o.f.wend # NIL /\ o.f.err = f.err
             /\ o.f.wbase = Buf /\ o.f.wpos = Buf /\ o.f.wend = Buf + f.size
             /\ o.f.data = Overlay(f.data, At(f), Held(f) \o <<>>)
             /\ o.f.off = IF Held(f) \o <<>> = <<>> THEN f.off ELSE At(f) + Len(Held(f) \o <<>>)
        /\ o.lost => o.f.err /\ o.f.wbase = NIL /\ o.f.wpos = NIL /\ o.f.wend = NIL
        /\ o.lost \in BOOLEAN
    BY <2>1, <2>3, <2>4, StdioWriteIs
  <2>6. o.f.wpos = o.f.wbase /\ SameReading(o.f, f)
    BY <2>3, <2>5 DEF SameReading
  <2>7. ASSUME ~ o.lost PROVE SameStreamAs(o.f, f) /\ o.f.data = View(f) /\ o.f.wend = f.wend
    <3> DEFINE g == o.f
               at == IF f.app THEN Len(View(f)) ELSE Position(f)
    <3>1. FileOK(g) /\ g.wend # NIL /\ Held(g) = <<>> /\ Split(f, g, <<>>, Held(f), <<>>)
      BY <2>4, <2>5, <2>7 DEF SameMode, Split
    <3> HIDE DEF g
    <3>6. Wrote(f, g, <<>>)
      BY <2>2, <2>3, <2>4, <3>1, SplitIs
    <3>2. /\ View(g) = Overlay(View(f), at, <<>>)
          /\ Position(g) = Position(f)
          /\ InputOf(g) = Beyond(View(g), Position(g))
      BY <3>6 DEF Wrote
    <3>3. View(g) = View(f) /\ View(g) = g.data
      BY <3>1, <3>2, OverlayEmpty, ViewIs
    <3>4. InputOf(f) = Beyond(View(f), Position(f))
      BY <2>3 DEF InputOf
    <3>5. f.wend = Buf + f.size
      BY <2>3 DEF Pointers
    <3> QED BY <2>5, <2>7, <3>2, <3>3, <3>4, <3>5 DEF g, SameStreamAs
  <2> QED BY <2>3, <2>5, <2>6, <2>7
<1> QED BY <1>1, <1>2

LEMMA NotWritingIs ==
  ASSUME NEW f, FileOK(f), Held(f) = <<>>
  PROVE  LET g == NotWriting(f) IN
         /\ FileOK(g) /\ Held(g) = <<>> /\ SameMode(g, f) /\ SameReading(g, f) /\ SameStreamAs(g, f)
         /\ g.wbase = NIL /\ g.wpos = NIL /\ g.wend = NIL
         /\ g.eof = f.eof /\ g.err = f.err /\ g.data = f.data /\ g.off = f.off /\ g.mem = f.mem
<1>1. f \in FILES /\ Pointers(f) /\ EndOfFile(f)
  BY DEF FileOK
<1>2. PICK g : g = NotWriting(f)
  OBVIOUS
<1>3. /\ g \in FILES /\ SameMode(g, f) /\ SameReading(g, f)
      /\ g.wbase = NIL /\ g.wpos = NIL /\ g.wend = NIL
      /\ g.eof = f.eof /\ g.err = f.err /\ g.data = f.data /\ g.off = f.off /\ g.mem = f.mem
  BY <1>1, <1>2 DEF NotWriting, FILES, NIL, SameMode, SameReading
<1>4. EndOfFile(g)
  BY <1>1, <1>3 DEF EndOfFile, SameReading
<1>5. /\ g.size = f.size /\ g.wpos = g.wbase
      /\ \/ g.rpos = NIL /\ g.rend = NIL
         \/ g.rpos >= 1 /\ g.rpos <= g.rend /\ g.rend <= Buf + g.size
  BY <1>1, <1>3 DEF Pointers, SameReading, SameMode
<1>6. FileOK(g) /\ Held(g) = <<>>
  BY <1>3, <1>4, <1>5, ReadyIsOK
<1>7. SameStreamAs(g, f)
  BY <1>3, <1>6, SameContent
<1> QED BY <1>2, <1>3, <1>6, <1>7

LEMMA NotReadingIs ==
  ASSUME NEW f, FileOK(f), Held(f) = <<>>
  PROVE  LET g == NotReading(f) IN
         /\ g.off >= Len(g.data) \/ ~g.eof => FileOK(g) /\ Held(g) = <<>>
         /\ SameMode(g, f) /\ SameWriting(g, f)
         /\ g.rpos = NIL /\ g.rend = NIL /\ g \in FILES
         /\ g.eof = f.eof /\ g.err = f.err /\ g.data = f.data /\ g.off = f.off /\ g.mem = f.mem
         /\ f.rpos = f.rend => FileOK(g) /\ Held(g) = <<>> /\ SameStreamAs(g, f)
<1>1. f \in FILES /\ Pointers(f) /\ EndOfFile(f)
  BY DEF FileOK
<1>2. PICK g : g = NotReading(f)
  OBVIOUS
<1>3. /\ g \in FILES /\ SameMode(g, f) /\ SameWriting(g, f)
      /\ g.rpos = NIL /\ g.rend = NIL
      /\ g.eof = f.eof /\ g.err = f.err /\ g.data = f.data /\ g.off = f.off /\ g.mem = f.mem
  BY <1>1, <1>2 DEF NotReading, FILES, NIL, SameMode, SameWriting
<1>4. f.wpos = f.wbase
  BY HeldIs
<1>5. /\ g.size = f.size /\ g.wpos = g.wbase
      /\ \/ g.wbase = NIL /\ g.wpos = NIL /\ g.wend = NIL
         \/ g.wbase = Buf /\ g.wend = Buf + g.size /\ g.rend = NIL
  BY <1>1, <1>3, <1>4 DEF Pointers, SameWriting, SameMode
<1>6. EndOfFile(g) => FileOK(g) /\ Held(g) = <<>>
  BY <1>3, <1>5, ReadyIsOK
<1>7. g.off >= Len(g.data) \/ ~g.eof => EndOfFile(g)
  BY <1>3 DEF EndOfFile
<1>8. ASSUME f.rpos = f.rend PROVE FileOK(g) /\ Held(g) = <<>> /\ SameStreamAs(g, f)
  <2>1. EndOfFile(g)
    BY <1>1, <1>3, <1>8 DEF EndOfFile
  <2> QED BY <1>3, <1>6, <1>8, <2>1, SameContent
<1> QED BY <1>2, <1>3, <1>6, <1>7, <1>8

LEMMA ToreadIs ==
  ASSUME NEW f, FileOK(f), f.rpos = f.rend, NEW t \in Toread(f)
  PROVE  /\ FileOK(t.f) /\ Held(t.f) = <<>> /\ SameMode(t.f, f)
         /\ t.f.wbase = NIL /\ t.f.wpos = NIL /\ t.f.wend = NIL
         /\ t.f.rpos = t.f.rend /\ t.f.eof = f.eof
         /\ t.ok = (~f.nord /\ ~f.eof) /\ t.lost \in BOOLEAN
         /\ ~f.nord => t.f.rpos = Buf + f.size
         /\ f.nord => t.f.err
         /\ ~t.lost => SameStreamAs(t.f, f) /\ (f.err => t.f.err)
         /\ t.lost => t.f.err
<1>1. PICK o \in Flushed(f) :
        t = [f |-> IF f.nord THEN [NotWriting(o.f) EXCEPT !.err = TRUE]
                   ELSE [NotWriting(o.f) EXCEPT !.rpos = Buf + NotWriting(o.f).size,
                                                !.rend = Buf + NotWriting(o.f).size],
             ok |-> ~f.nord /\ ~f.eof, lost |-> o.lost]
  BY DEF Toread
<1>2. /\ FileOK(o.f) /\ Held(o.f) = <<>>
      /\ SameMode(o.f, f) /\ SameReading(o.f, f)
      /\ o.f.eof = f.eof /\ o.lost \in BOOLEAN
      /\ ~ o.lost => o.f.err = f.err /\ SameStreamAs(o.f, f)
      /\ o.lost => o.f.err
  BY FlushedIs
<1>3. PICK g : g = NotWriting(o.f)
  OBVIOUS
<1>4. /\ FileOK(g) /\ Held(g) = <<>> /\ SameMode(g, o.f) /\ SameReading(g, o.f) /\ SameStreamAs(g, o.f)
      /\ g.wbase = NIL /\ g.wpos = NIL /\ g.wend = NIL
      /\ g.eof = o.f.eof /\ g.err = o.f.err
  BY <1>2, <1>3, NotWritingIs
<1>5. /\ SameMode(g, f) /\ g.rpos = g.rend /\ g.eof = f.eof
      /\ ~ o.lost => g.err = f.err /\ SameStreamAs(g, f)
      /\ o.lost => g.err
  BY <1>2, <1>4 DEF SameMode, SameReading, SameStreamAs
<1>6. /\ t.f = IF f.nord THEN [g EXCEPT !.err = TRUE]
               ELSE [g EXCEPT !.rpos = Buf + g.size, !.rend = Buf + g.size]
      /\ t.ok = (~f.nord /\ ~f.eof) /\ t.lost = o.lost
  BY <1>1, <1>3
<1>7. g \in FILES /\ EndOfFile(g) /\ g.size \in Nat /\ Buf + g.size \in Nat /\ Buf + g.size >= 1
      /\ f.nord \in BOOLEAN /\ g.err \in BOOLEAN
  <2>1. g \in FILES /\ EndOfFile(g) /\ f \in FILES
    BY <1>4 DEF FileOK
  <2>2. g.size \in Nat /\ f.nord \in BOOLEAN /\ g.err \in BOOLEAN
    BY <2>1 DEF FILES
  <2> QED BY <2>1, <2>2, BufIs
<1>8. /\ t.f \in FILES /\ SameMode(t.f, g) /\ SameWriting(t.f, g)
      /\ t.f.eof = g.eof /\ t.f.data = g.data /\ t.f.off = g.off
      /\ t.f.rpos = t.f.rend
      /\ f.nord => SameReading(t.f, g) /\ t.f.err
      /\ ~f.nord => t.f.rpos = Buf + g.size /\ t.f.err = g.err
  <2>1. CASE f.nord
    <3>1. t.f = [g EXCEPT !.err = TRUE]
      BY <1>6, <2>1
    <3> QED BY <1>5, <1>7, <2>1, <3>1 DEF FILES, SameMode, SameWriting, SameReading
  <2>2. CASE ~f.nord
    <3>1. t.f = [g EXCEPT !.rpos = Buf + g.size, !.rend = Buf + g.size]
      BY <1>6, <2>2
    <3> QED BY <1>7, <2>2, <3>1 DEF FILES, SameMode, SameWriting, SameReading
  <2> QED BY <2>1, <2>2
<1>9. EndOfFile(t.f)
  BY <1>5, <1>7, <1>8 DEF EndOfFile
<1>10. \/ t.f.rpos = NIL /\ t.f.rend = NIL
       \/ t.f.rpos >= 1 /\ t.f.rpos <= t.f.rend /\ t.f.rend <= Buf + t.f.size
  <2>1. CASE f.nord
    BY <1>4, <1>8, <2>1 DEF FileOK, Pointers, SameReading, SameMode
  <2>2. CASE ~f.nord
    BY <1>7, <1>8, <2>2 DEF SameMode
  <2> QED BY <2>1, <2>2
<1>11. FileOK(t.f) /\ Held(t.f) = <<>>
  BY <1>4, <1>8, <1>9, <1>10, ReadyIsOK DEF SameMode, SameWriting
<1>12. SameStreamAs(t.f, g)
  BY <1>4, <1>5, <1>8, <1>11, SameContent
<1>13. SameMode(t.f, f) /\ t.f.wbase = NIL /\ t.f.wpos = NIL /\ t.f.wend = NIL /\ t.f.eof = f.eof
  BY <1>4, <1>5, <1>8 DEF SameMode, SameWriting
<1>14. ~f.nord => t.f.rpos = Buf + f.size
  BY <1>5, <1>8 DEF SameMode
<1>15. ~t.lost => SameStreamAs(t.f, f) /\ (f.err => t.f.err)
  BY <1>5, <1>6, <1>8, <1>12 DEF SameStreamAs
<1>16. t.lost => t.f.err
  BY <1>5, <1>6, <1>8
<1> QED BY <1>2, <1>6, <1>8, <1>11, <1>13, <1>14, <1>15, <1>16

-----------------------------------------------------------------------------
(***************************************************************************)
(* 4  Reading                                                              *)
(***************************************************************************)
LEMMA BeyondBeyond ==
  ASSUME NEW s \in Seq(Nat), NEW m \in Nat, NEW n \in Nat
  PROVE  Beyond(Beyond(s, m), n) = Beyond(s, m + n)
<1>1. PICK len \in Nat : len = Len(s)
  BY LenProperties
<1>2. /\ Beyond(s, m) \in Seq(Nat)
      /\ Len(Beyond(s, m)) = IF m < len THEN len - m ELSE 0
      /\ \A i \in 1 .. len - m : Beyond(s, m)[i] = s[m + i]
  BY <1>1, BeyondIs
<1>3. PICK x \in Seq(Nat), lx \in Nat : x = Beyond(s, m) /\ lx = Len(x)
  BY <1>2, LenProperties
<1>4. /\ Beyond(x, n) \in Seq(Nat)
      /\ Len(Beyond(x, n)) = IF n < lx THEN lx - n ELSE 0
      /\ \A i \in 1 .. lx - n : Beyond(x, n)[i] = x[n + i]
  BY <1>3, BeyondIs
<1>5. m + n \in Nat
  OBVIOUS
<1>6. /\ Beyond(s, m + n) \in Seq(Nat)
      /\ Len(Beyond(s, m + n)) = IF m + n < len THEN len - (m + n) ELSE 0
      /\ \A i \in 1 .. len - (m + n) : Beyond(s, m + n)[i] = s[m + n + i]
  BY <1>1, <1>5, BeyondIs
<1>7. lx = IF m < len THEN len - m ELSE 0
  BY <1>2, <1>3
<1>8. Len(Beyond(x, n)) = Len(Beyond(s, m + n)) /\ Len(Beyond(x, n)) \in Nat
  BY <1>4, <1>6, <1>7
<1>9. ASSUME NEW i \in 1 .. Len(Beyond(x, n)) PROVE Beyond(x, n)[i] = Beyond(s, m + n)[i]
  <2>1. PICK j \in Nat : j = i /\ j >= 1 /\ j <= Len(Beyond(x, n))
    BY <1>8
  <2>2. n < lx /\ m < len /\ lx = len - m
    BY <1>4, <1>7, <2>1
  <2>3. j \in 1 .. lx - n /\ n + j \in 1 .. len - m /\ j \in 1 .. len - (m + n)
    BY <1>4, <2>1, <2>2
  <2>4. Beyond(x, n)[j] = x[n + j]
    BY <1>4, <2>3
  <2>5. x[n + j] = s[m + (n + j)]
    BY <1>2, <1>3, <2>3
  <2>6. Beyond(s, m + n)[j] = s[m + n + j]
    BY <1>6, <2>3
  <2>7. m + (n + j) = m + n + j
    OBVIOUS
  <2> QED BY <2>1, <2>4, <2>5, <2>6, <2>7
<1>10. Beyond(x, n) = Beyond(s, m + n)
  BY <1>4, <1>6, <1>8, <1>9, SeqEqual
<1> QED BY <1>3, <1>10

LEMMA NothingBeyond ==
  ASSUME NEW s \in Seq(Nat), NEW n \in Nat, n >= Len(s)
  PROVE  Beyond(s, n) = <<>>
<1>1. Len(s) \in Nat
  BY LenProperties
<1>2. Beyond(s, n) \in Seq(Nat) /\ Len(Beyond(s, n)) = 0
  BY <1>1, BeyondIs
<1> QED BY <1>2, EmptySeq

LEMMA BeyondZero ==
  ASSUME NEW s \in Seq(Nat)
  PROVE  Beyond(s, 0) = s
<1>1. PICK len \in Nat : len = Len(s)
  BY LenProperties
<1>2. PICK z \in Nat : z = 0
  OBVIOUS
<1>3. /\ Beyond(s, z) \in Seq(Nat)
      /\ Len(Beyond(s, z)) = IF z < len THEN len - z ELSE 0
      /\ \A i \in 1 .. len - z : Beyond(s, z)[i] = s[z + i]
  BY <1>1, BeyondIs
<1>4. Len(Beyond(s, z)) = len /\ \A i \in 1 .. len : Beyond(s, z)[i] = s[i]
  BY <1>2, <1>3
<1>5. Beyond(s, z) = s
  BY <1>1, <1>3, <1>4, SeqEqual
<1> QED BY <1>2, <1>5

\* What is due at an offset
LEMMA DueIs ==
  ASSUME NEW data \in Seq(Nat), NEW off \in Nat, NEW n \in Nat, n = 0 \/ off + n <= Len(data)
  PROVE  LET due == SubSeq(data, off + 1, off + n) IN
         /\ due \in Seq(Nat) /\ Len(due) = n
         /\ \A i \in 1 .. n : due[i] = data[off + i]
         /\ due = Prefix(Beyond(data, off), n)
         /\ n <= Len(Beyond(data, off))
<1> DEFINE due == SubSeq(data, off + 1, off + n)
<1>1. PICK len \in Nat : len = Len(data)
  BY LenProperties
<1>2. \A i \in off + 1 .. off + n : data[i] \in Nat
  <2>1. ASSUME NEW i \in off + 1 .. off + n PROVE i \in 1 .. len
    BY <1>1
  <2> QED BY <1>1, <2>1, ElementOfSeq
<1>3. /\ due \in Seq(Nat)
      /\ Len(due) = IF off + 1 <= off + n THEN off + n - (off + 1) + 1 ELSE 0
      /\ \A i \in 1 .. off + n - (off + 1) + 1 : due[i] = data[off + 1 + i - 1]
  <2>1. off + 1 \in Int /\ off + n \in Int
    OBVIOUS
  <2> QED BY <1>2, <2>1, SubSeqProperties
<1> HIDE DEF due
<1>4. Len(due) = n
  BY <1>3
<1>5. \A i \in 1 .. n : due[i] = data[off + i]
  <2>1. off + n - (off + 1) + 1 = n /\ \A i \in 1 .. n : off + 1 + i - 1 = off + i
    OBVIOUS
  <2> QED BY <1>3, <2>1
<1>6. PICK x \in Seq(Nat), lx \in Nat : x = Beyond(data, off) /\ lx = Len(x)
  BY BeyondIs, LenProperties
<1>7. lx = IF off < len THEN len - off ELSE 0
  BY <1>1, <1>6, BeyondIs
<1>8. n \in 0 .. lx
  BY <1>1, <1>7
<1>9. /\ Prefix(x, n) \in Seq(Nat) /\ Len(Prefix(x, n)) = n
      /\ \A i \in 1 .. n : Prefix(x, n)[i] = x[i]
  BY <1>6, <1>8, PrefixIs
<1>10. \A i \in 1 .. n : x[i] = data[off + i]
  <2>1. \A i \in 1 .. len - off : x[i] = data[off + i]
    BY <1>1, <1>6, BeyondIs
  <2>2. \A i \in 1 .. n : i \in 1 .. len - off
    BY <1>1
  <2> QED BY <2>1, <2>2
<1>11. due = Prefix(x, n)
  BY <1>3, <1>4, <1>5, <1>9, <1>10, SeqEqual, ZenonT(60)
<1> QED BY <1>3, <1>4, <1>5, <1>6, <1>8, <1>11 DEF due

LEMMA AheadIs ==
  ASSUME NEW f \in FILES
  PROVE  /\ Ahead(f) \in Nat
         /\ \A n \in Nat : n <= Ahead(f) => n = 0 \/ f.off + n <= Len(f.data)
         /\ f.off + Ahead(f) >= Len(f.data)
BY AtIs DEF Ahead

LEMMA StoredIs ==
  ASSUME NEW f \in FILES, NEW at \in Nat, NEW b \in Seq(Nat),
         at >= 1, at + Len(b) - 1 <= UNGET + Max({BUFSIZ} \cup VbufSizes)
  PROVE  LET g == Stored(f, at, b) IN
         /\ g \in FILES /\ SameMode(g, f) /\ SameReading(g, f) /\ SameWriting(g, f)
         /\ g.eof = f.eof /\ g.err = f.err /\ g.data = f.data /\ g.off = f.off
         /\ \A i \in 1 .. Len(b) : g.mem[at + i - 1] = b[i]
         /\ \A a \in Int : a >= 1 /\ a < at => g.mem[a] = f.mem[a]
         /\ \A a \in at + Len(b) .. UNGET + Max({BUFSIZ} \cup VbufSizes) : g.mem[a] = f.mem[a]
<1>1. PICK room \in Nat : room = UNGET + Max({BUFSIZ} \cup VbufSizes)
  BY RoomIs
<1>2. f.mem \in [1 .. room -> Nat]
  BY <1>1 DEF FILES
<1>3. PICK lb \in Nat : lb = Len(b)
  BY LenProperties
<1>4. \A i \in 1 .. lb : b[i] \in Nat
  BY <1>3, ElementOfSeq
<1> DEFINE m == [a \in 1 .. room |-> IF a >= at /\ a < at + lb THEN b[a - at + 1] ELSE f.mem[a]]
<1>5. m \in [1 .. room -> Nat]
  <2>1. ASSUME NEW a \in 1 .. room PROVE (IF a >= at /\ a < at + lb THEN b[a - at + 1] ELSE f.mem[a]) \in Nat
    <3>1. CASE a >= at /\ a < at + lb
      <4>1. a - at + 1 \in 1 .. lb
        BY <3>1
      <4> QED BY <1>4, <3>1, <4>1
    <3>2. CASE ~(a >= at /\ a < at + lb)
      BY <1>2, <3>2
    <3> QED BY <3>1, <3>2
  <2> QED BY <2>1
<1>6. Stored(f, at, b) = [f EXCEPT !.mem = m]
  <2>1. DOMAIN f.mem = 1 .. room
    BY <1>2
  <2> QED BY <1>3, <2>1 DEF Stored
<1>7. \A i \in 1 .. lb : m[at + i - 1] = b[i]
  <2>1. ASSUME NEW i \in 1 .. lb PROVE m[at + i - 1] = b[i]
    <3>1. at + i - 1 \in 1 .. room /\ at + i - 1 >= at /\ at + i - 1 < at + lb /\ (at + i - 1) - at + 1 = i
      BY <1>1, <1>3
    <3> QED BY <3>1
  <2> QED BY <2>1
<1>8. \A a \in Int : a >= 1 /\ a < at => m[a] = f.mem[a]
  <2>1. ASSUME NEW a \in Int, a >= 1, a < at PROVE m[a] = f.mem[a]
    <3>1. CASE a \in 1 .. room
      BY <2>1, <3>1
    <3>2. CASE a \notin 1 .. room
      <4>1. FALSE
        BY <1>1, <1>3, <2>1, <3>2
      <4> QED BY <4>1
    <3> QED BY <3>1, <3>2
  <2> QED BY <2>1
<1>9. \A a \in at + lb .. room : m[a] = f.mem[a]
  <2>1. ASSUME NEW a \in at + lb .. room PROVE m[a] = f.mem[a]
    <3>1. a \in 1 .. room /\ ~(a < at + lb)
      OBVIOUS
    <3> QED BY <3>1
  <2> QED BY <2>1
<1> HIDE DEF m
<1>10. PICK g : g = Stored(f, at, b)
  OBVIOUS
<1>11. /\ g \in FILES /\ SameMode(g, f) /\ SameReading(g, f) /\ SameWriting(g, f)
       /\ g.eof = f.eof /\ g.err = f.err /\ g.data = f.data /\ g.off = f.off
       /\ g.mem = m
  BY <1>1, <1>5, <1>6, <1>10 DEF FILES, SameMode, SameReading, SameWriting
<1> QED BY <1>1, <1>3, <1>7, <1>8, <1>9, <1>10, <1>11

\* Whoever reads l bytes gets the first of what is due, and all of them unless
\* the file ends or there is an error.
Reads(f, g, got, l) ==
  /\ got \in Seq(Nat) /\ Len(got) <= l /\ Len(got) <= Len(InputOf(f))
  /\ got = Prefix(InputOf(f), Len(got))
  /\ InputOf(g) = Beyond(InputOf(f), Len(got))
  /\ Position(g) = Position(f) + Len(got)
  /\ View(g) = View(f)
  /\ Len(got) < l => g.rpos = g.rend /\ (g.err \/ (g.eof /\ InputOf(g) = <<>>))

LEMMA ReadStraight ==
  ASSUME NEW f, FileOK(f), Held(f) = <<>>, f.wbase = NIL, f.wpos = NIL, f.wend = NIL, f.rpos = f.rend, ~f.eof,
         NEW n \in Nat, n <= Ahead(f),
         NEW g \in FILES, SameMode(g, f), SameReading(g, f), SameWriting(g, f),
         g.data = f.data, g.off = f.off + n, g.eof => n = Ahead(f),
         NEW l \in Nat, n <= l, n < l => g.err \/ g.eof
  PROVE  LET due == SubSeq(f.data, f.off + 1, f.off + n) IN
         FileOK(g) /\ Held(g) = <<>> /\ g.wend = NIL /\ Reads(f, g, due, l)
<1>1. f \in FILES /\ Pointers(f) /\ f.data \in Seq(Nat) /\ f.off \in Nat /\ Len(f.data) \in Nat
      /\ f.rpos \in Nat
  BY AtIs DEF FileOK, FILES
<1>2. /\ n = 0 \/ f.off + n <= Len(f.data)
      /\ g.eof => g.off >= Len(g.data)
  BY <1>1, AheadIs
<1>3. PICK due : due = SubSeq(f.data, f.off + 1, f.off + n)
  OBVIOUS
<1>4. /\ due \in Seq(Nat) /\ Len(due) = n
      /\ due = Prefix(Beyond(f.data, f.off), n)
      /\ n <= Len(Beyond(f.data, f.off))
  BY <1>1, <1>2, <1>3, DueIs
<1>5. EndOfFile(g)
  BY <1>2 DEF EndOfFile, SameReading
<1>6. /\ g.size = f.size /\ g.wpos = g.wbase
      /\ \/ g.rpos = NIL /\ g.rend = NIL
         \/ g.rpos >= 1 /\ g.rpos <= g.rend /\ g.rend <= Buf + g.size
      /\ g.wbase = NIL /\ g.wpos = NIL /\ g.wend = NIL
  BY <1>1 DEF Pointers, SameReading, SameMode, SameWriting
<1>7. FileOK(g) /\ Held(g) = <<>>
  BY <1>5, <1>6, ReadyIsOK
<1>8. Unread(f) = <<>> /\ Unread(g) = <<>> /\ g.rpos = g.rend
  BY <1>7, UnreadIs DEF SameReading
<1>9. /\ View(f) = f.data /\ Position(f) = f.off - (f.rend - f.rpos)
      /\ InputOf(f) = Unread(f) \o Beyond(f.data, f.off)
      /\ View(g) = g.data /\ Position(g) = g.off - (g.rend - g.rpos)
      /\ InputOf(g) = Unread(g) \o Beyond(g.data, g.off)
  BY <1>7, ViewIs
<1>0. PICK data \in Seq(Nat), off \in Nat, end \in Nat :
        data = f.data /\ data = g.data /\ off = f.off /\ end = off + n /\ end = g.off
  BY <1>1
<1>10. Beyond(f.data, f.off) \in Seq(Nat) /\ Beyond(g.data, g.off) \in Seq(Nat)
  <2>1. Beyond(data, off) \in Seq(Nat) /\ Beyond(data, end) \in Seq(Nat)
    BY BeyondIs
  <2> QED BY <1>0, <2>1
<1>11. InputOf(f) = Beyond(f.data, f.off) /\ InputOf(g) = Beyond(g.data, g.off)
  BY <1>8, <1>9, <1>10, ConcatEmptySeq
<1>12. InputOf(g) = Beyond(InputOf(f), n)
  <2>1. Beyond(Beyond(data, off), n) = Beyond(data, off + n)
    BY BeyondBeyond
  <2> QED BY <1>0, <1>11, <2>1
<1>13. Position(g) = Position(f) + n
  BY <1>1, <1>8, <1>9 DEF SameReading
<1>14. g.eof => InputOf(g) = <<>>
  BY <1>1, <1>2, <1>11, NothingBeyond
<1>15. Reads(f, g, due, l)
  BY <1>4, <1>8, <1>9, <1>11, <1>12, <1>13, <1>14 DEF Reads
<1> QED BY <1>3, <1>6, <1>7, <1>15


LEMMA ConcatIs ==
  \A s, t \in Seq(Nat) :
    /\ s \o t \in Seq(Nat) /\ Len(s \o t) = Len(s) + Len(t)
    /\ \A i \in 1 .. Len(s) + Len(t) : (s \o t)[i] = IF i <= Len(s) THEN s[i] ELSE t[i - Len(s)]
BY ConcatProperties

LEMMA BufferEnds ==
  ASSUME NEW off \in Nat, NEW k \in Nat, NEW c \in Nat, c >= 1
  PROVE  \E l \in Nat, p \in Nat, n \in Nat :
           /\ l = k + 1 /\ p = off + l /\ c = n + 1 /\ off + (k + c) = p + n
           /\ \A j \in Nat : off + k + (j + 1) = p + j
<1>1. PICK l \in Nat, p \in Nat, n \in Nat : l = k + 1 /\ p = off + l /\ n = c - 1
  <2>1. k + 1 \in Nat /\ off + (k + 1) \in Nat /\ c - 1 \in Nat
    OBVIOUS
  <2> QED BY <2>1
<1>2. c = n + 1 /\ off + (k + c) = p + n
  BY <1>1
<1>3. \A j \in Nat : off + k + (j + 1) = p + j
  BY <1>1
<1> QED BY <1>1, <1>2, <1>3

LEMMA BufferedData ==
  ASSUME NEW data \in Seq(Nat), NEW off \in Nat, NEW k \in Nat, NEW c \in Nat, c >= 1,
         off + (k + c) <= Len(data)
  PROVE  LET x == Beyond(SubSeq(data, off + 1, off + (k + c)), k) IN
         /\ x \in Seq(Nat) /\ Len(x) = c
         /\ \A i \in 1 .. c : x[i] = data[off + k + i]
<1>1. PICK n \in Nat : n = k + c
  OBVIOUS
<1>2. PICK all : all = SubSeq(data, off + 1, off + n)
  OBVIOUS
<1>3. off + n <= Len(data)
  BY <1>1
<1>4. /\ all \in Seq(Nat) /\ Len(all) = n
      /\ \A i \in 1 .. n : all[i] = data[off + i]
  BY <1>2, <1>3, DueIs
<1>5. PICK x : x = Beyond(all, k)
  OBVIOUS
<1>6. /\ x \in Seq(Nat)
      /\ Len(x) = IF k < n THEN n - k ELSE 0
      /\ \A i \in 1 .. n - k : x[i] = all[k + i]
  BY <1>4, <1>5, BeyondIs
<1>7. Len(x) = c
  BY <1>1, <1>6
<1>8. ASSUME NEW i \in 1 .. c PROVE x[i] = data[off + k + i]
  <2>1. i \in 1 .. n - k /\ k + i \in 1 .. n /\ off + (k + i) = off + k + i
    BY <1>1
  <2> QED BY <1>4, <1>6, <2>1
<1> QED BY <1>1, <1>2, <1>5, <1>6, <1>7, <1>8

LEMMA UnreadAndRest ==
  ASSUME NEW data \in Seq(Nat), NEW p \in Nat, NEW n \in Nat, NEW u \in Seq(Nat), Len(u) = n,
         \A i \in 1 .. n : u[i] = data[p + i], p + n <= Len(data)
  PROVE  u \o Beyond(data, p + n) = Beyond(data, p)
<1>1. PICK len \in Nat : len = Len(data)
  BY LenProperties
<1>2. PICK o \in Nat : o = p + n /\ o <= len /\ p <= len
  BY <1>1
<1>3. PICK y : y = Beyond(data, o)
  OBVIOUS
<1>4. y \in Seq(Nat) /\ Len(y) = len - o /\ \A i \in 1 .. len - o : y[i] = data[o + i]
  <2>1. /\ y \in Seq(Nat) /\ Len(y) = IF o < len THEN len - o ELSE 0
        /\ \A i \in 1 .. len - o : y[i] = data[o + i]
    BY <1>1, <1>3, BeyondIs
  <2> QED BY <1>2, <2>1
<1>5. PICK z : z = Beyond(data, p)
  OBVIOUS
<1>6. z \in Seq(Nat) /\ Len(z) = len - p /\ \A i \in 1 .. len - p : z[i] = data[p + i]
  <2>1. /\ z \in Seq(Nat) /\ Len(z) = IF p < len THEN len - p ELSE 0
        /\ \A i \in 1 .. len - p : z[i] = data[p + i]
    BY <1>1, <1>5, BeyondIs
  <2> QED BY <1>2, <2>1
<1>7. PICK ly \in Nat : ly = len - o
  BY <1>2
<1>8. /\ u \o y \in Seq(Nat) /\ Len(u \o y) = n + ly
      /\ \A i \in 1 .. n + ly : (u \o y)[i] = IF i <= n THEN u[i] ELSE y[i - n]
  <2>1. Len(y) = ly /\ y \in Seq(Nat)
    BY <1>4, <1>7
  <2>2. /\ u \o y \in Seq(Nat) /\ Len(u \o y) = Len(u) + Len(y)
        /\ \A i \in 1 .. Len(u) + Len(y) : (u \o y)[i] = IF i <= Len(u) THEN u[i] ELSE y[i - Len(u)]
    BY <2>1, ConcatIs
  <2> QED BY <2>1, <2>2
<1>9. n + ly = len - p
  BY <1>2, <1>7
<1>10. ASSUME NEW i \in 1 .. n + ly PROVE (u \o y)[i] = z[i]
  <2>1. z[i] = data[p + i]
    BY <1>6, <1>9
  <2>2. CASE i <= n
    <3>1. i \in 1 .. n
      BY <1>2, <2>2
    <3> QED BY <1>8, <2>1, <2>2, <3>1
  <2>3. CASE ~(i <= n)
    <3>1. i - n \in 1 .. ly /\ o + (i - n) = p + i
      BY <1>2, <2>3
    <3>2. y[i - n] = data[o + (i - n)]
      BY <1>4, <1>7, <3>1
    <3> QED BY <1>8, <2>1, <2>3, <3>1, <3>2
  <2> QED BY <2>2, <2>3
<1>11. u \o y = z
  BY <1>6, <1>8, <1>9, <1>10, SeqEqual
<1> QED BY <1>2, <1>3, <1>5, <1>11

\* The read that fills the buffer: c bytes are in it, and the first of them is
\* taken.
LEMMA ReadBuffered ==
  ASSUME NEW f, FileOK(f), Held(f) = <<>>, f.wbase = NIL, f.wpos = NIL, f.wend = NIL, f.rpos = f.rend,
         NEW k \in Nat, NEW c \in Nat, c >= 1, c <= f.size,
         f.off + (k + c) <= Len(f.data),
         NEW g \in FILES, SameMode(g, f), SameWriting(g, f), g.data = f.data, ~g.eof,
         g.off = f.off + (k + c), g.rpos = Buf + 1, g.rend = Buf + c,
         \A i \in 1 .. c : g.mem[Buf + i - 1] = f.data[f.off + k + i]
  PROVE  LET due == SubSeq(f.data, f.off + 1, f.off + (k + 1)) IN
         FileOK(g) /\ Held(g) = <<>> /\ Reads(f, g, due, k + 1)
<1>1. /\ Pointers(f) /\ f.size \in Nat /\ f.rpos \in Nat
  BY DEF FileOK, FILES
<1>2. PICK data \in Seq(Nat), off \in Nat : data = f.data /\ off = f.off
  BY AtIs DEF FileOK
<1>0. /\ off + (k + c) <= Len(data) /\ g.off = off + (k + c)
      /\ \A i \in 1 .. c : g.mem[Buf + i - 1] = data[off + k + i]
  BY <1>2
<1>3. PICK l \in Nat, p \in Nat, n \in Nat :
        /\ l = k + 1 /\ p = off + l /\ c = n + 1 /\ off + (k + c) = p + n
        /\ \A j \in Nat : off + k + (j + 1) = p + j
  BY BufferEnds
<1>4. PICK len \in Nat : len = Len(data)
  BY LenProperties
<1>5. p + n <= len /\ off + l <= len /\ off + (k + c) = p + n
  <2>1. off + (k + c) = p + n
    BY <1>3
  <2>2. p + n <= len
    BY <1>0, <1>4, <2>1
  <2> QED BY <1>3, <2>1, <2>2
<1>6. PICK due : due = SubSeq(data, off + 1, off + l)
  OBVIOUS
<1>7. /\ due \in Seq(Nat) /\ Len(due) = l
      /\ due = Prefix(Beyond(data, off), l)
      /\ l <= Len(Beyond(data, off))
  BY <1>4, <1>5, <1>6, DueIs, ZenonT(60)
<1>8. FileOK(g) /\ Held(g) = <<>> /\ g.wend = NIL
  <2>1. EndOfFile(g)
    BY DEF EndOfFile
  <2>2. g.size = f.size /\ g.wpos = g.wbase /\ g.wbase = NIL /\ g.wpos = NIL /\ g.wend = NIL
    BY DEF SameMode, SameWriting
  <2>3. g.rpos >= 1 /\ g.rpos <= g.rend /\ g.rend <= Buf + g.size
    BY <1>1, <2>2, BufIs
  <2> QED BY <2>1, <2>2, <2>3, ReadyIsOK
<1>9. PICK u : u = Unread(g)
  OBVIOUS
<1>10. g.rend - g.rpos = n
  <2>1. PICK buf \in Nat : buf = Buf
    BY BufIs
  <2>2. g.rpos = buf + 1 /\ g.rend = buf + c
    BY <2>1
  <2>3. (buf + c) - (buf + 1) = n
    BY <1>3
  <2> QED BY <2>2, <2>3
<1>11. /\ u \in Seq(Nat) /\ Len(u) = n
       /\ \A i \in 1 .. n : u[i] = data[p + i]
  <2>1. u \in Seq(Nat) /\ Len(u) = n /\ \A i \in 1 .. n : u[i] = g.mem[g.rpos + i - 1]
    BY <1>8, <1>9, <1>10, UnreadIs
  <2>2. ASSUME NEW i \in 1 .. n PROVE u[i] = data[p + i]
    <3>1. i + 1 \in 1 .. c
      BY <1>3
    <3>2. g.rpos + i - 1 = Buf + (i + 1) - 1
      BY BufIs
    <3>5. PICK j \in Nat : j = i
      BY <1>3
    <3>6. off + k + (j + 1) = p + j
      BY <1>3
    <3>3. off + k + (i + 1) = p + i
      BY <3>5, <3>6
    <3>4. g.mem[Buf + (i + 1) - 1] = data[off + k + (i + 1)]
      BY <1>0, <3>1
    <3> QED BY <2>1, <3>2, <3>3, <3>4
  <2> QED BY <2>1, <2>2
<1>12. u \o Beyond(data, p + n) = Beyond(data, p)
  BY <1>4, <1>5, <1>11, UnreadAndRest, ZenonT(60)
<1>13. /\ View(f) = f.data /\ Position(f) = f.off - (f.rend - f.rpos)
       /\ InputOf(f) = Unread(f) \o Beyond(f.data, f.off)
       /\ View(g) = g.data /\ Position(g) = g.off - (g.rend - g.rpos)
       /\ InputOf(g) = u \o Beyond(g.data, g.off)
  BY <1>8, <1>9, ViewIs
<1>14. InputOf(f) = Beyond(data, off)
  <2>1. Unread(f) = <<>>
    BY UnreadIs
  <2>2. Beyond(data, off) \in Seq(Nat)
    BY BeyondIs
  <2> QED BY <1>2, <1>13, <2>1, <2>2, ConcatEmptySeq
<1>15. InputOf(g) = Beyond(data, p)
  BY <1>0, <1>2, <1>5, <1>12, <1>13
<1>16. InputOf(g) = Beyond(InputOf(f), l)
  <2>1. Beyond(Beyond(data, off), l) = Beyond(data, off + l)
    BY BeyondBeyond
  <2> QED BY <1>3, <1>14, <1>15, <2>1
<1>17. Position(g) = Position(f) + l
  <2>1. Position(g) = p + n - n
    BY <1>0, <1>5, <1>10, <1>13
  <2>2. Position(f) = off
    BY <1>1, <1>2, <1>13
  <2> QED BY <1>3, <2>1, <2>2
<1>18. Reads(f, g, due, l)
  <2>1. Len(due) <= l /\ Len(due) <= Len(InputOf(f)) /\ due = Prefix(InputOf(f), Len(due))
    BY <1>7, <1>14
  <2>2. InputOf(g) = Beyond(InputOf(f), Len(due)) /\ Position(g) = Position(f) + Len(due)
    BY <1>7, <1>16, <1>17
  <2>3. View(g) = View(f)
    BY <1>13
  <2>4. ~(Len(due) < l)
    BY <1>7
  <2> QED BY <1>7, <2>1, <2>2, <2>3, <2>4 DEF Reads
<1> QED BY <1>2, <1>3, <1>6, <1>8, <1>18

LEMMA StdioReadBuffered ==
  ASSUME NEW f, FileOK(f), Held(f) = <<>>, f.wbase = NIL, f.wpos = NIL, f.wend = NIL, f.rpos = f.rend, ~f.eof,
         NEW k \in Nat, NEW c \in Nat, c >= 1, c <= f.size, k + c <= Ahead(f)
  PROVE  LET g == [Stored(f, Buf, Beyond(SubSeq(f.data, f.off + 1, f.off + (k + c)), k))
                     EXCEPT !.off = f.off + (k + c), !.rpos = Buf + 1, !.rend = Buf + c]
         IN /\ FileOK(g) /\ Held(g) = <<>> /\ g.wend = NIL /\ SameMode(g, f) /\ g.err = f.err
            /\ Reads(f, g, SubSeq(f.data, f.off + 1, f.off + (k + 1)), k + 1)
<1>1. f \in FILES /\ Pointers(f) /\ f.size \in Nat
  BY DEF FileOK, FILES
<1>2. PICK data \in Seq(Nat), off \in Nat, o \in Nat : data = f.data /\ off = f.off /\ o = f.off + (k + c)
  <2>1. f.data \in Seq(Nat) /\ f.off \in Nat /\ f.off + (k + c) \in Nat
    BY <1>1, AtIs
  <2> QED BY <2>1
<1>0. PICK g : g = [Stored(f, Buf, Beyond(SubSeq(data, off + 1, off + (k + c)), k))
                      EXCEPT !.off = o, !.rpos = Buf + 1, !.rend = Buf + c]
  OBVIOUS
<1>3. off + (k + c) <= Len(data)
  <2>1. PICK n \in Nat : n = k + c
    OBVIOUS
  <2>2. n # 0 /\ n <= Ahead(f)
    BY <2>1
  <2>3. f.off + n <= Len(f.data)
    BY <1>1, <2>2, AheadIs
  <2> QED BY <1>2, <2>1, <2>3
<1>4. PICK x : x = Beyond(SubSeq(data, off + 1, off + (k + c)), k)
  OBVIOUS
<1>5. x \in Seq(Nat) /\ Len(x) = c /\ \A i \in 1 .. c : x[i] = data[off + k + i]
  <2>1. LET y == Beyond(SubSeq(data, off + 1, off + (k + c)), k) IN
        y \in Seq(Nat) /\ Len(y) = c /\ \A i \in 1 .. c : y[i] = data[off + k + i]
    BY <1>3, BufferedData
  <2> QED BY <1>4, <2>1
<1>6. Buf \in Nat /\ Buf >= 1 /\ Buf + c - 1 <= UNGET + Max({BUFSIZ} \cup VbufSizes)
  <2>1. PICK room \in Nat : room = UNGET + Max({BUFSIZ} \cup VbufSizes)
    BY RoomIs
  <2>2. UNGET + f.size <= room
    BY <1>1, <2>1 DEF Pointers
  <2> QED BY <1>1, <2>1, <2>2, BufIs
<1>7. PICK h : h = Stored(f, Buf, x)
  OBVIOUS
<1>8. /\ h \in FILES /\ SameMode(h, f) /\ SameReading(h, f) /\ SameWriting(h, f)
      /\ h.eof = f.eof /\ h.err = f.err /\ h.data = f.data /\ h.off = f.off
      /\ \A i \in 1 .. c : h.mem[Buf + i - 1] = x[i]
  <2>1. PICK at \in Nat, b \in Seq(Nat) : at = Buf /\ b = x
    BY <1>5, <1>6
  <2>2. at >= 1 /\ at + Len(b) - 1 <= UNGET + Max({BUFSIZ} \cup VbufSizes)
    BY <1>5, <1>6, <2>1
  <2>3. LET s == Stored(f, at, b) IN
        /\ s \in FILES /\ SameMode(s, f) /\ SameReading(s, f) /\ SameWriting(s, f)
        /\ s.eof = f.eof /\ s.err = f.err /\ s.data = f.data /\ s.off = f.off
        /\ \A i \in 1 .. Len(b) : s.mem[at + i - 1] = b[i]
    BY <1>1, <2>2, StoredIs, ZenonT(60)
  <2> QED BY <1>5, <1>7, <2>1, <2>3
<1>9. g = [h EXCEPT !.off = o, !.rpos = Buf + 1, !.rend = Buf + c]
  BY <1>0, <1>4, <1>7
<1>10. /\ g \in FILES /\ SameMode(g, h) /\ SameWriting(g, h)
       /\ g.eof = h.eof /\ g.err = h.err /\ g.data = h.data /\ g.off = o
       /\ g.rpos = Buf + 1 /\ g.rend = Buf + c /\ g.mem = h.mem
  <2>1. PICK b1 \in Nat, bc \in Nat : b1 = Buf + 1 /\ bc = Buf + c
    BY BufIs
  <2>2. g = [h EXCEPT !.off = o, !.rpos = b1, !.rend = bc]
    BY <1>9, <2>1
  <2>3. /\ g \in FILES /\ SameMode(g, h) /\ SameWriting(g, h)
        /\ g.eof = h.eof /\ g.err = h.err /\ g.data = h.data /\ g.off = o
        /\ g.rpos = b1 /\ g.rend = bc /\ g.mem = h.mem
    BY <1>8, <2>2 DEF FILES, SameMode, SameWriting
  <2> QED BY <2>1, <2>3
<1>11. /\ g \in FILES /\ SameMode(g, f) /\ SameWriting(g, f) /\ g.data = f.data /\ ~g.eof /\ g.err = f.err
       /\ g.wend = NIL
  BY <1>8, <1>10 DEF SameMode, SameWriting
<1>12. \A i \in 1 .. c : g.mem[Buf + i - 1] = f.data[f.off + k + i]
  BY <1>2, <1>5, <1>8, <1>10
<1>13. f.off + (k + c) <= Len(f.data) /\ g.off = f.off + (k + c) /\ g.rpos = Buf + 1 /\ g.rend = Buf + c
  BY <1>2, <1>3, <1>10
<1>14. FileOK(g) /\ Held(g) = <<>> /\ Reads(f, g, SubSeq(f.data, f.off + 1, f.off + (k + 1)), k + 1)
  BY <1>11, <1>12, <1>13, ReadBuffered
<1> QED BY <1>0, <1>2, <1>11, <1>14

LEMMA StdioReadIs ==
  ASSUME NEW f, FileOK(f), Held(f) = <<>>, f.wbase = NIL, f.wpos = NIL, f.wend = NIL, f.rpos = f.rend, ~f.eof,
         NEW l \in Nat \ {0}, NEW r \in StdioRead(f, l)
  PROVE  /\ FileOK(r.f) /\ Held(r.f) = <<>> /\ r.f.wend = NIL /\ SameMode(r.f, f)
         /\ f.err => r.f.err
         /\ Reads(f, r.f, r.got, l)
<1>1. f \in FILES /\ Pointers(f) /\ f.off \in Nat /\ f.size \in Nat /\ f.data \in Seq(Nat)
      /\ Ahead(f) \in Nat
  BY AheadIs DEF FileOK, FILES
<1> DEFINE due(n) == SubSeq(f.data, f.off + 1, f.off + n)
<1>2. \/ Ahead(f) < l /\ r = [f |-> [f EXCEPT !.off = @ + Ahead(f), !.eof = TRUE], got |-> due(Ahead(f))]
      \/ ~(Ahead(f) < l) /\ f.size = 0 /\ r = [f |-> [f EXCEPT !.off = @ + l], got |-> due(l)]
      \/ /\ f.size # 0
         /\ \E c \in 1 .. f.size :
              /\ l - 1 + c <= Ahead(f)
              /\ r = [f |-> [Stored(f, Buf, Beyond(due(l - 1 + c), l - 1))
                               EXCEPT !.off = @ + l - 1 + c, !.rpos = Buf + 1, !.rend = Buf + c],
                      got |-> due(l)]
      \/ \E m \in 0 .. l - 1 : m <= Ahead(f) /\ r = [f |-> [f EXCEPT !.off = @ + m, !.err = TRUE], got |-> due(m)]
  BY DEF StdioRead
<1>3. CASE Ahead(f) < l /\ r = [f |-> [f EXCEPT !.off = @ + Ahead(f), !.eof = TRUE], got |-> due(Ahead(f))]
  <2>1. PICK n \in Nat : n = Ahead(f)
    BY <1>1
  <2>7. PICK o \in Nat : o = f.off + n
    BY <1>1
  <2>2. PICK g : g = [f EXCEPT !.off = o, !.eof = TRUE]
    OBVIOUS
  <2>3. /\ g \in FILES /\ SameMode(g, f) /\ SameReading(g, f) /\ SameWriting(g, f)
        /\ g.data = f.data /\ g.off = f.off + n /\ g.eof /\ g.err = f.err
    BY <1>1, <2>2, <2>7 DEF FILES, SameMode, SameReading, SameWriting
  <2>4. r.f = g /\ r.got = SubSeq(f.data, f.off + 1, f.off + n)
    BY <1>3, <2>1, <2>2, <2>7
  <2>5. n <= Ahead(f) /\ n <= l /\ l \in Nat
    BY <1>3, <2>1
  <2>6. FileOK(g) /\ Held(g) = <<>> /\ g.wend = NIL /\ Reads(f, g, SubSeq(f.data, f.off + 1, f.off + n), l)
    BY <2>1, <2>3, <2>5, ReadStraight
  <2> QED BY <2>3, <2>4, <2>6
<1>4. CASE ~(Ahead(f) < l) /\ f.size = 0 /\ r = [f |-> [f EXCEPT !.off = @ + l], got |-> due(l)]
  <2>7. PICK o \in Nat : o = f.off + l
    BY <1>1
  <2>2. PICK g : g = [f EXCEPT !.off = o]
    OBVIOUS
  <2>3. /\ g \in FILES /\ SameMode(g, f) /\ SameReading(g, f) /\ SameWriting(g, f)
        /\ g.data = f.data /\ g.off = f.off + l /\ ~g.eof /\ g.err = f.err
    BY <1>1, <2>2, <2>7 DEF FILES, SameMode, SameReading, SameWriting
  <2>4. r.f = g /\ r.got = SubSeq(f.data, f.off + 1, f.off + l)
    BY <1>4, <2>2, <2>7
  <2>5. l <= Ahead(f) /\ l \in Nat /\ l <= l /\ ~(l < l)
    BY <1>1, <1>4
  <2>6. FileOK(g) /\ Held(g) = <<>> /\ g.wend = NIL /\ Reads(f, g, SubSeq(f.data, f.off + 1, f.off + l), l)
    BY <2>3, <2>5, ReadStraight
  <2> QED BY <2>3, <2>4, <2>6
<1>5. ASSUME NEW m \in 0 .. l - 1, m <= Ahead(f),
             r = [f |-> [f EXCEPT !.off = @ + m, !.err = TRUE], got |-> due(m)]
      PROVE  /\ FileOK(r.f) /\ Held(r.f) = <<>> /\ r.f.wend = NIL /\ SameMode(r.f, f)
             /\ f.err => r.f.err
             /\ Reads(f, r.f, r.got, l)
  <2>1. PICK n \in Nat : n = m /\ n <= Ahead(f) /\ n <= l
    BY <1>5
  <2>7. PICK o \in Nat : o = f.off + n
    BY <1>1
  <2>2. PICK g : g = [f EXCEPT !.off = o, !.err = TRUE]
    OBVIOUS
  <2>3. /\ g \in FILES /\ SameMode(g, f) /\ SameReading(g, f) /\ SameWriting(g, f)
        /\ g.data = f.data /\ g.off = f.off + n /\ ~g.eof /\ g.err
    BY <1>1, <2>2, <2>7 DEF FILES, SameMode, SameReading, SameWriting
  <2>4. r.f = g /\ r.got = SubSeq(f.data, f.off + 1, f.off + n)
    BY <1>5, <2>1, <2>2, <2>7
  <2>5. l \in Nat
    OBVIOUS
  <2>6. FileOK(g) /\ Held(g) = <<>> /\ g.wend = NIL /\ Reads(f, g, SubSeq(f.data, f.off + 1, f.off + n), l)
    BY <2>1, <2>3, <2>5, ReadStraight
  <2> QED BY <2>3, <2>4, <2>6
<1>6. ASSUME NEW c \in 1 .. f.size, l - 1 + c <= Ahead(f),
             r = [f |-> [Stored(f, Buf, Beyond(due(l - 1 + c), l - 1))
                           EXCEPT !.off = @ + l - 1 + c, !.rpos = Buf + 1, !.rend = Buf + c],
                  got |-> due(l)]
      PROVE  /\ FileOK(r.f) /\ Held(r.f) = <<>> /\ r.f.wend = NIL /\ SameMode(r.f, f)
             /\ f.err => r.f.err
             /\ Reads(f, r.f, r.got, l)
  <2>1. PICK k \in Nat, o \in Nat : k = l - 1 /\ o = f.off + (k + c)
    <3>1. l - 1 \in Nat /\ f.off + ((l - 1) + c) \in Nat
      BY <1>1
    <3> QED BY <1>1, <3>1
  <2>2. c \in Nat /\ c >= 1 /\ c <= f.size /\ l = k + 1 /\ l - 1 + c = k + c /\ k + c <= Ahead(f)
    BY <1>1, <1>6, <2>1, SMTT(30)
  <2>3. PICK h : h = Stored(f, Buf, Beyond(SubSeq(f.data, f.off + 1, f.off + (k + c)), k))
    OBVIOUS
  <2>4. r.f = [h EXCEPT !.off = @ + l - 1 + c, !.rpos = Buf + 1, !.rend = Buf + c]
        /\ r.got = SubSeq(f.data, f.off + 1, f.off + (k + 1))
    BY <1>6, <2>1, <2>2, <2>3
  <2>5. h.off = f.off
    BY <2>3 DEF Stored
  <2>6. h.off + l - 1 + c = o
    <3>1. PICK off \in Nat : off = f.off
      BY <1>1
    <3>2. o = off + (k + c) /\ l = k + 1
      BY <2>1, <2>2, <3>1
    <3>3. off + l - 1 + c = o
      BY <2>2, <3>2
    <3> QED BY <2>5, <3>1, <3>3
  <2>7. r.f = [h EXCEPT !.off = o, !.rpos = Buf + 1, !.rend = Buf + c]
    BY <2>4, <2>6
  <2>8. LET g == [Stored(f, Buf, Beyond(SubSeq(f.data, f.off + 1, f.off + (k + c)), k))
                    EXCEPT !.off = f.off + (k + c), !.rpos = Buf + 1, !.rend = Buf + c]
        IN /\ FileOK(g) /\ Held(g) = <<>> /\ g.wend = NIL /\ SameMode(g, f) /\ g.err = f.err
           /\ Reads(f, g, SubSeq(f.data, f.off + 1, f.off + (k + 1)), k + 1)
    <3>1. PICK d \in Nat : d = c /\ d >= 1 /\ d <= f.size /\ k + d <= Ahead(f)
      BY <2>2
    <3>2. LET g == [Stored(f, Buf, Beyond(SubSeq(f.data, f.off + 1, f.off + (k + d)), k))
                      EXCEPT !.off = f.off + (k + d), !.rpos = Buf + 1, !.rend = Buf + d]
          IN /\ FileOK(g) /\ Held(g) = <<>> /\ g.wend = NIL /\ SameMode(g, f) /\ g.err = f.err
             /\ Reads(f, g, SubSeq(f.data, f.off + 1, f.off + (k + 1)), k + 1)
      <4>1. d >= 1 /\ d <= f.size /\ k + d <= Ahead(f)
        BY <3>1
      <4> QED BY <4>1, StdioReadBuffered
    <3> QED BY <3>1, <3>2
  <2> QED BY <2>1, <2>2, <2>3, <2>4, <2>7, <2>8
<1> QED BY <1>2, <1>3, <1>4, <1>5, <1>6

-----------------------------------------------------------------------------
LEMMA InputIs ==
  ASSUME NEW f, FileOK(f)
  PROVE  InputOf(f) \in Seq(Nat) /\ (f.rpos = f.rend => Position(f) \in Nat)
<1>1. f \in FILES /\ At(f) \in Nat /\ f.data \in Seq(Nat) /\ f.off \in Nat /\ f.rpos \in Nat
  BY AtIs DEF FileOK, FILES
<1>2. /\ View(f) \in Seq(Nat)
      /\ Held(f) # <<>> => Position(f) = At(f) + Len(Held(f)) /\ f.wend # NIL
      /\ Held(f) = <<>> => Position(f) = f.off - (f.rend - f.rpos)
      /\ f.wend # NIL => f.rend = NIL /\ f.rpos = NIL
  BY ViewIs
<1>3. Unread(f) \in Seq(Nat) /\ Beyond(f.data, f.off) \in Seq(Nat)
  BY <1>1, UnreadIs, BeyondIs
<1>4. Len(Held(f)) \in Nat
  BY HeldIs, LenProperties
<1>5. f.rpos = f.rend => Position(f) \in Nat
  <2>1. CASE Held(f) # <<>>
    BY <1>1, <1>2, <1>4, <2>1
  <2>2. CASE Held(f) = <<>>
    BY <1>1, <1>2, <2>2
  <2> QED BY <2>1, <2>2
<1>6. CASE f.wend # NIL
  <2>1. Position(f) \in Nat
    BY <1>2, <1>5, <1>6
  <2>2. Beyond(View(f), Position(f)) \in Seq(Nat)
    BY <1>2, <2>1, BeyondIs
  <2> QED BY <1>5, <1>6, <2>2 DEF InputOf
<1>7. CASE f.wend = NIL
  <2>1. Unread(f) \o Beyond(f.data, f.off) \in Seq(Nat)
    BY <1>3, ConcatIs
  <2> QED BY <1>5, <1>7, <2>1 DEF InputOf
<1> QED BY <1>6, <1>7

\* A sequence in two parts
LEMMA PrefixOfConcat ==
  ASSUME NEW u \in Seq(Nat), NEW s \in Seq(Nat), NEW k \in Nat, k <= Len(u)
  PROVE  Prefix(u \o s, k) = Prefix(u, k) /\ Beyond(u \o s, k) = Beyond(u, k) \o s /\ k <= Len(u \o s)
<1>1. PICK n \in Nat, m \in Nat : n = Len(u) /\ m = Len(s)
  BY LenProperties
<1>2. PICK x : x = u \o s
  OBVIOUS
<1>3. /\ x \in Seq(Nat) /\ Len(x) = n + m
      /\ \A i \in 1 .. n + m : x[i] = IF i <= n THEN u[i] ELSE s[i - n]
  BY <1>1, <1>2, ConcatIs
<1>4. k \in 0 .. n /\ k \in 0 .. n + m
  BY <1>1
<1>5. Prefix(x, k) = Prefix(u, k)
  <2>1. /\ Prefix(x, k) \in Seq(Nat) /\ Len(Prefix(x, k)) = k
        /\ \A i \in 1 .. k : Prefix(x, k)[i] = x[i]
    BY <1>3, <1>4, PrefixIs
  <2>2. /\ Prefix(u, k) \in Seq(Nat) /\ Len(Prefix(u, k)) = k
        /\ \A i \in 1 .. k : Prefix(u, k)[i] = u[i]
    BY <1>1, <1>4, PrefixIs
  <2>3. ASSUME NEW i \in 1 .. k PROVE x[i] = u[i]
    <3>1. i \in 1 .. n + m /\ i <= n
      BY <1>4
    <3> QED BY <1>3, <3>1
  <2> QED BY <2>1, <2>2, <2>3, SeqEqual
<1>6. PICK y : y = Beyond(u, k)
  OBVIOUS
<1>7. PICK z : z = Beyond(x, k)
  OBVIOUS
<1>8. y \in Seq(Nat) /\ Len(y) = n - k /\ \A i \in 1 .. n - k : y[i] = u[k + i]
  <2>1. /\ y \in Seq(Nat) /\ Len(y) = IF k < n THEN n - k ELSE 0
        /\ \A i \in 1 .. n - k : y[i] = u[k + i]
    BY <1>1, <1>6, BeyondIs
  <2> QED BY <1>4, <2>1
<1>9. z \in Seq(Nat) /\ Len(z) = n + m - k /\ \A i \in 1 .. n + m - k : z[i] = x[k + i]
  <2>1. /\ z \in Seq(Nat) /\ Len(z) = IF k < n + m THEN n + m - k ELSE 0
        /\ \A i \in 1 .. n + m - k : z[i] = x[k + i]
    <3>1. PICK len \in Nat : len = n + m
      OBVIOUS
    <3>2. Len(x) = len
      BY <1>3, <3>1
    <3>3. /\ z \in Seq(Nat) /\ Len(z) = IF k < Len(x) THEN Len(x) - k ELSE 0
          /\ \A i \in 1 .. Len(x) - k : z[i] = x[k + i]
      BY <1>3, <1>7, BeyondIs
    <3> QED BY <3>1, <3>2, <3>3
  <2> QED BY <1>4, <2>1
<1>10. PICK ly \in Nat : ly = n - k
  BY <1>4
<1>11. /\ y \o s \in Seq(Nat) /\ Len(y \o s) = ly + m
       /\ \A i \in 1 .. ly + m : (y \o s)[i] = IF i <= ly THEN y[i] ELSE s[i - ly]
  <2>1. /\ y \o s \in Seq(Nat) /\ Len(y \o s) = Len(y) + Len(s)
        /\ \A i \in 1 .. Len(y) + Len(s) : (y \o s)[i] = IF i <= Len(y) THEN y[i] ELSE s[i - Len(y)]
    BY <1>8, ConcatIs
  <2>2. Len(y) = ly /\ Len(s) = m
    BY <1>1, <1>8, <1>10
  <2> QED BY <2>1, <2>2
<1>12. ly + m = n + m - k
  BY <1>10
<1>13. ASSUME NEW i \in 1 .. ly + m PROVE (y \o s)[i] = z[i]
  <2>1. z[i] = x[k + i] /\ k + i \in 1 .. n + m
    BY <1>4, <1>9, <1>12
  <2>2. CASE i <= ly
    <3>1. i \in 1 .. n - k /\ k + i <= n
      BY <1>10, <2>2
    <3> QED BY <1>3, <1>8, <1>11, <2>1, <2>2, <3>1
  <2>3. CASE ~(i <= ly)
    <3>1. ~(k + i <= n) /\ (k + i) - n = i - ly
      BY <1>10, <2>3
    <3>2. x[k + i] = s[(k + i) - n]
      BY <1>3, <2>1, <3>1
    <3> QED BY <1>11, <2>1, <2>3, <3>1, <3>2
  <2> QED BY <2>2, <2>3
<1>14. y \o s = z
  BY <1>9, <1>11, <1>12, <1>13, SeqEqual
<1>15. k <= Len(x)
  BY <1>3, <1>4
<1> QED BY <1>2, <1>5, <1>6, <1>7, <1>14, <1>15

LEMMA TwoPrefixes ==
  ASSUME NEW s \in Seq(Nat), NEW k \in Nat, k <= Len(s), NEW n \in Nat, n <= Len(Beyond(s, k))
  PROVE  /\ Prefix(s, k) \o Prefix(Beyond(s, k), n) = Prefix(s, k + n)
         /\ k + n <= Len(s)
<1>1. PICK len \in Nat : len = Len(s)
  BY LenProperties
<1>2. PICK y : y = Beyond(s, k)
  OBVIOUS
<1>3. y \in Seq(Nat) /\ Len(y) = len - k /\ \A i \in 1 .. len - k : y[i] = s[k + i]
  <2>1. /\ y \in Seq(Nat) /\ Len(y) = IF k < len THEN len - k ELSE 0
        /\ \A i \in 1 .. len - k : y[i] = s[k + i]
    BY <1>1, <1>2, BeyondIs
  <2> QED BY <1>1, <2>1
<1>4. k \in 0 .. len /\ n \in 0 .. len - k /\ k + n \in 0 .. len
  BY <1>1, <1>2, <1>3
<1>5. PICK p, q, z : p = Prefix(s, k) /\ q = Prefix(y, n) /\ z = Prefix(s, k + n)
  OBVIOUS
<1>6. p \in Seq(Nat) /\ Len(p) = k /\ \A i \in 1 .. k : p[i] = s[i]
  BY <1>1, <1>4, <1>5, PrefixIs
<1>7. q \in Seq(Nat) /\ Len(q) = n /\ \A i \in 1 .. n : q[i] = y[i]
  BY <1>3, <1>4, <1>5, PrefixIs
<1>8. z \in Seq(Nat) /\ Len(z) = k + n /\ \A i \in 1 .. k + n : z[i] = s[i]
  BY <1>1, <1>4, <1>5, PrefixIs
<1>9. /\ p \o q \in Seq(Nat) /\ Len(p \o q) = k + n
      /\ \A i \in 1 .. k + n : (p \o q)[i] = IF i <= k THEN p[i] ELSE q[i - k]
  <2>1. /\ p \o q \in Seq(Nat) /\ Len(p \o q) = Len(p) + Len(q)
        /\ \A i \in 1 .. Len(p) + Len(q) : (p \o q)[i] = IF i <= Len(p) THEN p[i] ELSE q[i - Len(p)]
    BY <1>6, <1>7, ConcatIs
  <2>2. Len(p) = k /\ Len(q) = n
    BY <1>6, <1>7
  <2> QED BY <2>1, <2>2
<1>10. ASSUME NEW i \in 1 .. k + n PROVE (p \o q)[i] = z[i]
  <2>1. z[i] = s[i]
    BY <1>8
  <2>2. CASE i <= k
    <3>1. i \in 1 .. k
      BY <2>2
    <3> QED BY <1>6, <1>9, <2>1, <2>2, <3>1
  <2>3. CASE ~(i <= k)
    <3>1. i - k \in 1 .. n /\ i - k \in 1 .. len - k /\ k + (i - k) = i
      BY <1>4, <2>3
    <3>2. q[i - k] = s[i]
      BY <1>3, <1>7, <3>1
    <3> QED BY <1>9, <2>1, <2>3, <3>2
  <2> QED BY <2>2, <2>3
<1>11. p \o q = z
  BY <1>8, <1>9, <1>10, SeqEqual
<1>12. k + n <= Len(s)
  BY <1>1, <1>4
<1> QED BY <1>2, <1>5, <1>11, <1>12

LEMMA ReadsThen ==
  ASSUME NEW f, NEW g, NEW h, NEW a, NEW b, NEW k \in Nat, NEW m \in Nat, FileOK(f),
         Reads(f, g, a, k), Len(a) = k, Reads(g, h, b, m)
  PROVE  Reads(f, h, a \o b, k + m)
<1>1. InputOf(f) \in Seq(Nat) /\ Position(f) \in Int
  BY InputIs, ViewIs
<1>2. PICK s \in Seq(Nat) : s = InputOf(f)
  BY <1>1
<1>3. /\ a \in Seq(Nat) /\ k <= Len(s) /\ a = Prefix(s, k)
      /\ InputOf(g) = Beyond(s, k) /\ Position(g) = Position(f) + k /\ View(g) = View(f)
  BY <1>2 DEF Reads
<1>4. PICK n \in Nat : n = Len(b)
  BY LenProperties DEF Reads
<1>5. /\ b \in Seq(Nat) /\ n <= m /\ n <= Len(Beyond(s, k)) /\ b = Prefix(Beyond(s, k), n)
      /\ InputOf(h) = Beyond(Beyond(s, k), n) /\ Position(h) = Position(g) + n /\ View(h) = View(g)
      /\ n < m => h.rpos = h.rend /\ (h.err \/ (h.eof /\ InputOf(h) = <<>>))
  BY <1>3, <1>4 DEF Reads
<1>6. PICK c : c = a \o b
  OBVIOUS
<1>7. c \in Seq(Nat) /\ Len(c) = k + n
  BY <1>3, <1>4, <1>5, <1>6, ConcatIs
<1>8. c = Prefix(s, k + n) /\ k + n <= Len(s)
  <2>1. /\ Prefix(s, k) \o Prefix(Beyond(s, k), n) = Prefix(s, k + n)
        /\ k + n <= Len(s)
    <3>1. k <= Len(s) /\ n <= Len(Beyond(s, k))
      BY <1>3, <1>5
    <3> QED BY <3>1, TwoPrefixes
  <2> QED BY <1>3, <1>5, <1>6, <2>1
<1>9. InputOf(h) = Beyond(s, k + n)
  BY <1>5, BeyondBeyond
<1>10. Position(h) = Position(f) + (k + n) /\ View(h) = View(f)
  BY <1>1, <1>3, <1>5
<1>11. Len(c) <= k + m /\ (Len(c) < k + m => n < m)
  BY <1>5, <1>7
<1>12. Reads(f, h, c, k + m)
  BY <1>2, <1>5, <1>7, <1>8, <1>9, <1>10, <1>11 DEF Reads
<1> QED BY <1>6, <1>12

\* k of the bytes that are buffered are taken.
LEMMA TakeIs ==
  ASSUME NEW f, FileOK(f), NEW k \in Nat, k <= f.rend - f.rpos
  PROVE  LET g == [f EXCEPT !.rpos = @ + k] IN
         /\ FileOK(g) /\ SameMode(g, f) /\ g.err = f.err /\ g.wend = f.wend /\ Held(g) = Held(f)
         /\ k = f.rend - f.rpos => g.rpos = g.rend
         /\ Reads(f, g, Prefix(Unread(f), k), k) /\ Len(Prefix(Unread(f), k)) = k
<1>1. f \in FILES /\ Pointers(f) /\ EndOfFile(f) /\ LinesWritten(f) /\ f.rpos \in Nat /\ f.rend \in Nat
      /\ f.data \in Seq(Nat) /\ f.off \in Nat
  BY DEF FileOK, FILES
<1>2. /\ Unread(f) \in Seq(Nat) /\ Len(Unread(f)) = f.rend - f.rpos
      /\ \A i \in 1 .. f.rend - f.rpos : Unread(f)[i] = f.mem[f.rpos + i - 1]
  BY UnreadIs
<1>3. PICK u \in Seq(Nat), n \in Nat : u = Unread(f) /\ n = Len(u) /\ n = f.rend - f.rpos
  BY <1>2, LenProperties
<1>4. k \in 0 .. n
  BY <1>3
<1>5. PICK first : first = Prefix(u, k)
  OBVIOUS
<1>6. first \in Seq(Nat) /\ Len(first) = k
  BY <1>3, <1>4, <1>5, PrefixIs
<1>7. PICK s \in Seq(Nat) : s = InputOf(f)
  BY InputIs
<1>8. Position(f) \in Int
  BY ViewIs
<1>9. PICK rp \in Nat : rp = f.rpos + k
  BY <1>1
<1>10. PICK g : g = [f EXCEPT !.rpos = rp]
  OBVIOUS
<1>11. /\ g \in FILES /\ SameMode(g, f) /\ g.err = f.err /\ SameWriting(g, f) /\ g.eof = f.eof
       /\ g.mem = f.mem /\ g.data = f.data /\ g.off = f.off /\ g.rpos = rp /\ g.rend = f.rend
  BY <1>1, <1>10 DEF FILES, SameMode, SameWriting
<1>12. CASE k = 0
  <2>1. g = f
    <3>1. rp = f.rpos
      BY <1>1, <1>9, <1>12
    <3> QED BY <1>1, <1>10, <3>1 DEF FILES
  <2>2. Prefix(s, 0) = <<>> /\ first = <<>>
    <3>1. 0 \in 0 .. Len(s)
      BY LenProperties
    <3>2. Prefix(s, 0) \in Seq(Nat) /\ Len(Prefix(s, 0)) = 0
      BY <3>1, PrefixIs
    <3> QED BY <1>6, <1>12, <3>2, EmptySeq
  <2>3. Beyond(s, 0) = s
    BY BeyondZero
  <2>4. Len(<<>>) = 0 /\ Len(first) = 0 /\ Len(s) \in Nat
    BY <2>2, EmptySeq, LenProperties
  <2>5. Position(f) + 0 = Position(f)
    BY <1>8
  <2>6. Reads(f, g, first, k)
    BY <1>6, <1>7, <1>12, <2>1, <2>2, <2>3, <2>4, <2>5 DEF Reads
  <2>7. k = f.rend - f.rpos => f.rpos = f.rend
    BY <1>1, <1>12
  <2> QED BY <1>3, <1>5, <1>6, <1>9, <1>10, <1>11, <1>12, <2>1, <2>6, <2>7 DEF SameMode
<1>13. CASE k # 0
  <2>1. n # 0 /\ f.rpos # f.rend
    BY <1>1, <1>3, <1>4, <1>13
  <2>2. f.wbase = NIL /\ f.wpos = NIL /\ f.wend = NIL /\ f.rpos >= 1 /\ f.rpos <= f.rend /\ f.rend <= Buf + f.size
    BY <1>1, <2>1 DEF Pointers, NIL
  <2>3. g.rpos >= 1 /\ g.rpos <= g.rend /\ g.rend <= Buf + g.size
    BY <1>1, <1>3, <1>4, <1>9, <1>11, <2>2 DEF SameMode
  <2>4. EndOfFile(g)
    BY <1>1, <1>11, <2>1 DEF EndOfFile
  <2>5. g.size = f.size /\ g.wbase = NIL /\ g.wpos = NIL /\ g.wend = NIL /\ g.wpos = g.wbase
    BY <1>11, <2>2 DEF SameMode, SameWriting
  <2>6. FileOK(g) /\ Held(g) = <<>>
    BY <1>11, <2>3, <2>4, <2>5, ReadyIsOK
  <2>7. Held(f) = <<>>
    BY <2>2, HeldIs
  <2>8. /\ View(f) = f.data /\ Position(f) = f.off - (f.rend - f.rpos)
        /\ InputOf(f) = u \o Beyond(f.data, f.off)
        /\ View(g) = g.data /\ Position(g) = g.off - (g.rend - g.rpos)
        /\ InputOf(g) = Unread(g) \o Beyond(g.data, g.off)
    BY <1>3, <2>6, <2>7, ViewIs
  <2>9. PICK v : v = Unread(g)
    OBVIOUS
  <2>10. PICK m \in Nat : m = n - k
    BY <1>4
  <2>11. g.rend - g.rpos = m
    BY <1>1, <1>3, <1>9, <1>11, <2>10, SMTT(30)
  <2>12. v \in Seq(Nat) /\ Len(v) = m /\ \A i \in 1 .. m : v[i] = f.mem[rp + i - 1]
    BY <1>11, <2>6, <2>9, <2>11, UnreadIs
  <2>13. PICK w : w = Beyond(u, k)
    OBVIOUS
  <2>14. w \in Seq(Nat) /\ Len(w) = m /\ \A i \in 1 .. m : w[i] = u[k + i]
    <3>1. /\ w \in Seq(Nat)
          /\ Len(w) = IF k < Len(u) THEN Len(u) - k ELSE 0
          /\ \A i \in 1 .. Len(u) - k : w[i] = u[k + i]
      BY <1>3, <2>13, BeyondIs
    <3>2. Len(u) - k = m /\ (~(k < Len(u)) => m = 0)
      BY <1>3, <1>4, <2>10
    <3> QED BY <3>1, <3>2
  <2>15. v = w
    <3>1. ASSUME NEW i \in 1 .. m PROVE v[i] = w[i]
      <4>1. k + i \in 1 .. f.rend - f.rpos
        BY <1>3, <1>4, <2>10
      <4>2. u[k + i] = f.mem[f.rpos + (k + i) - 1]
        BY <1>2, <1>3, <4>1
      <4>3. f.rpos + (k + i) - 1 = rp + i - 1
        BY <1>1, <1>9
      <4> QED BY <2>12, <2>14, <4>2, <4>3
    <3> QED BY <2>12, <2>14, <3>1, SeqEqual
  <2>16. PICK y \in Seq(Nat) : y = Beyond(f.data, f.off)
    BY <1>1, BeyondIs
  <2>17. Prefix(u \o y, k) = Prefix(u, k) /\ Beyond(u \o y, k) = Beyond(u, k) \o y /\ k <= Len(u \o y)
    <3>1. k <= Len(u)
      BY <1>3, <1>4
    <3> QED BY <3>1, PrefixOfConcat
  <2>18. s = u \o y /\ InputOf(g) = v \o y
    BY <1>7, <1>11, <2>8, <2>9, <2>16
  <2>19. Position(g) = Position(f) + k
    <3>1. PICK off \in Nat : off = f.off
      BY <1>1
    <3>2. Position(f) = off - n /\ Position(g) = off - m
      BY <1>3, <1>11, <2>8, <2>11, <3>1
    <3>3. off - m = (off - n) + k
      BY <2>10
    <3> QED BY <3>2, <3>3
  <2>20. Reads(f, g, first, k)
    <3>1. first = Prefix(s, k) /\ InputOf(g) = Beyond(s, k) /\ k <= Len(s)
      BY <1>5, <2>13, <2>15, <2>17, <2>18
    <3>2. View(g) = View(f)
      BY <1>11, <2>8
    <3> QED BY <1>6, <1>7, <2>19, <3>1, <3>2 DEF Reads
  <2>21. k = f.rend - f.rpos => g.rpos = g.rend
    BY <1>1, <1>9, <1>11
  <2> QED BY <1>3, <1>5, <1>6, <1>9, <1>10, <1>11, <2>2, <2>5, <2>6, <2>7, <2>20, <2>21
<1> QED BY <1>12, <1>13

LEMMA FillIs ==
  ASSUME NEW f, FileOK(f), f.rpos = f.rend, NEW l \in Nat \ {0}, NEW r \in Fill(f, l)
  PROVE  /\ FileOK(r.f) /\ Held(r.f) = <<>> /\ SameMode(r.f, f) /\ r.lost \in BOOLEAN
         /\ r.lost => r.f.err
         /\ ~r.lost => Reads(f, r.f, r.got, l)
         /\ r.got \in Seq(Nat) /\ (Len(r.got) < l => r.f.rpos = r.f.rend)
<1>1. PICK t \in Toread(f) :
        \/ ~t.ok /\ r = [f |-> t.f, got |-> <<>>, lost |-> t.lost]
        \/ t.ok /\ \E q \in StdioRead(t.f, l) : r = [f |-> q.f, got |-> q.got, lost |-> t.lost]
  BY DEF Fill
<1>2. /\ FileOK(t.f) /\ Held(t.f) = <<>> /\ SameMode(t.f, f)
      /\ t.f.wbase = NIL /\ t.f.wpos = NIL /\ t.f.wend = NIL
      /\ t.f.rpos = t.f.rend /\ t.f.eof = f.eof
      /\ t.ok = (~f.nord /\ ~f.eof) /\ t.lost \in BOOLEAN
      /\ f.nord => t.f.err
      /\ ~t.lost => SameStreamAs(t.f, f)
      /\ t.lost => t.f.err
  BY ToreadIs
<1>3. CASE ~t.ok /\ r = [f |-> t.f, got |-> <<>>, lost |-> t.lost]
  <2>1. r.f = t.f /\ r.got = <<>> /\ r.lost = t.lost
    BY <1>3
  <2>2. ASSUME ~t.lost PROVE Reads(f, t.f, <<>>, l)
    <3>1. PICK s \in Seq(Nat) : s = InputOf(f)
      BY InputIs
    <3>2. InputOf(t.f) = s /\ Position(t.f) = Position(f) /\ View(t.f) = View(f) /\ Position(f) \in Int
      BY <1>2, <2>2, <3>1, ViewIs DEF SameStreamAs
    <3>3. Prefix(s, 0) = <<>> /\ Len(<<>>) = 0 /\ <<>> \in Seq(Nat) /\ Len(s) \in Nat
      <4>1. 0 \in 0 .. Len(s) /\ Len(s) \in Nat
        BY LenProperties
      <4>2. Prefix(s, 0) \in Seq(Nat) /\ Len(Prefix(s, 0)) = 0
        BY <4>1, PrefixIs
      <4> QED BY <4>1, <4>2, EmptySeq
    <3>4. Beyond(s, 0) = s
      BY BeyondZero
    <3>5. t.f.err \/ (t.f.eof /\ InputOf(t.f) = <<>>)
      <4>1. CASE f.nord
        BY <1>2, <4>1
      <4>2. CASE ~f.nord
        <5>1. t.f.eof
          BY <1>2, <1>3, <4>2
        <5>2. t.f.off >= Len(t.f.data) /\ t.f.data \in Seq(Nat) /\ t.f.off \in Nat
          BY <1>2, <5>1 DEF FileOK, EndOfFile, FILES
        <5>3. Beyond(t.f.data, t.f.off) = <<>>
          BY <5>2, NothingBeyond
        <5>4. Unread(t.f) = <<>>
          BY <1>2, UnreadIs
        <5>5. InputOf(t.f) = <<>> \o <<>>
          BY <1>2, <5>3, <5>4, ViewIs
        <5>6. <<>> \o <<>> = <<>>
          BY EmptySeq, ConcatEmptySeq
        <5> QED BY <5>1, <5>5, <5>6
      <4> QED BY <4>1, <4>2
    <3>6. 0 <= l /\ Position(f) + 0 = Position(f) /\ 0 <= Len(s)
      BY <3>2, <3>3
    <3> QED BY <1>2, <3>1, <3>2, <3>3, <3>4, <3>5, <3>6 DEF Reads
  <2>3. <<>> \in Seq(Nat)
    BY EmptySeq
  <2> QED BY <1>2, <2>1, <2>2, <2>3
<1>4. CASE t.ok /\ \E q \in StdioRead(t.f, l) : r = [f |-> q.f, got |-> q.got, lost |-> t.lost]
  <2>1. PICK q \in StdioRead(t.f, l) : r = [f |-> q.f, got |-> q.got, lost |-> t.lost]
    BY <1>4
  <2>2. r.f = q.f /\ r.got = q.got /\ r.lost = t.lost
    BY <2>1
  <2>3. ~t.f.eof
    BY <1>2, <1>4
  <2>4. /\ FileOK(q.f) /\ Held(q.f) = <<>> /\ SameMode(q.f, t.f)
        /\ t.f.err => q.f.err
        /\ Reads(t.f, q.f, q.got, l)
    BY <1>2, <2>3, StdioReadIs
  <2>5. ASSUME ~t.lost PROVE Reads(f, q.f, q.got, l)
    BY <1>2, <2>4, <2>5 DEF Reads, SameStreamAs
  <2>6. q.got \in Seq(Nat) /\ (Len(q.got) < l => q.f.rpos = q.f.rend)
    BY <2>4 DEF Reads
  <2> QED BY <1>2, <2>2, <2>4, <2>5, <2>6 DEF SameMode
<1> QED BY <1>1, <1>3, <1>4

LEMMA FreadIs ==
  ASSUME NEW f, FileOK(f), NEW l \in Nat \ {0}, NEW r \in Fread(f, l)
  PROVE  /\ FileOK(r.f) /\ Held(r.f) = <<>> /\ SameMode(r.f, f) /\ r.lost \in BOOLEAN
         /\ r.lost => r.f.err
         /\ ~r.lost => Reads(f, r.f, r.got, l)
         /\ r.got \in Seq(Nat) /\ (Len(r.got) < l => r.f.rpos = r.f.rend)
<1>1. PICK n \in Nat : n = f.rend - f.rpos
  BY UnreadIs
<1>2. PICK k \in Nat : k = (IF n < l THEN n ELSE l) /\ k <= l /\ k <= n /\ (k # l => k = n)
  <2>1. (IF n < l THEN n ELSE l) \in Nat
    OBVIOUS
  <2> QED BY <2>1
<1>3. PICK g, first : g = [f EXCEPT !.rpos = @ + k] /\ first = Prefix(Unread(f), k)
  OBVIOUS
<1>4. /\ FileOK(g) /\ SameMode(g, f) /\ g.err = f.err /\ g.wend = f.wend /\ Held(g) = Held(f)
      /\ k = f.rend - f.rpos => g.rpos = g.rend
      /\ Reads(f, g, first, k) /\ Len(first) = k
  <2>1. k <= f.rend - f.rpos
    BY <1>1, <1>2
  <2> QED BY <1>3, <2>1, TakeIs, SMTT(30)
<1>5. \/ k = l /\ r = [f |-> g, got |-> first, lost |-> FALSE]
      \/ k # l /\ \E q \in Fill(g, l - k) : r = [q EXCEPT !.got = first \o @]
  BY <1>1, <1>2, <1>3 DEF Fread
<1>6. CASE k = l /\ r = [f |-> g, got |-> first, lost |-> FALSE]
  <2>1. r.f = g /\ r.got = first /\ r.lost = FALSE
    BY <1>6
  <2>2. Held(f) = <<>>
    <3>1. f.rend # f.rpos
      BY <1>1, <1>2, <1>6 DEF FileOK, FILES
    <3>2. f.wend = NIL
      BY <3>1, ViewIs
    <3> QED BY <3>2, ViewIs
  <2>3. first \in Seq(Nat) /\ ~(Len(first) < l)
    BY <1>4, <1>6 DEF Reads
  <2> QED BY <1>4, <1>6, <2>1, <2>2, <2>3
<1>7. CASE k # l /\ \E q \in Fill(g, l - k) : r = [q EXCEPT !.got = first \o @]
  <2>1. PICK m \in Nat \ {0} : m = l - k /\ k + m = l
    BY <1>2, <1>7
  <2>2. PICK q \in Fill(g, m) : r = [q EXCEPT !.got = first \o @]
    BY <1>7, <2>1
  <2>3. g.rpos = g.rend
    BY <1>1, <1>2, <1>4, <1>7
  <2>4. /\ FileOK(q.f) /\ Held(q.f) = <<>> /\ SameMode(q.f, g) /\ q.lost \in BOOLEAN
        /\ q.lost => q.f.err
        /\ ~q.lost => Reads(g, q.f, q.got, m)
        /\ q.got \in Seq(Nat) /\ (Len(q.got) < m => q.f.rpos = q.f.rend)
    BY <1>4, <2>3, FillIs
  <2>5. \E x, y, z : q = [f |-> x, got |-> y, lost |-> z]
    BY <2>2 DEF Fill
  <2>6. r.f = q.f /\ r.lost = q.lost /\ r.got = first \o q.got
    BY <2>2, <2>5
  <2>7. ASSUME ~q.lost PROVE Reads(f, q.f, first \o q.got, k + m)
    BY <1>4, <2>4, <2>7, ReadsThen
  <2>8. first \o q.got \in Seq(Nat) /\ (Len(first \o q.got) < l => q.f.rpos = q.f.rend)
    <3>1. first \in Seq(Nat)
      BY <1>4 DEF Reads
    <3>2. first \o q.got \in Seq(Nat) /\ Len(first \o q.got) = Len(first) + Len(q.got)
      BY <2>4, <3>1, ConcatIs
    <3>3. PICK n2 \in Nat : n2 = Len(q.got)
      BY <2>4, LenProperties
    <3>4. k + n2 < l => n2 < m
      BY <2>1
    <3> QED BY <1>4, <2>4, <3>2, <3>3, <3>4
  <2> QED BY <1>4, <2>1, <2>4, <2>6, <2>7, <2>8 DEF SameMode
<1> QED BY <1>5, <1>6, <1>7

-----------------------------------------------------------------------------
(***************************************************************************)
(* 5  Writing                                                              *)
(***************************************************************************)
LEMMA TowriteIs ==
  ASSUME NEW f, FileOK(f), f.wend = NIL, f.rpos = f.rend
  PROVE  LET g == Writing(NotReading(f)) IN
         /\ FileOK(g) /\ Held(g) = <<>> /\ SameMode(g, f) /\ SameStreamAs(g, f)
         /\ g.wend # NIL /\ g.rpos = NIL /\ g.rend = NIL /\ g.err = f.err
<1>1. Held(f) = <<>>
  BY ViewIs
<1>2. PICK h : h = NotReading(f)
  OBVIOUS
<1>3. /\ FileOK(h) /\ Held(h) = <<>> /\ SameMode(h, f) /\ SameStreamAs(h, f)
      /\ h.rpos = NIL /\ h.rend = NIL /\ h.err = f.err /\ h \in FILES /\ EndOfFile(h)
  <2>1. /\ FileOK(h) /\ Held(h) = <<>> /\ SameMode(h, f) /\ SameStreamAs(h, f)
        /\ h.rpos = NIL /\ h.rend = NIL /\ h.err = f.err
    BY <1>1, <1>2, NotReadingIs
  <2> QED BY <2>1 DEF FileOK
<1>4. PICK g : g = Writing(h)
  OBVIOUS
<1>5. PICK buf \in Nat, end \in Nat : buf = Buf /\ end = Buf + h.size /\ end # 0
  <2>1. PICK n \in Nat : n = h.size
    BY <1>3 DEF FILES
  <2>2. PICK buf \in Nat : buf = Buf /\ buf >= 1
    BY BufIs
  <2>3. buf + n \in Nat /\ buf + n # 0
    BY <2>2
  <2> QED BY <2>1, <2>2, <2>3
<1>6. g = [h EXCEPT !.wpos = buf, !.wbase = buf, !.wend = end]
  BY <1>4, <1>5 DEF Writing
<1>7. /\ g \in FILES /\ SameMode(g, h) /\ SameReading(g, h) /\ g.eof = h.eof /\ g.err = h.err
      /\ g.mem = h.mem /\ g.data = h.data /\ g.off = h.off
      /\ g.wpos = buf /\ g.wbase = buf /\ g.wend = end
  BY <1>3, <1>6 DEF FILES, SameMode, SameReading
<1>8. EndOfFile(g)
  BY <1>3, <1>7 DEF EndOfFile, SameReading
<1>9. /\ g.size = h.size /\ g.wpos = g.wbase /\ g.rpos = NIL /\ g.rend = NIL
      /\ g.wbase = Buf /\ g.wend = Buf + g.size
  BY <1>3, <1>5, <1>7 DEF SameMode, SameReading
<1>10. FileOK(g) /\ Held(g) = <<>>
  BY <1>3, <1>7, <1>8, <1>9, ReadyIsOK
<1>11. SameStreamAs(g, h)
  BY <1>3, <1>7, <1>10, SameContent
<1>12. SameMode(g, f) /\ SameStreamAs(g, f)
  BY <1>3, <1>7, <1>11 DEF SameMode, SameStreamAs
<1> QED BY <1>2, <1>3, <1>4, <1>5, <1>7, <1>9, <1>10, <1>12 DEF NIL

LEMMA BufferedIs ==
  ASSUME NEW f, FileOK(f), f.wend # NIL, NEW b \in Seq(Nat), Len(b) <= f.wend - f.wpos,
         f.line => \A i \in 1 .. Len(b) : b[i] # NL
  PROVE  LET g == Buffered(f, b) IN
         /\ FileOK(g) /\ SameMode(g, f) /\ Held(g) = Held(f) \o b
         /\ g.wend = f.wend /\ g.rpos = NIL /\ g.rend = NIL
         /\ g.err = f.err /\ g.data = f.data /\ g.off = f.off
<1>1. /\ f \in FILES /\ Pointers(f) /\ EndOfFile(f) /\ LinesWritten(f) /\ f.wpos \in Nat /\ f.size \in Nat
      /\ f.line \in BOOLEAN
  BY DEF FileOK, FILES
<1>2. /\ f.wbase = Buf /\ f.wend = Buf + f.size /\ f.wpos >= Buf /\ f.wpos <= f.wend
      /\ f.rend = NIL /\ f.rpos = NIL
  BY <1>1, ViewIs DEF Pointers
<1>3. PICK room \in Nat : room = UNGET + Max({BUFSIZ} \cup VbufSizes) /\ UNGET + f.size <= room
  <2>1. PICK r \in Nat : r = UNGET + Max({BUFSIZ} \cup VbufSizes)
    BY RoomIs
  <2> QED BY <1>1, <2>1 DEF Pointers
<1>4. PICK buf \in Nat, at \in Nat, n \in Nat, lb \in Nat, unget \in Nat :
        buf = Buf /\ at = f.wpos /\ at = buf + n /\ lb = Len(b) /\ buf = unget + 1 /\ unget = UNGET
        /\ at + lb <= buf + f.size
  <2>1. f.wpos - Buf \in Nat /\ Len(b) \in Nat /\ f.wpos = Buf + (f.wpos - Buf)
    BY <1>1, <1>2, LenProperties, BufIs
  <2>2. f.wpos + Len(b) <= Buf + f.size
    BY <1>1, <1>2, <2>1, BufIs
  <2> QED BY <1>1, <2>1, <2>2, BufIs
<1>24. at = buf + n /\ buf = unget + 1 /\ at + lb <= buf + f.size
  BY <1>4
<1>5. PICK h : h = Stored(f, at, b)
  OBVIOUS
<1>6. at >= 1 /\ at + Len(b) - 1 <= UNGET + Max({BUFSIZ} \cup VbufSizes)
  <2>1. at >= 1 /\ at + lb - 1 <= room
    BY <1>1, <1>3, <1>4
  <2> QED BY <1>3, <1>4, <2>1
<1>7. LET s == Stored(f, at, b) IN
      /\ s \in FILES /\ SameMode(s, f) /\ SameReading(s, f) /\ SameWriting(s, f)
      /\ s.eof = f.eof /\ s.err = f.err /\ s.data = f.data /\ s.off = f.off
      /\ \A i \in 1 .. Len(b) : s.mem[at + i - 1] = b[i]
      /\ \A a \in Int : a >= 1 /\ a < at => s.mem[a] = f.mem[a]
  BY <1>1, <1>6, StoredIs, ZenonT(60)
<1>8. /\ h \in FILES /\ SameMode(h, f) /\ SameReading(h, f) /\ SameWriting(h, f)
      /\ h.eof = f.eof /\ h.err = f.err /\ h.data = f.data /\ h.off = f.off
  BY <1>5, <1>7
<1>9. /\ \A i \in 1 .. Len(b) : h.mem[at + i - 1] = b[i]
      /\ \A a \in Int : a >= 1 /\ a < at => h.mem[a] = f.mem[a]
  BY <1>5, <1>7
<1>10. PICK wp \in Nat : wp = at + lb
  OBVIOUS
<1>11. PICK g : g = [h EXCEPT !.wpos = wp]
  OBVIOUS
<1>12. g = Buffered(f, b)
  <2>1. h.wpos + Len(b) = wp
    BY <1>4, <1>8, <1>10 DEF SameWriting
  <2>2. Buffered(f, b) = [h EXCEPT !.wpos = @ + Len(b)]
    BY <1>4, <1>5 DEF Buffered
  <2> QED BY <1>11, <2>1, <2>2
<1>13. /\ g \in FILES /\ SameMode(g, h) /\ SameReading(g, h) /\ g.eof = h.eof /\ g.err = h.err
       /\ g.mem = h.mem /\ g.data = h.data /\ g.off = h.off
       /\ g.wpos = wp /\ g.wbase = h.wbase /\ g.wend = h.wend
  BY <1>8, <1>11 DEF FILES, SameMode, SameReading
<1>14. SameMode(g, f) /\ g.rpos = NIL /\ g.rend = NIL /\ g.eof = f.eof /\ g.err = f.err
       /\ g.data = f.data /\ g.off = f.off /\ g.wpos = wp /\ g.wbase = buf /\ g.wend = f.wend
  BY <1>2, <1>4, <1>8, <1>13 DEF SameMode, SameReading, SameWriting
<1>15. EndOfFile(g)
  BY <1>1, <1>2, <1>14 DEF EndOfFile
<1>16. Pointers(g)
  <2>1. g.wbase = Buf /\ g.wend = Buf + g.size /\ g.wpos >= Buf /\ g.wpos <= g.wend /\ g.size = f.size
    <3>1. PICK size \in Nat : size = f.size
      BY <1>1
    <3>2. wp >= buf /\ wp <= buf + size
      BY <1>10, <1>24, <3>1
    <3>3. g.size = f.size
      BY <1>14 DEF SameMode
    <3>4. f.wend = buf + size
      BY <1>2, <1>4, <3>1
    <3> QED BY <1>4, <1>14, <3>1, <3>2, <3>3, <3>4
  <2>2. UNGET + g.size <= UNGET + Max({BUFSIZ} \cup VbufSizes)
    BY <1>1, <2>1 DEF Pointers
  <2> QED BY <1>14, <2>1, <2>2 DEF Pointers
<1>17. /\ Held(f) \in Seq(Nat) /\ Len(Held(f)) = n
       /\ \A i \in 1 .. n : Held(f)[i] = f.mem[buf + i - 1]
  <2>1. f.wpos - f.wbase = n /\ f.wbase = buf
    BY <1>2, <1>4
  <2> QED BY <2>1, HeldIs
<1>18. PICK c : c = Held(f) \o b
  OBVIOUS
<1>19. /\ c \in Seq(Nat) /\ Len(c) = n + lb
       /\ \A i \in 1 .. n + lb : c[i] = IF i <= n THEN Held(f)[i] ELSE b[i - n]
  <2>1. /\ Held(f) \o b \in Seq(Nat) /\ Len(Held(f) \o b) = Len(Held(f)) + Len(b)
        /\ \A i \in 1 .. Len(Held(f)) + Len(b) :
             (Held(f) \o b)[i] = IF i <= Len(Held(f)) THEN Held(f)[i] ELSE b[i - Len(Held(f))]
    BY <1>17, ConcatIs
  <2>2. Len(Held(f)) = n /\ Len(b) = lb
    BY <1>4, <1>17
  <2> QED BY <1>18, <2>1, <2>2
<1>20. ASSUME NEW i \in 1 .. n + lb PROVE g.mem[buf + i - 1] = c[i]
  <2>1. CASE i <= n
    <3>1. i \in 1 .. n /\ buf + i - 1 \in Int /\ buf + i - 1 >= 1 /\ buf + i - 1 < at
      BY <1>4, <2>1
    <3>2. g.mem[buf + i - 1] = f.mem[buf + i - 1]
      BY <1>9, <1>13, <3>1
    <3> QED BY <1>17, <1>19, <2>1, <3>1, <3>2
  <2>2. CASE ~(i <= n)
    <3>1. i - n \in 1 .. lb /\ buf + i - 1 = at + (i - n) - 1
      BY <1>4, <2>2
    <3>2. h.mem[at + (i - n) - 1] = b[i - n]
      BY <1>4, <1>9, <3>1
    <3> QED BY <1>13, <1>19, <2>2, <3>1, <3>2
  <2> QED BY <2>1, <2>2
<1>21. Held(g) = c
  <2>1. g.wpos - g.wbase = n + lb
    <3>1. wp - buf = n + lb
      BY <1>10, <1>24
    <3> QED BY <1>14, <3>1
  <2>2. Held(g) = [i \in 1 .. n + lb |-> g.mem[buf + i - 1]]
    BY <1>14, <2>1 DEF Held
  <2>3. PICK m \in Nat : m = n + lb
    OBVIOUS
  <2>4. Held(g) \in [1 .. m -> Nat]
    <3>1. \A i \in 1 .. m : g.mem[buf + i - 1] \in Nat
      BY <1>19, <1>20, <2>3, ElementOfSeq
    <3> QED BY <2>2, <2>3, <3>1
  <2>5. Held(g) \in Seq(Nat) /\ Len(Held(g)) = m
    BY <2>4, IsSeq
  <2>6. \A i \in 1 .. m : Held(g)[i] = c[i]
    BY <1>20, <2>2, <2>3
  <2> QED BY <1>19, <2>3, <2>5, <2>6, SeqEqual
<1>22. LinesWritten(g)
  <2> SUFFICES ASSUME g.line, NEW i \in 1 .. g.wpos - g.wbase PROVE Held(g)[i] # NL
    BY DEF LinesWritten
  <2>1. f.line
    BY <1>14 DEF SameMode
  <2>2. i \in 1 .. n + lb /\ Held(g)[i] = c[i]
    <3>1. wp - buf = n + lb
      BY <1>10, <1>24
    <3> QED BY <1>14, <1>21, <3>1
  <2>3. CASE i <= n
    <3>1. i \in 1 .. f.wpos - f.wbase
      BY <1>2, <1>4, <2>2, <2>3
    <3>2. Held(f)[i] # NL
      BY <1>1, <2>1, <3>1 DEF LinesWritten
    <3> QED BY <1>19, <2>2, <2>3, <3>2
  <2>4. CASE ~(i <= n)
    <3>1. i - n \in 1 .. Len(b)
      BY <1>4, <2>2, <2>4, SMTT(30)
    <3>2. b[i - n] # NL
      BY <2>1, <3>1
    <3> QED BY <1>19, <2>2, <2>4, <3>2
  <2> QED BY <2>3, <2>4
<1>23. FileOK(g)
  BY <1>13, <1>15, <1>16, <1>22 DEF FileOK
<1> QED BY <1>12, <1>14, <1>18, <1>21, <1>23

\* What a call that writes b does
WriteOutcome(f, b, o) ==
  /\ FileOK(o.f) /\ SameMode(o.f, f) /\ o.f.rpos = o.f.rend /\ o.lost \in BOOLEAN
  /\ o.lost => o.f.err /\ Held(o.f) = <<>>
  /\ ~o.lost /\ o.n < Len(b) => o.f.err /\ SameStreamAs(o.f, f)
  /\ ~o.lost /\ ~(o.n < Len(b)) => Wrote(f, o.f, b)

LEMMA WroteFrom ==
  ASSUME NEW f, NEW w, NEW b, NEW o, SameMode(w, f), SameStreamAs(w, f), WriteOutcome(w, b, o)
  PROVE  WriteOutcome(f, b, o)
BY DEF SameMode, SameStreamAs, WriteOutcome, Wrote

LEMMA StdioWriteOutcome ==
  ASSUME NEW f, FileOK(f), f.wend # NIL, NEW b \in Seq(Nat), b # <<>>, NEW o \in StdioWrite(f, b)
  PROVE  WriteOutcome(f, b, o)
<1>1. /\ FileOK(o.f) /\ Held(o.f) = <<>> /\ SameMode(o.f, f)
      /\ o.f.rpos = NIL /\ o.f.rend = NIL
      /\ ~ o.lost =>
           /\ o.n = Len(b) /\ o.f.wend # NIL
           /\ o.f.data = Overlay(f.data, At(f), Held(f) \o b)
           /\ o.f.off = IF Held(f) \o b = <<>> THEN f.off ELSE At(f) + Len(Held(f) \o b)
      /\ o.lost => o.f.err
      /\ o.lost \in BOOLEAN
  BY StdioWriteIs
<1>2. Len(b) \in Nat
  BY LenProperties
<1>3. ASSUME ~o.lost PROVE Wrote(f, o.f, b)
  <2>1. PICK g : g = o.f
    OBVIOUS
  <2>2. PICK p : p = Held(f) \o b
    OBVIOUS
  <2>3. p \in Seq(Nat) /\ p \o <<>> = Held(f) \o b /\ <<>> \in Seq(Nat)
    <3>1. p \in Seq(Nat)
      BY <2>2, HeldIs, ConcatIs
    <3> QED BY <2>2, <3>1, EmptySeq, ConcatEmptySeq
  <2>4. f.rpos = f.rend
    BY ViewIs
  <2>5. FileOK(g) /\ g.wend # NIL /\ Split(f, g, b, p, <<>>)
    BY <1>1, <1>3, <2>1, <2>2, <2>3 DEF SameMode, Split
  <2> QED BY <2>1, <2>3, <2>4, <2>5, SplitIs
<1>4. ~o.lost => ~(o.n < Len(b))
  BY <1>1, <1>2
<1> QED BY <1>1, <1>3, <1>4 DEF WriteOutcome

\* p of what was held and b was written, and s is the rest of b.
LeftOver(f, h, b, p, s) ==
  /\ p \o (Held(h) \o s) = Held(f) \o b
  /\ h.data = Overlay(f.data, At(f), p)
  /\ h.off = IF p = <<>> THEN f.off ELSE At(f) + Len(p)

LEMMA BufferedOutcome ==
  ASSUME NEW f, FileOK(f), f.wend # NIL, NEW b \in Seq(Nat), b # <<>>,
         NEW h, FileOK(h), h.wend # NIL, SameMode(h, f),
         NEW p \in Seq(Nat), NEW s \in Seq(Nat), LeftOver(f, h, b, p, s),
         Len(s) <= h.wend - h.wpos, h.line => \A i \in 1 .. Len(s) : s[i] # NL
  PROVE  WriteOutcome(f, b, [f |-> Buffered(h, s), n |-> Len(b), lost |-> FALSE])
<1>1. PICK g : g = Buffered(h, s)
  OBVIOUS
<1>2. /\ FileOK(g) /\ SameMode(g, h) /\ Held(g) = Held(h) \o s
      /\ g.wend = h.wend /\ g.rpos = NIL /\ g.rend = NIL
      /\ g.data = h.data /\ g.off = h.off
  BY <1>1, BufferedIs
<1>3. SameMode(g, f) /\ g.app = f.app /\ f.rpos = f.rend
  BY <1>2, ViewIs DEF SameMode
<1>4. PICK x \in Seq(Nat) : x = Held(h) \o s
  BY HeldIs, ConcatIs
<1>5. g.wend # NIL /\ Split(f, g, b, p, x)
  BY <1>2, <1>3, <1>4 DEF LeftOver, Split
<1>6. Wrote(f, g, b)
  BY <1>2, <1>3, <1>5, SplitIs
<1>7. Len(b) \in Nat /\ ~(Len(b) < Len(b))
  BY LenProperties
<1>8. PICK o : o = [f |-> g, n |-> Len(b), lost |-> FALSE]
  OBVIOUS
<1>9. o.f = g /\ o.n = Len(b) /\ o.lost = FALSE
  BY <1>8
<1>10. WriteOutcome(f, b, o)
  BY <1>2, <1>3, <1>6, <1>7, <1>9 DEF WriteOutcome
<1> QED BY <1>1, <1>8, <1>10

-----------------------------------------------------------------------------
\* The same buffer and the same file: only the indicators, or the mode before
\* anything is buffered, differ.
LEMMA SameBuffer ==
  ASSUME NEW f, NEW g, FileOK(f), FileOK(g), SameReading(g, f), SameWriting(g, f),
         g.mem = f.mem, g.data = f.data, g.off = f.off, g.app = f.app
  PROVE  SameStreamAs(g, f) /\ Held(g) = Held(f)
<1>1. Held(g) = Held(f)
  BY DEF Held, SameWriting
<1>2. Unread(g) = Unread(f)
  BY DEF Unread, SameReading
<1>3. At(g) = At(f)
  BY DEF At
<1>4. View(g) = Overlay(g.data, At(g), Held(g)) /\ View(f) = Overlay(f.data, At(f), Held(f))
  BY ViewIs
<1>5. View(g) = View(f)
  BY <1>1, <1>3, <1>4
<1>6. Position(g) = Position(f)
  BY DEF Position, SameReading, SameWriting
<1>7. InputOf(g) = InputOf(f)
  BY <1>2, <1>5, <1>6 DEF InputOf, SameWriting
<1> QED BY <1>1, <1>5, <1>6, <1>7 DEF SameStreamAs

LEMMA ErrorIs ==
  ASSUME NEW f, FileOK(f), NEW e \in BOOLEAN
  PROVE  LET g == [f EXCEPT !.err = e] IN
         /\ FileOK(g) /\ SameMode(g, f) /\ SameReading(g, f) /\ SameWriting(g, f)
         /\ g.err = e /\ g.eof = f.eof /\ g.off = f.off /\ g.data = f.data
         /\ SameStreamAs(g, f) /\ Held(g) = Held(f)
<1>1. f \in FILES /\ Pointers(f) /\ EndOfFile(f) /\ LinesWritten(f)
  BY DEF FileOK
<1>2. PICK g : g = [f EXCEPT !.err = e]
  OBVIOUS
<1>3. /\ g \in FILES /\ SameMode(g, f) /\ SameReading(g, f) /\ SameWriting(g, f)
      /\ g.err = e /\ g.eof = f.eof /\ g.off = f.off /\ g.data = f.data /\ g.mem = f.mem
  BY <1>1, <1>2 DEF FILES, SameMode, SameReading, SameWriting
<1>4. Pointers(g)
  BY <1>1, <1>3 DEF Pointers, SameMode, SameReading, SameWriting
<1>5. EndOfFile(g)
  BY <1>1, <1>3 DEF EndOfFile, SameReading
<1>6. Held(g) = Held(f)
  BY <1>3 DEF Held, SameWriting
<1>7. LinesWritten(g)
  BY <1>1, <1>3, <1>6 DEF LinesWritten, SameMode, SameWriting
<1>8. FileOK(g)
  BY <1>3, <1>4, <1>5, <1>7 DEF FileOK
<1>9. SameStreamAs(g, f)
  BY <1>3, <1>8, SameBuffer DEF SameMode
<1> QED BY <1>2, <1>3, <1>6, <1>8, <1>9

\* A stream that is not open for writing
LEMMA RefusedOutcome ==
  ASSUME NEW f, FileOK(f), f.rpos = f.rend, NEW b \in Seq(Nat), b # <<>>
  PROVE  WriteOutcome(f, b, [f |-> [f EXCEPT !.err = TRUE], n |-> 0, lost |-> FALSE])
<1>1. PICK g : g = [f EXCEPT !.err = TRUE]
  OBVIOUS
<1>2. FileOK(g) /\ SameMode(g, f) /\ SameReading(g, f) /\ SameStreamAs(g, f) /\ g.err
  BY <1>1, ErrorIs
<1>3. PICK o : o = [f |-> g, n |-> 0, lost |-> FALSE]
  OBVIOUS
<1>4. o.f = g /\ o.n = 0 /\ o.lost = FALSE /\ 0 < Len(b)
  BY <1>3, EmptySeq
<1>5. WriteOutcome(f, b, o)
  BY <1>2, <1>4 DEF WriteOutcome, SameReading
<1> QED BY <1>1, <1>3, <1>5

\* Nothing of b was written before it is kept.
LEMMA NoneLeft ==
  ASSUME NEW w, FileOK(w), NEW b \in Seq(Nat)
  PROVE  LeftOver(w, w, b, <<>>, b)
<1>1. Held(w) \o b \in Seq(Nat)
  BY HeldIs, ConcatIs
<1>2. <<>> \o (Held(w) \o b) = Held(w) \o b
  BY <1>1, ConcatEmptySeq
<1> QED BY <1>2, OverlayEmpty DEF LeftOver

\* The stream after __towrite, where it succeeds
LEMMA WritableIs ==
  ASSUME NEW f, FileOK(f), f.rpos = f.rend
  PROVE  LET w == IF f.wend = NIL THEN Writing(NotReading(f)) ELSE f IN
         FileOK(w) /\ w.wend # NIL /\ SameMode(w, f) /\ SameStreamAs(w, f)
<1>1. CASE f.wend = NIL
  BY <1>1, TowriteIs
<1>2. CASE f.wend # NIL
  BY <1>2 DEF SameMode, SameStreamAs
<1> QED BY <1>1, <1>2

LEMMA PutcIs ==
  ASSUME NEW f, FileOK(f), f.rpos = f.rend, NEW c \in Nat, NEW o \in Putc(f, c)
  PROVE  WriteOutcome(f, <<c>>, o)
<1>1. PICK b : b = <<c>>
  OBVIOUS
<1>2. b \in Seq(Nat) /\ b # <<>> /\ Len(b) = 1 /\ b[1] = c
  BY <1>1
<1>3. PICK w : w = IF f.wend = NIL THEN Writing(NotReading(f)) ELSE f
  OBVIOUS
<1>4. FileOK(w) /\ w.wend # NIL /\ SameMode(w, f) /\ SameStreamAs(w, f)
  BY <1>3, WritableIs
<1>5. \/ o = [f |-> [f EXCEPT !.err = TRUE], n |-> 0, lost |-> FALSE]
      \/ ~(w.line /\ c = NL) /\ w.wpos # w.wend /\ o = [f |-> Buffered(w, b), n |-> 1, lost |-> FALSE]
      \/ o \in StdioWrite(w, b)
  <2>1. CASE f.wend = NIL /\ f.nowr
    BY <2>1 DEF Putc, Towrite
  <2>2. CASE f.wend = NIL /\ ~f.nowr
    <3>1. w = Writing(NotReading(f))
      BY <1>3, <2>2
    <3> QED BY <1>1, <2>2, <3>1 DEF Putc, Towrite
  <2>3. CASE f.wend # NIL
    <3>1. w = f
      BY <1>3, <2>3
    <3> QED BY <1>1, <2>3, <3>1 DEF Putc
  <2> QED BY <2>1, <2>2, <2>3
<1>6. CASE o = [f |-> [f EXCEPT !.err = TRUE], n |-> 0, lost |-> FALSE]
  <2>1. WriteOutcome(f, b, [f |-> [f EXCEPT !.err = TRUE], n |-> 0, lost |-> FALSE])
    BY <1>2, RefusedOutcome
  <2> QED BY <1>1, <1>6, <2>1
<1>7. CASE ~(w.line /\ c = NL) /\ w.wpos # w.wend /\ o = [f |-> Buffered(w, b), n |-> 1, lost |-> FALSE]
  <2>1. Len(b) <= w.wend - w.wpos
    <3>1. w.wend \in Nat /\ w.wpos \in Nat /\ w.wpos <= w.wend
      BY <1>4 DEF FileOK, FILES, Pointers
    <3> QED BY <1>2, <1>7, <3>1
  <2>2. w.line => \A i \in 1 .. Len(b) : b[i] # NL
    BY <1>2, <1>7
  <2>3. LeftOver(w, w, b, <<>>, b) /\ SameMode(w, w) /\ <<>> \in Seq(Nat)
    BY <1>2, <1>4, NoneLeft, EmptySeq DEF SameMode
  <2>4. WriteOutcome(w, b, [f |-> Buffered(w, b), n |-> Len(b), lost |-> FALSE])
    BY <1>2, <1>4, <2>1, <2>2, <2>3, BufferedOutcome
  <2>5. WriteOutcome(w, b, o)
    BY <1>2, <1>7, <2>4
  <2> QED BY <1>1, <1>4, <2>5, WroteFrom
<1>8. CASE o \in StdioWrite(w, b)
  <2>1. WriteOutcome(w, b, o)
    BY <1>2, <1>4, <1>8, StdioWriteOutcome
  <2> QED BY <1>1, <1>4, <2>1, WroteFrom
<1> QED BY <1>5, <1>6, <1>7, <1>8

\* __fwritex looks for the last newline.
LEMMA LastNewline ==
  ASSUME NEW b \in Seq(Nat), NEW w, w.line \in BOOLEAN
  PROVE  LET i == Max({0} \cup {j \in DOMAIN b : w.line /\ b[j] = NL}) IN
         i \in 0 .. Len(b) /\ (w.line => \A j \in 1 .. Len(b) : j > i => b[j] # NL)
<1> DEFINE S == {0} \cup {j \in DOMAIN b : w.line /\ b[j] = NL}
<1>1. PICK n \in Nat : n = Len(b) /\ DOMAIN b = 1 .. n
  BY LenProperties
<1>2. S \subseteq Nat /\ S # {} /\ S \subseteq 0 .. n
  BY <1>1
<1>3. IsFiniteSet(S)
  <2>1. IsFiniteSet(0 .. n)
    BY FS_Interval
  <2> QED BY <1>2, <2>1, FS_Subset
<1>4. \A j \in 1 .. n : w.line /\ b[j] = NL => j \in S
  BY <1>1
<1> HIDE DEF S
<1>5. Max(S) \in S /\ \A y \in S : y <= Max(S)
  BY <1>2, <1>3, MaxOfFinite
<1>6. PICK i \in 0 .. n : i = Max(S)
  BY <1>2, <1>5
<1>7. w.line => \A j \in 1 .. n : j > i => b[j] # NL
  BY <1>4, <1>5, <1>6
<1> QED BY <1>1, <1>6, <1>7 DEF S

LEMMA PrefixAndBeyond ==
  ASSUME NEW b \in Seq(Nat), NEW i \in 0 .. Len(b)
  PROVE  /\ Prefix(b, i) \in Seq(Nat) /\ Len(Prefix(b, i)) = i
         /\ Beyond(b, i) \in Seq(Nat) /\ Len(Beyond(b, i)) = Len(b) - i
         /\ \A j \in 1 .. Len(b) - i : Beyond(b, i)[j] = b[i + j]
         /\ Prefix(b, i) \o Beyond(b, i) = b
<1>1. PICK n \in Nat : n = Len(b)
  BY LenProperties
<1>2. i \in Nat /\ i <= n
  BY <1>1
<1>3. /\ Prefix(b, i) \in Seq(Nat) /\ Len(Prefix(b, i)) = i
      /\ \A j \in 1 .. i : Prefix(b, i)[j] = b[j]
  BY PrefixIs
<1>4. /\ Beyond(b, i) \in Seq(Nat) /\ Len(Beyond(b, i)) = IF i < Len(b) THEN Len(b) - i ELSE 0
      /\ \A j \in 1 .. Len(b) - i : Beyond(b, i)[j] = b[i + j]
  BY <1>2, BeyondIs
<1>5. Len(Beyond(b, i)) = n - i
  BY <1>1, <1>2, <1>4
<1>6. PICK x \in Seq(Nat) : x = Prefix(b, i) \o Beyond(b, i)
  BY <1>3, <1>4, ConcatIs
<1>7. Len(x) = n /\ \A j \in 1 .. n : x[j] = IF j <= i THEN Prefix(b, i)[j] ELSE Beyond(b, i)[j - i]
  <2>3. n - i \in Nat
    BY <1>2
  <2>4. \A s, t \in Seq(Nat) : Len(s) = i /\ Len(t) = n - i =>
          /\ Len(s \o t) = i + (n - i)
          /\ \A j \in 1 .. i + (n - i) : (s \o t)[j] = IF j <= i THEN s[j] ELSE t[j - i]
    <3>1. ASSUME NEW s \in Seq(Nat), NEW t \in Seq(Nat), Len(s) = i, Len(t) = n - i
          PROVE  /\ Len(s \o t) = i + (n - i)
                 /\ \A j \in 1 .. i + (n - i) : (s \o t)[j] = IF j <= i THEN s[j] ELSE t[j - i]
      <4>1. /\ Len(s \o t) = Len(s) + Len(t)
            /\ \A j \in 1 .. Len(s) + Len(t) : (s \o t)[j] = IF j <= Len(s) THEN s[j] ELSE t[j - Len(s)]
        BY ConcatIs
      <4> QED BY <3>1, <4>1
    <3> QED BY <3>1
  <2>1. /\ Len(Prefix(b, i) \o Beyond(b, i)) = i + (n - i)
        /\ \A j \in 1 .. i + (n - i) : (Prefix(b, i) \o Beyond(b, i))[j] =
             IF j <= i THEN Prefix(b, i)[j] ELSE Beyond(b, i)[j - i]
    BY <1>3, <1>4, <1>5, <2>4
  <2>2. i + (n - i) = n
    BY <1>2
  <2> QED BY <1>6, <2>1, <2>2
<1>8. \A j \in 1 .. n : x[j] = b[j]
  <2>1. ASSUME NEW j \in 1 .. n PROVE x[j] = b[j]
    <3>1. CASE j <= i
      <4>1. j \in 1 .. i
        BY <1>2, <3>1
      <4> QED BY <1>3, <1>7, <3>1, <4>1
    <3>2. CASE ~(j <= i)
      <4>1. j - i \in 1 .. n - i /\ i + (j - i) = j
        BY <1>2, <3>2
      <4>2. Beyond(b, i)[j - i] = b[i + (j - i)]
        BY <1>1, <1>4, <4>1
      <4> QED BY <1>7, <3>2, <4>1, <4>2
    <3> QED BY <3>1, <3>2
  <2> QED BY <2>1
<1>9. x = b
  BY <1>1, <1>7, <1>8, SeqEqual
<1> QED BY <1>1, <1>3, <1>4, <1>5, <1>6, <1>9

LEMMA ConcatThree ==
  ASSUME NEW s \in Seq(Nat), NEW t \in Seq(Nat), NEW u \in Seq(Nat)
  PROVE  (s \o t) \o u = s \o (t \o u)
<1>1. PICK m \in Nat, n \in Nat, k \in Nat : m = Len(s) /\ n = Len(t) /\ k = Len(u)
  BY LenProperties
<1>2. PICK st \in Seq(Nat), tu \in Seq(Nat) : st = s \o t /\ tu = t \o u
  BY ConcatIs
<1>3. PICK x \in Seq(Nat), y \in Seq(Nat) : x = st \o u /\ y = s \o tu
  BY ConcatIs
<1>4. /\ Len(st) = m + n
      /\ \A i \in 1 .. m + n : st[i] = IF i <= m THEN s[i] ELSE t[i - m]
      /\ Len(tu) = n + k
      /\ \A i \in 1 .. n + k : tu[i] = IF i <= n THEN t[i] ELSE u[i - n]
  <2>1. /\ Len(s \o t) = Len(s) + Len(t)
        /\ \A i \in 1 .. Len(s) + Len(t) : (s \o t)[i] = IF i <= Len(s) THEN s[i] ELSE t[i - Len(s)]
        /\ Len(t \o u) = Len(t) + Len(u)
        /\ \A i \in 1 .. Len(t) + Len(u) : (t \o u)[i] = IF i <= Len(t) THEN t[i] ELSE u[i - Len(t)]
    BY ConcatIs
  <2> QED BY <1>1, <1>2, <2>1
<1>5. PICK mn \in Nat, nk \in Nat, all \in Nat : mn = m + n /\ nk = n + k /\ all = mn + k /\ all = m + nk
  OBVIOUS
<1>6. /\ Len(x) = all /\ Len(y) = all
      /\ \A i \in 1 .. all : x[i] = IF i <= mn THEN st[i] ELSE u[i - mn]
      /\ \A i \in 1 .. all : y[i] = IF i <= m THEN s[i] ELSE tu[i - m]
  <2>1. /\ Len(st \o u) = Len(st) + Len(u)
        /\ \A i \in 1 .. Len(st) + Len(u) : (st \o u)[i] = IF i <= Len(st) THEN st[i] ELSE u[i - Len(st)]
        /\ Len(s \o tu) = Len(s) + Len(tu)
        /\ \A i \in 1 .. Len(s) + Len(tu) : (s \o tu)[i] = IF i <= Len(s) THEN s[i] ELSE tu[i - Len(s)]
    BY ConcatIs
  <2>2. Len(st) = mn /\ Len(tu) = nk /\ Len(st) + Len(u) = all /\ Len(s) + Len(tu) = all
    BY <1>1, <1>4, <1>5
  <2> QED BY <1>1, <1>3, <2>1, <2>2
<1>7. ASSUME NEW i \in 1 .. all PROVE x[i] = y[i]
  <2>1. CASE i <= m
    <3>1. i \in 1 .. m + n /\ i <= mn
      BY <1>5, <2>1
    <3> QED BY <1>4, <1>6, <2>1, <3>1
  <2>2. CASE ~(i <= m) /\ i <= mn
    <3>1. i \in 1 .. m + n /\ i - m \in 1 .. n + k /\ i - m <= n
      BY <1>5, <2>2
    <3> QED BY <1>4, <1>6, <2>2, <3>1
  <2>3. CASE ~(i <= mn)
    <3>1. ~(i <= m) /\ i - m \in 1 .. n + k /\ ~(i - m <= n) /\ (i - m) - n = i - mn
      BY <1>5, <2>3
    <3> QED BY <1>4, <1>6, <2>3, <3>1
  <2> QED BY <2>1, <2>2, <2>3
<1>8. x = y
  BY <1>6, <1>7, SeqEqual
<1> QED BY <1>2, <1>3, <1>8

LEMMA FwritexIs ==
  ASSUME NEW f, FileOK(f), f.rpos = f.rend, NEW b \in Seq(Nat), b # <<>>, NEW o \in Fwritex(f, b)
  PROVE  WriteOutcome(f, b, o)
<1>1. PICK w : w = IF f.wend = NIL THEN Writing(NotReading(f)) ELSE f
  OBVIOUS
<1>2. FileOK(w) /\ w.wend # NIL /\ SameMode(w, f) /\ SameStreamAs(w, f)
  BY <1>1, WritableIs
<1>3. PICK i : i = Max({0} \cup {j \in DOMAIN b : w.line /\ b[j] = NL})
  OBVIOUS
<1>4. w.line \in BOOLEAN /\ w \in FILES /\ Pointers(w) /\ w.size \in Nat
  BY <1>2 DEF FileOK, FILES
<1>5. i \in 0 .. Len(b) /\ (w.line => \A j \in 1 .. Len(b) : j > i => b[j] # NL)
  BY <1>3, <1>4, LastNewline, SMTT(30)
<1> DEFINE kept(g) == [f |-> Buffered(g, Beyond(b, i)), n |-> Len(b), lost |-> FALSE]
<1>6. \/ o = [f |-> [f EXCEPT !.err = TRUE], n |-> 0, lost |-> FALSE]
      \/ o \in StdioWrite(w, b)
      \/ ~(Len(b) > w.wend - w.wpos) /\ i = 0 /\ o = kept(w)
      \/ /\ ~(Len(b) > w.wend - w.wpos) /\ i # 0
         /\ \E r \in StdioWrite(w, Prefix(b, i)) : o = IF r.n < i THEN r ELSE kept(r.f)
  <2>1. CASE f.wend = NIL /\ f.nowr
    BY <2>1 DEF Fwritex, Towrite
  <2>2. CASE f.wend = NIL /\ ~f.nowr
    <3>1. w = Writing(NotReading(f))
      BY <1>1, <2>2
    <3> QED BY <1>3, <2>2, <3>1 DEF Fwritex, Towrite
  <2>3. CASE f.wend # NIL
    <3>1. w = f
      BY <1>1, <2>3
    <3> QED BY <1>3, <2>3, <3>1 DEF Fwritex
  <2> QED BY <2>1, <2>2, <2>3
<1>7. PICK n \in Nat, free \in Int : n = Len(b) /\ free = w.wend - w.wpos /\ free <= w.size
  <2>1. w.wend \in Nat /\ w.wpos \in Nat /\ w.wend = Buf + w.size /\ w.wpos >= Buf
    BY <1>2, <1>4 DEF Pointers, FILES
  <2>2. w.wend - w.wpos \in Int /\ w.wend - w.wpos <= w.size
    BY <1>4, <2>1, BufIs
  <2> QED BY <2>2, LenProperties
<1>8. PICK p \in Seq(Nat), s \in Seq(Nat) :
        /\ p = Prefix(b, i) /\ s = Beyond(b, i) /\ Len(p) = i /\ Len(s) = n - i
        /\ \A j \in 1 .. n - i : s[j] = b[i + j]
        /\ p \o s = b
  BY <1>5, <1>7, PrefixAndBeyond
<1>9. w.line => \A j \in 1 .. Len(s) : s[j] # NL
  <2> SUFFICES ASSUME w.line, NEW j \in 1 .. Len(s) PROVE s[j] # NL
    OBVIOUS
  <2>1. i \in 0 .. n /\ j \in 1 .. n - i
    BY <1>5, <1>7, <1>8
  <2>2. i + j \in 1 .. n /\ i + j > i
    BY <2>1
  <2> QED BY <1>5, <1>7, <1>8, <2>1, <2>2
<1> HIDE DEF kept
<1>10. CASE o = [f |-> [f EXCEPT !.err = TRUE], n |-> 0, lost |-> FALSE]
  <2>1. WriteOutcome(f, b, [f |-> [f EXCEPT !.err = TRUE], n |-> 0, lost |-> FALSE])
    BY RefusedOutcome
  <2> QED BY <1>10, <2>1
<1>11. CASE o \in StdioWrite(w, b)
  <2>1. WriteOutcome(w, b, o)
    BY <1>2, <1>11, StdioWriteOutcome
  <2> QED BY <1>2, <2>1, WroteFrom
<1>12. CASE ~(Len(b) > w.wend - w.wpos) /\ i = 0 /\ o = kept(w)
  <2>1. s = b
    BY <1>8, <1>12, BeyondZero
  <2>2. LeftOver(w, w, b, <<>>, b) /\ SameMode(w, w) /\ <<>> \in Seq(Nat)
    BY <1>2, NoneLeft, EmptySeq DEF SameMode
  <2>3. Len(b) <= w.wend - w.wpos
    BY <1>7, <1>12
  <2>4. WriteOutcome(w, b, [f |-> Buffered(w, b), n |-> Len(b), lost |-> FALSE])
    BY <1>2, <1>9, <2>1, <2>2, <2>3, BufferedOutcome
  <2>5. o = [f |-> Buffered(w, b), n |-> Len(b), lost |-> FALSE]
    BY <1>8, <1>12, <2>1 DEF kept
  <2> QED BY <1>2, <2>4, <2>5, WroteFrom
<1>13. ASSUME ~(Len(b) > w.wend - w.wpos), i # 0, NEW r \in StdioWrite(w, p),
              o = IF r.n < i THEN r ELSE kept(r.f)
       PROVE  WriteOutcome(w, b, o)
  <2>1. /\ FileOK(r.f) /\ Held(r.f) = <<>> /\ SameMode(r.f, w)
        /\ r.f.rpos = NIL /\ r.f.rend = NIL
        /\ ~ r.lost =>
             /\ r.n = Len(p) /\ r.f.wend # NIL
             /\ r.f.wbase = Buf /\ r.f.wpos = Buf /\ r.f.wend = Buf + w.size
             /\ r.f.data = Overlay(w.data, At(w), Held(w) \o p)
             /\ r.f.off = IF Held(w) \o p = <<>> THEN w.off ELSE At(w) + Len(Held(w) \o p)
        /\ r.lost => r.f.err /\ r.n \in Nat /\ (p # <<>> => r.n < Len(p))
        /\ r.lost \in BOOLEAN
    BY <1>2, StdioWriteIs
  <2>2. p # <<>>
    BY <1>8, <1>13, EmptySeq
  <2>3. i \in 0 .. n /\ i \in Nat
    BY <1>5, <1>7
  <2>4. r.lost => r.n < i
    BY <1>8, <2>1, <2>2
  <2>5. ~r.lost => ~(r.n < i)
    BY <1>8, <2>1, <2>3
  <2>6. CASE r.lost
    <3>1. o = r
      BY <1>13, <2>4, <2>6
    <3> QED BY <2>1, <2>6, <3>1 DEF WriteOutcome
  <2>7. CASE ~r.lost
    <3>1. PICK h : h = r.f
      OBVIOUS
    <3>2. PICK q \in Seq(Nat) : q = Held(w) \o p
      BY <1>2, HeldIs, ConcatIs
    <3>3. q \o (<<>> \o s) = Held(w) \o b
      <4>1. <<>> \o s = s
        BY ConcatEmptySeq
      <4>2. PICK x \in Seq(Nat) : x = Held(w)
        BY <1>2, HeldIs
      <4>3. (x \o p) \o s = x \o (p \o s)
        BY ConcatThree
      <4> QED BY <1>8, <3>2, <4>1, <4>2, <4>3
    <3>4. FileOK(h) /\ h.wend # NIL /\ SameMode(h, w) /\ LeftOver(w, h, b, q, s)
      BY <2>1, <2>7, <3>1, <3>2, <3>3 DEF LeftOver
    <3>5. Len(s) <= h.wend - h.wpos
      <4>1. h.wend = Buf + w.size /\ h.wpos = Buf
        BY <2>1, <2>7, <3>1
      <4>2. PICK z \in Nat, buf \in Nat : z = w.size /\ buf = Buf
        BY <1>4, BufIs
      <4>3. n - i <= z /\ (buf + z) - buf = z
        BY <1>7, <1>13, <2>3, <4>2
      <4> QED BY <1>8, <4>1, <4>2, <4>3
    <3>6. h.line => \A j \in 1 .. Len(s) : s[j] # NL
      BY <1>9, <3>4 DEF SameMode
    <3>7. WriteOutcome(w, b, [f |-> Buffered(h, s), n |-> Len(b), lost |-> FALSE])
      BY <1>2, <3>4, <3>5, <3>6, BufferedOutcome
    <3>8. o = [f |-> Buffered(h, s), n |-> Len(b), lost |-> FALSE]
      BY <1>8, <1>13, <2>5, <2>7, <3>1 DEF kept
    <3> QED BY <3>7, <3>8
  <2> QED BY <2>1, <2>6, <2>7
<1>14. CASE /\ ~(Len(b) > w.wend - w.wpos) /\ i # 0
            /\ \E r \in StdioWrite(w, Prefix(b, i)) : o = IF r.n < i THEN r ELSE kept(r.f)
  <2>1. WriteOutcome(w, b, o)
    BY <1>8, <1>13, <1>14
  <2> QED BY <1>2, <2>1, WroteFrom
<1> QED BY <1>6, <1>10, <1>11, <1>12, <1>14 DEF kept

-----------------------------------------------------------------------------
(***************************************************************************)
(* 6  Pushing back                                                         *)
(***************************************************************************)
\* The stream before a byte is pushed back
LEMMA PushableIs ==
  ASSUME NEW f, FileOK(f),
         NEW t \in IF f.rpos = NIL THEN Toread(f) ELSE {[f |-> f, ok |-> TRUE, lost |-> FALSE]}
  PROVE  /\ FileOK(t.f) /\ Held(t.f) = <<>> /\ SameMode(t.f, f) /\ t.lost \in BOOLEAN
         /\ t.f.wbase = NIL /\ t.f.wpos = NIL /\ t.f.wend = NIL
         /\ ~t.lost => SameStreamAs(t.f, f)
         /\ t.lost => t.f.err
<1>1. CASE f.rpos = NIL
  <2>1. f.rpos = f.rend /\ t \in Toread(f)
    BY <1>1 DEF FileOK, Pointers, NIL
  <2> QED BY <2>1, ToreadIs
<1>2. CASE f.rpos # NIL
  <2>1. t.f = f /\ t.lost = FALSE
    BY <1>2
  <2>2. f.rend # NIL
    BY <1>2 DEF FileOK, Pointers, FILES, NIL
  <2>3. f.wbase = NIL /\ f.wpos = NIL /\ f.wend = NIL
    BY <2>2 DEF FileOK, Pointers
  <2>4. Held(f) = <<>>
    BY <2>3, HeldIs
  <2> QED BY <2>1, <2>3, <2>4 DEF SameMode, SameStreamAs
<1> QED BY <1>1, <1>2

\* a is where a byte is pushed back, and nothing waits to be written.
PushAt(h, a) ==
  /\ h.wbase = NIL /\ h.wpos = NIL /\ h.wend = NIL
  /\ h.rpos = a + 1 /\ a >= 1

LEMMA PushIs ==
  ASSUME NEW h, FileOK(h), NEW a \in Nat, PushAt(h, a), NEW c \in Nat
  PROVE  LET g == [Stored(h, a, <<c>>) EXCEPT !.rpos = a, !.eof = FALSE] IN
         /\ FileOK(g) /\ Held(g) = <<>> /\ SameMode(g, h) /\ g.err = h.err /\ g.rpos = a
         /\ View(g) = View(h) /\ Position(g) = Position(h) - 1 /\ InputOf(g) = <<c>> \o InputOf(h)
<1>1. /\ h \in FILES /\ Pointers(h) /\ h.size \in Nat /\ h.rend \in Nat /\ h.rpos \in Nat
      /\ h.data \in Seq(Nat) /\ h.off \in Nat
  BY DEF FileOK, FILES
<1>31. h.wbase = NIL /\ h.wpos = NIL /\ h.wend = NIL /\ h.rpos = a + 1 /\ a >= 1
  BY DEF PushAt
<1>32. Held(h) = <<>>
  BY <1>31, HeldIs
<1>2. h.rpos >= 1 /\ h.rpos <= h.rend /\ h.rend <= Buf + h.size
  <2>1. h.rpos # NIL
    BY <1>1, <1>31 DEF NIL
  <2> QED BY <1>1, <2>1 DEF Pointers
<1>3. PICK n \in Nat, off \in Nat, room \in Nat, end \in Nat :
        /\ n = h.rend - h.rpos /\ off = h.off /\ end = h.rend /\ end = a + 1 + n
        /\ room = UNGET + Max({BUFSIZ} \cup VbufSizes) /\ end <= room + 1
  <2>1. PICK r \in Nat, size \in Nat, buf \in Nat, u \in Nat :
          /\ r = UNGET + Max({BUFSIZ} \cup VbufSizes) /\ size = h.size /\ buf = Buf /\ u = UNGET
          /\ buf = u + 1
    BY <1>1, BufIs, RoomIs
  <2>2. u + size <= r
    BY <1>1, <2>1 DEF Pointers
  <2>3. PICK end \in Nat : end = h.rend
    BY <1>1
  <2>4. end <= buf + size /\ a + 1 <= end
    BY <1>2, <1>31, <2>1, <2>3
  <2>5. end <= r + 1 /\ end - (a + 1) \in Nat /\ end = a + 1 + (end - (a + 1))
    BY <2>1, <2>2, <2>4
  <2> QED BY <1>1, <1>31, <2>1, <2>3, <2>5
<1>30. end = a + 1 + n /\ end <= room + 1 /\ a >= 1
  BY <1>3, <1>31
<1>34. <<c>> \in Seq(Nat)
  OBVIOUS
<1>4. PICK b \in Seq(Nat) : b = <<c>>
  BY <1>34
<1>5. Len(b) = 1 /\ b[1] = c
  BY <1>4
<1>6. a + Len(b) - 1 <= UNGET + Max({BUFSIZ} \cup VbufSizes)
  <2>1. a + 1 - 1 <= room
    BY <1>30
  <2> QED BY <1>3, <1>5, <2>1
<1>33. a >= 1
  BY <1>31
<1>7. PICK s : s = Stored(h, a, b)
  OBVIOUS
<1>8. LET z == Stored(h, a, b) IN
      /\ z \in FILES /\ SameMode(z, h) /\ SameReading(z, h) /\ SameWriting(z, h)
      /\ z.eof = h.eof /\ z.err = h.err /\ z.data = h.data /\ z.off = h.off
      /\ \A i \in 1 .. Len(b) : z.mem[a + i - 1] = b[i]
      /\ \A i \in a + Len(b) .. UNGET + Max({BUFSIZ} \cup VbufSizes) : z.mem[i] = h.mem[i]
  <2>1. h \in FILES
    BY <1>1
  <2> QED BY <1>6, <1>33, <2>1, StoredIs, ZenonT(60)
<1>9. /\ s \in FILES /\ SameMode(s, h) /\ SameReading(s, h) /\ SameWriting(s, h)
      /\ s.err = h.err /\ s.data = h.data /\ s.off = h.off
  BY <1>7, <1>8
<1>10. s.mem[a] = c /\ \A i \in a + 1 .. room : s.mem[i] = h.mem[i]
  <2>1. \A i \in 1 .. 1 : s.mem[a + i - 1] = b[i]
    BY <1>5, <1>7, <1>8
  <2>2. s.mem[a + 1 - 1] = b[1] /\ a + 1 - 1 = a
    BY <2>1
  <2> QED BY <1>3, <1>5, <1>7, <1>8, <2>2
<1>11. PICK g : g = [s EXCEPT !.rpos = a, !.eof = FALSE]
  OBVIOUS
<1>12. /\ g \in FILES /\ SameMode(g, s) /\ SameWriting(g, s) /\ g.rpos = a /\ g.rend = s.rend
       /\ g.eof = FALSE /\ g.err = s.err /\ g.mem = s.mem /\ g.data = s.data /\ g.off = s.off
  BY <1>9, <1>11 DEF FILES, SameMode, SameWriting
<1>13. /\ SameMode(g, h) /\ g.rend = end /\ g.wbase = NIL /\ g.wpos = NIL /\ g.wend = NIL
       /\ g.err = h.err /\ g.data = h.data /\ g.off = off
  BY <1>3, <1>9, <1>12, <1>31 DEF SameMode, SameReading, SameWriting
<1>14. FileOK(g) /\ Held(g) = <<>>
  <2>1. EndOfFile(g)
    BY <1>12 DEF EndOfFile
  <2>2. g.size = h.size /\ g.rpos >= 1 /\ g.rpos <= g.rend /\ g.rend <= Buf + g.size
    <3>1. a <= end /\ a >= 1
      BY <1>30
    <3>2. end <= Buf + h.size
      BY <1>2, <1>3
    <3>3. g.size = h.size /\ g.rpos = a /\ g.rend = end
      BY <1>12, <1>13 DEF SameMode
    <3> QED BY <3>1, <3>2, <3>3
  <2> QED BY <1>12, <1>13, <2>1, <2>2, ReadyIsOK
<1>15. /\ View(g) = g.data /\ Position(g) = g.off - (g.rend - g.rpos)
       /\ InputOf(g) = Unread(g) \o Beyond(g.data, g.off)
  BY <1>14, ViewIs
<1>16. /\ View(h) = h.data /\ Position(h) = h.off - (h.rend - h.rpos)
       /\ InputOf(h) = Unread(h) \o Beyond(h.data, h.off)
  BY <1>32, ViewIs
<1>17. Position(g) = Position(h) - 1
  <2>1. Position(g) = off - (end - a) /\ Position(h) = off - n
    BY <1>3, <1>12, <1>13, <1>15, <1>16
  <2>2. off - (end - a) = (off - n) - 1
    BY <1>30
  <2> QED BY <2>1, <2>2
<1>18. PICK u \in Seq(Nat) :
         /\ u = Unread(h) /\ Len(u) = n
         /\ \A i \in 1 .. n : u[i] = h.mem[(a + 1) + i - 1]
  BY <1>3, <1>31, UnreadIs
<1>19. PICK m \in Nat : m = n + 1
  OBVIOUS
<1>20. PICK v \in Seq(Nat) :
         /\ v = Unread(g) /\ Len(v) = m
         /\ \A i \in 1 .. m : v[i] = g.mem[a + i - 1]
  <2>1. g.rend - g.rpos = m
    <3>1. end - a = m
      BY <1>19, <1>30
    <3> QED BY <1>12, <1>13, <3>1
  <2> QED BY <1>12, <1>14, <2>1, UnreadIs
<1>21. PICK x \in Seq(Nat) :
         /\ x = b \o u /\ Len(x) = m
         /\ \A i \in 1 .. m : x[i] = IF i <= 1 THEN b[i] ELSE u[i - 1]
  <2>1. /\ b \o u \in Seq(Nat) /\ Len(b \o u) = Len(b) + Len(u)
        /\ \A i \in 1 .. Len(b) + Len(u) : (b \o u)[i] = IF i <= Len(b) THEN b[i] ELSE u[i - Len(b)]
    BY <1>5, ConcatIs
  <2>2. Len(b) = 1 /\ Len(b) + Len(u) = m
    BY <1>5, <1>18, <1>19
  <2> QED BY <2>1, <2>2, ZenonT(60)
<1>22. ASSUME NEW i \in 1 .. m PROVE v[i] = x[i]
  <2>1. CASE i = 1
    <3>1. a + i - 1 = a /\ i <= 1
      BY <2>1
    <3>2. v[i] = g.mem[a + i - 1] /\ x[i] = b[i]
      BY <1>20, <1>21, <3>1
    <3> QED BY <1>5, <1>10, <1>12, <2>1, <3>1, <3>2
  <2>2. CASE i # 1
    <3>1. PICK j \in 1 .. n, k \in Int : i = j + 1 /\ ~(i <= 1) /\ k = a + i - 1 /\ k = (a + 1) + j - 1 /\ i - 1 = j
      <4>1. i - 1 \in 1 .. n /\ ~(i <= 1)
        BY <1>19, <2>2
      <4> QED BY <4>1
    <3>2. k \in a + 1 .. room
      <4>1. i <= n + 1 /\ i >= 2 /\ k = a + i - 1
        BY <1>19, <2>2, <3>1
      <4> QED BY <1>30, <4>1
    <3>3. u[j] = h.mem[k]
      BY <1>18, <3>1
    <3>4. v[i] = s.mem[k]
      BY <1>12, <1>20, <3>1
    <3>5. x[i] = u[j]
      BY <1>21, <3>1
    <3>6. s.mem[k] = h.mem[k]
      BY <1>10, <3>2
    <3> QED BY <3>3, <3>4, <3>5, <3>6
  <2> QED BY <2>1, <2>2
<1>23. v = x
  BY <1>20, <1>21, <1>22, SeqEqual
<1>24. PICK y \in Seq(Nat) : y = Beyond(h.data, h.off)
  BY <1>1, BeyondIs
<1>25. (b \o u) \o y = b \o (u \o y)
  BY <1>5, ConcatThree, ZenonT(60)
<1>26. InputOf(g) = b \o InputOf(h)
  BY <1>3, <1>13, <1>15, <1>16, <1>18, <1>20, <1>21, <1>23, <1>24, <1>25
<1>27. View(g) = View(h)
  BY <1>13, <1>15, <1>16
<1> QED BY <1>4, <1>7, <1>11, <1>12, <1>13, <1>14, <1>17, <1>26, <1>27

LEMMA UngetcIs ==
  ASSUME NEW f, FileOK(f), NEW c \in Nat, NEW u \in Ungetc(f, c)
  PROVE  /\ FileOK(u.f) /\ Held(u.f) = <<>> /\ SameMode(u.f, f)
         /\ u.lost \in BOOLEAN /\ u.failed \in BOOLEAN
         /\ u.lost => u.f.err
         /\ ~u.lost /\ u.failed => SameStreamAs(u.f, f)
         /\ ~u.lost /\ ~u.failed => /\ View(u.f) = View(f) /\ Position(u.f) = Position(f) - 1
                                    /\ InputOf(u.f) = <<c>> \o InputOf(f)
<1>1. PICK t \in IF f.rpos = NIL THEN Toread(f) ELSE {[f |-> f, ok |-> TRUE, lost |-> FALSE]} :
        u = LET g == IF t.f.rpos = NIL \/ t.f.rpos <= Buf - UNGET THEN t.f
                     ELSE [Stored(t.f, t.f.rpos - 1, <<c>>) EXCEPT !.rpos = @ - 1, !.eof = FALSE]
            IN [f |-> g, failed |-> g.rpos = t.f.rpos, lost |-> t.lost]
  BY DEF Ungetc
<1>2. /\ FileOK(t.f) /\ Held(t.f) = <<>> /\ SameMode(t.f, f) /\ t.lost \in BOOLEAN
      /\ t.f.wbase = NIL /\ t.f.wpos = NIL /\ t.f.wend = NIL
      /\ ~t.lost => SameStreamAs(t.f, f)
      /\ t.lost => t.f.err
  BY PushableIs
<1>3. PICK h : h = t.f
  OBVIOUS
<1>4. h \in FILES /\ h.rpos \in Nat
  BY <1>2, <1>3 DEF FileOK, FILES
<1>5. CASE h.rpos = NIL \/ h.rpos <= Buf - UNGET
  <2>1. u = [f |-> h, failed |-> h.rpos = h.rpos, lost |-> t.lost]
    BY <1>1, <1>3, <1>5
  <2>2. u.f = h /\ u.failed = TRUE /\ u.lost = t.lost
    BY <2>1
  <2> QED BY <1>2, <1>3, <2>2
<1>6. CASE ~(h.rpos = NIL \/ h.rpos <= Buf - UNGET)
  <2>1. PICK a \in Nat : a >= 1 /\ h.rpos = a + 1
    <3>1. Buf - UNGET = 1
      BY BufIs
    <3>2. h.rpos > 1
      BY <1>4, <1>6, <3>1
    <3>3. h.rpos - 1 \in Nat /\ h.rpos - 1 >= 1 /\ h.rpos = (h.rpos - 1) + 1
      BY <1>4, <3>2
    <3> QED BY <3>3
  <2>2. PICK g : g = [Stored(h, a, <<c>>) EXCEPT !.rpos = a, !.eof = FALSE]
    OBVIOUS
  <2>3. /\ FileOK(g) /\ Held(g) = <<>> /\ SameMode(g, h) /\ g.err = h.err /\ g.rpos = a
        /\ View(g) = View(h) /\ Position(g) = Position(h) - 1 /\ InputOf(g) = <<c>> \o InputOf(h)
    <3>1. PushAt(h, a)
      BY <1>2, <1>3, <2>1 DEF PushAt
    <3>2. FileOK(h)
      BY <1>2, <1>3
    <3>3. LET z == [Stored(h, a, <<c>>) EXCEPT !.rpos = a, !.eof = FALSE] IN
          /\ FileOK(z) /\ Held(z) = <<>> /\ SameMode(z, h) /\ z.err = h.err /\ z.rpos = a
          /\ View(z) = View(h) /\ Position(z) = Position(h) - 1 /\ InputOf(z) = <<c>> \o InputOf(h)
      BY <3>1, <3>2, PushIs, ZenonT(60)
    <3> QED BY <2>2, <3>3
  <2>4. h.rpos - 1 = a /\ a # h.rpos
    BY <2>1
  <2>5. Stored(h, a, <<c>>).rpos = h.rpos
    <3>1. DOMAIN h = DOMAIN Stored(h, a, <<c>>) /\ "rpos" \in DOMAIN h
      BY <1>4 DEF Stored, FILES
    <3> QED BY <1>4 DEF Stored, FILES
  <2>6. [Stored(h, h.rpos - 1, <<c>>) EXCEPT !.rpos = @ - 1, !.eof = FALSE] = g
    BY <2>2, <2>4, <2>5
  <2>7. u = [f |-> g, failed |-> g.rpos = h.rpos, lost |-> t.lost]
    BY <1>1, <1>3, <1>6, <2>6
  <2>8. u.f = g /\ u.failed = FALSE /\ u.lost = t.lost
    BY <2>3, <2>4, <2>7
  <2>9. ~t.lost => View(g) = View(f) /\ Position(g) = Position(f) - 1 /\ InputOf(g) = <<c>> \o InputOf(f)
    BY <1>2, <1>3, <2>3 DEF SameStreamAs
  <2> QED BY <1>2, <1>3, <2>3, <2>8, <2>9 DEF SameMode
<1> QED BY <1>5, <1>6

-----------------------------------------------------------------------------
(***************************************************************************)
(* 7  Flushing, closing, seeking, telling                                  *)
(***************************************************************************)
LEMMA SyncedIs ==
  ASSUME NEW f, FileOK(f), Held(f) = <<>>
  PROVE  LET g == Synced(f) IN
         /\ FileOK(g) /\ Held(g) = <<>> /\ SameMode(g, f) /\ SameReading(g, f) /\ SameWriting(g, f)
         /\ g.err = f.err /\ g.eof = f.eof /\ View(g) = View(f) /\ g.data = f.data
         /\ g.off = IF Position(f) < 0 THEN f.off ELSE Position(f)
<1>1. /\ f \in FILES /\ Pointers(f) /\ EndOfFile(f) /\ LinesWritten(f)
      /\ f.rpos \in Nat /\ f.rend \in Nat /\ f.off \in Nat
  BY DEF FileOK, FILES
<1>2. Position(f) = f.off - (f.rend - f.rpos) /\ View(f) = f.data
  BY ViewIs
<1>3. PICK g : g = Synced(f)
  OBVIOUS
<1>4. CASE f.rpos = f.rend
  <2>1. g = f
    BY <1>3, <1>4 DEF Synced
  <2>2. f.off = IF Position(f) < 0 THEN f.off ELSE Position(f)
    BY <1>1, <1>2, <1>4
  <2> QED BY <1>3, <2>1, <2>2 DEF SameMode, SameReading, SameWriting
<1>5. CASE f.rpos # f.rend
  <2>1. PICK to \in Int : to = Position(f)
    BY ViewIs
  <2>2. (f.rpos - f.rend) + f.off = to
    BY <1>1, <1>2, <2>1
  <2>3. g = IF to < 0 THEN f ELSE [f EXCEPT !.off = to]
    BY <1>3, <1>5, <2>2 DEF Synced, HostSeek
  <2>4. CASE to < 0
    BY <1>3, <2>1, <2>3, <2>4 DEF SameMode, SameReading, SameWriting
  <2>5. CASE ~(to < 0)
    <3>1. to \in Nat
      BY <2>5
    <3>2. /\ g \in FILES /\ SameMode(g, f) /\ SameReading(g, f) /\ SameWriting(g, f)
          /\ g.err = f.err /\ g.eof = f.eof /\ g.data = f.data /\ g.mem = f.mem /\ g.off = to
      BY <1>1, <2>3, <2>5, <3>1 DEF FILES, SameMode, SameReading, SameWriting
    <3>3. EndOfFile(g)
      BY <1>1, <1>5, <3>2 DEF EndOfFile
    <3>4. Pointers(g)
      BY <1>1, <3>2 DEF Pointers, SameMode, SameReading, SameWriting
    <3>5. Held(g) = <<>>
      BY <3>2 DEF Held, SameWriting
    <3>6. LinesWritten(g)
      BY <1>1, <3>2, <3>5 DEF LinesWritten, SameMode, SameWriting
    <3>7. FileOK(g)
      BY <3>2, <3>3, <3>4, <3>6 DEF FileOK
    <3>8. View(g) = View(f)
      BY <1>2, <3>2, <3>5, <3>7, ViewIs
    <3> QED BY <1>3, <2>1, <2>5, <3>2, <3>5, <3>7, <3>8
  <2> QED BY <2>4, <2>5
<1> QED BY <1>4, <1>5

LEMMA FflushIs ==
  ASSUME NEW f, FileOK(f), NEW w \in Fflush(f)
  PROVE  /\ FileOK(w.f) /\ Held(w.f) = <<>> /\ SameMode(w.f, f) /\ w.lost \in BOOLEAN
         /\ w.f.rpos = NIL /\ w.f.rend = NIL
         /\ w.lost => w.f.err
         /\ ~w.lost => /\ View(w.f) = View(f)
                       /\ Position(f) >= 0 => /\ Position(w.f) = Position(f) /\ w.f.off = Position(f)
                                              /\ InputOf(w.f) = Beyond(View(f), Position(f))
<1>1. PICK o \in Flushed(f) :
        w = IF o.lost THEN [f |-> o.f, lost |-> TRUE]
            ELSE [f |-> NotReading(NotWriting(Synced(o.f))), lost |-> FALSE]
  BY DEF Fflush
<1>2. /\ FileOK(o.f) /\ Held(o.f) = <<>> /\ SameMode(o.f, f) /\ o.lost \in BOOLEAN
      /\ ~ o.lost => SameStreamAs(o.f, f)
      /\ o.lost => o.f.err /\ o.f.rpos = NIL /\ o.f.rend = NIL
  BY FlushedIs
<1>3. CASE o.lost
  <2>1. w.f = o.f /\ w.lost = TRUE
    BY <1>1, <1>3
  <2> QED BY <1>2, <1>3, <2>1
<1>4. CASE ~o.lost
  <2>1. PICK e, g, h, k : e = o.f /\ g = Synced(e) /\ h = NotWriting(g) /\ k = NotReading(h)
    OBVIOUS
  <2>2. w.f = k /\ w.lost = FALSE
    BY <1>1, <1>4, <2>1
  <2>3. FileOK(e) /\ Held(e) = <<>> /\ SameMode(e, f) /\ SameStreamAs(e, f)
    BY <1>2, <1>4, <2>1
  <2>4. /\ FileOK(g) /\ Held(g) = <<>> /\ SameMode(g, e) /\ View(g) = View(e)
        /\ g.off = IF Position(e) < 0 THEN e.off ELSE Position(e)
    BY <2>1, <2>3, SyncedIs
  <2>5. FileOK(h) /\ Held(h) = <<>> /\ SameMode(h, g) /\ SameStreamAs(h, g) /\ h.off = g.off
    BY <2>1, <2>4, NotWritingIs
  <2>6. h.off >= Len(h.data) \/ ~h.eof
    BY <2>5 DEF FileOK, EndOfFile
  <2>7. /\ k.off >= Len(k.data) \/ ~k.eof => FileOK(k) /\ Held(k) = <<>>
        /\ SameMode(k, h) /\ k.rpos = NIL /\ k.rend = NIL
        /\ k.eof = h.eof /\ k.data = h.data /\ k.off = h.off
    BY <2>1, <2>5, NotReadingIs
  <2>8. FileOK(k) /\ Held(k) = <<>>
    BY <2>6, <2>7
  <2>9. SameMode(k, f)
    BY <2>3, <2>4, <2>5, <2>7 DEF SameMode
  <2>10. /\ View(k) = k.data /\ Position(k) = k.off - (k.rend - k.rpos)
         /\ InputOf(k) = Unread(k) \o Beyond(k.data, k.off)
    BY <2>8, ViewIs
  <2>11. View(k) = View(f)
    <3>1. View(h) = h.data
      BY <2>5, ViewIs
    <3> QED BY <2>3, <2>4, <2>5, <2>7, <2>10, <3>1 DEF SameStreamAs
  <2>12. k.off \in Nat /\ k.data \in Seq(Nat)
    BY <2>8 DEF FileOK, FILES
  <2>13. Unread(k) = <<>>
    BY <2>7, <2>8, UnreadIs
  <2>14. Position(k) = k.off /\ InputOf(k) = Beyond(k.data, k.off)
    <3>1. k.off - (NIL - NIL) = k.off
      BY <2>12 DEF NIL
    <3>2. PICK y \in Seq(Nat) : y = Beyond(k.data, k.off)
      BY <2>12, BeyondIs
    <3>3. <<>> \o y = y
      BY ConcatEmptySeq
    <3> QED BY <2>7, <2>10, <2>13, <3>1, <3>2, <3>3
  <2>15. ASSUME Position(f) >= 0
         PROVE  Position(k) = Position(f) /\ k.off = Position(f) /\ InputOf(k) = Beyond(View(f), Position(f))
    <3>1. PICK p \in Int : p = Position(f)
      BY ViewIs
    <3>2. ~(p < 0)
      BY <2>15, <3>1
    <3>3. k.off = p
      BY <2>3, <2>4, <2>5, <2>7, <3>1, <3>2 DEF SameStreamAs
    <3> QED BY <2>10, <2>11, <2>14, <3>1, <3>3
  <2> QED BY <2>2, <2>7, <2>8, <2>9, <2>11, <2>15
<1> QED BY <1>2, <1>3, <1>4

LEMMA CloseFileIs ==
  ASSUME NEW f, FileOK(f), NEW w \in CloseFile(f)
  PROVE  /\ FileOK(w.f) /\ Held(w.f) = <<>> /\ SameMode(w.f, f) /\ w.lost \in BOOLEAN
         /\ f.rpos = f.rend => w.f.rpos = w.f.rend
         /\ ~w.lost => View(w.f) = View(f) /\ (Position(f) >= 0 => w.f.off = Position(f))
<1>1. PICK o \in Flushed(f) : w = [f |-> Synced(o.f), lost |-> o.lost]
  BY DEF CloseFile
<1>2. /\ FileOK(o.f) /\ Held(o.f) = <<>> /\ SameMode(o.f, f) /\ SameReading(o.f, f) /\ o.lost \in BOOLEAN
      /\ ~ o.lost => SameStreamAs(o.f, f)
  BY FlushedIs
<1>3. PICK e, g : e = o.f /\ g = Synced(e)
  OBVIOUS
<1>4. FileOK(e) /\ Held(e) = <<>> /\ SameMode(e, f) /\ SameReading(e, f) /\ (~o.lost => SameStreamAs(e, f))
  BY <1>2, <1>3
<1>5. /\ FileOK(g) /\ Held(g) = <<>> /\ SameMode(g, e) /\ SameReading(g, e) /\ View(g) = View(e)
      /\ g.off = IF Position(e) < 0 THEN e.off ELSE Position(e)
  BY <1>3, <1>4, SyncedIs
<1>6. w.f = g /\ w.lost = o.lost
  BY <1>1, <1>3
<1>7. SameMode(g, f) /\ (f.rpos = f.rend => g.rpos = g.rend)
  BY <1>4, <1>5 DEF SameMode, SameReading
<1>8. ASSUME ~o.lost PROVE View(g) = View(f) /\ (Position(f) >= 0 => g.off = Position(f))
  <2>1. PICK p \in Int : p = Position(f)
    BY ViewIs
  <2>2. p >= 0 => ~(p < 0)
    OBVIOUS
  <2> QED BY <1>4, <1>5, <1>8, <2>1, <2>2 DEF SameStreamAs
<1> QED BY <1>2, <1>5, <1>6, <1>7, <1>8

-----------------------------------------------------------------------------
\* Where fseek goes, from the position of the stream
Target(f, o, whence) ==
  o + CASE whence = "SEEK_SET" -> 0
        [] whence = "SEEK_CUR" -> Position(f)
        [] whence = "SEEK_END" -> Len(View(f))

\* The host is asked for the same place, although it has read ahead.
LEMMA SeekOffsetIs ==
  ASSUME NEW f, FileOK(f), NEW h, FileOK(h), Held(h) = <<>>, SameReading(h, f), SameStreamAs(h, f),
         NEW o \in Int, NEW whence \in Whences
  PROVE  /\ Target(f, o, whence) \in Int
         /\ HostSeek(h, SeekOffset(f, o, whence), whence) =
              IF Target(f, o, whence) < 0 THEN [f |-> h, ok |-> FALSE]
              ELSE [f |-> [h EXCEPT !.off = Target(f, o, whence)], ok |-> TRUE]
<1>1. h \in FILES /\ h.off \in Nat /\ h.rend \in Nat /\ h.rpos \in Nat /\ h.data \in Seq(Nat) /\ Pointers(h)
  BY DEF FileOK, FILES
<1>2. /\ Position(f) = h.off - (h.rend - h.rpos) /\ View(f) = h.data
      /\ f.rend = h.rend /\ f.rpos = h.rpos
  BY ViewIs DEF SameStreamAs, SameReading
<1>3. PICK off \in Nat, rend \in Nat, rpos \in Nat, len \in Nat, pos \in Int :
        /\ off = h.off /\ rend = h.rend /\ rpos = h.rpos /\ len = Len(h.data) /\ pos = Position(f)
        /\ pos = off - (rend - rpos)
        /\ rend = NIL => rpos = NIL
  <2>1. h.rend = NIL => h.rpos = NIL
    BY <1>1 DEF Pointers, NIL
  <2>2. Len(h.data) \in Nat /\ h.off - (h.rend - h.rpos) \in Int
    BY <1>1, LenProperties
  <2> QED BY <1>1, <1>2, <2>1, <2>2
<1>4. PICK so : so = SeekOffset(f, o, whence)
  OBVIOUS
<1>5. CASE whence = "SEEK_SET"
  <2>1. Target(f, o, whence) = o
    BY <1>5 DEF Target
  <2>2. so = o
    BY <1>4, <1>5 DEF SeekOffset
  <2>3. so + 0 = o
    BY <2>2
  <2> QED BY <1>4, <1>5, <2>1, <2>3 DEF HostSeek
<1>6. CASE whence = "SEEK_CUR"
  <2>1. Target(f, o, whence) = o + pos
    BY <1>3, <1>6 DEF Target
  <2>2. so = IF rend # NIL THEN o - (rend - rpos) ELSE o
    BY <1>2, <1>3, <1>4, <1>6 DEF SeekOffset
  <2>3. so + off = o + pos /\ o + pos \in Int
    <3>1. pos = off - (rend - rpos) /\ (rend = NIL => rpos = NIL)
      BY <1>3
    <3> QED BY <2>2, <3>1 DEF NIL
  <2>4. so + h.off = Target(f, o, whence)
    BY <1>3, <2>1, <2>3
  <2> QED BY <1>4, <1>6, <2>1, <2>3, <2>4 DEF HostSeek
<1>7. CASE whence = "SEEK_END"
  <2>1. Target(f, o, whence) = o + len
    BY <1>2, <1>3, <1>7 DEF Target
  <2>2. so = o
    BY <1>4, <1>7 DEF SeekOffset
  <2>3. so + Len(h.data) = Target(f, o, whence) /\ o + len \in Int
    BY <1>3, <2>1, <2>2
  <2> QED BY <1>4, <1>7, <2>1, <2>3 DEF HostSeek
<1> QED BY <1>5, <1>6, <1>7 DEF Whences

LEMMA FseekoIs ==
  ASSUME NEW f, FileOK(f), NEW o \in Int, NEW whence \in Whences, NEW s \in Fseeko(f, o, whence)
  PROVE  /\ FileOK(s.f) /\ Held(s.f) = <<>> /\ SameMode(s.f, f)
         /\ s.lost \in BOOLEAN /\ s.failed \in BOOLEAN
         /\ ~s.failed => s.f.rpos = s.f.rend
         /\ f.rpos = f.rend => s.f.rpos = s.f.rend
         /\ s.lost => s.failed /\ s.f.err /\ s.f.rpos = s.f.rend
         /\ ~s.lost =>
              /\ Target(f, o, whence) \in Int
              /\ View(s.f) = View(f)
              /\ IF Target(f, o, whence) < 0 THEN s.failed /\ SameStreamAs(s.f, f)
                 ELSE /\ ~s.failed /\ Position(s.f) = Target(f, o, whence)
                      /\ InputOf(s.f) = Beyond(View(f), Target(f, o, whence))
<1>1. PICK w \in Flushed(f) :
        s = IF w.lost THEN [f |-> w.f, failed |-> TRUE, lost |-> TRUE]
            ELSE LET r == HostSeek(NotWriting(w.f), SeekOffset(f, o, whence), whence) IN
                 IF r.ok THEN [f |-> [NotReading(r.f) EXCEPT !.eof = FALSE], failed |-> FALSE, lost |-> FALSE]
                 ELSE [f |-> r.f, failed |-> TRUE, lost |-> FALSE]
  BY DEF Fseeko
<1>2. /\ FileOK(w.f) /\ Held(w.f) = <<>> /\ SameMode(w.f, f) /\ SameReading(w.f, f) /\ w.lost \in BOOLEAN
      /\ ~ w.lost => SameStreamAs(w.f, f)
      /\ w.lost => w.f.err /\ w.f.rpos = NIL /\ w.f.rend = NIL
  BY FlushedIs
<1>3. CASE w.lost
  <2>1. s.f = w.f /\ s.failed = TRUE /\ s.lost = TRUE
    BY <1>1, <1>3
  <2> QED BY <1>2, <1>3, <2>1
<1>4. CASE ~w.lost
  <2>1. PICK h : h = NotWriting(w.f)
    OBVIOUS
  <2>2. /\ FileOK(h) /\ Held(h) = <<>> /\ SameMode(h, w.f) /\ SameReading(h, w.f) /\ SameStreamAs(h, w.f)
        /\ h.wbase = NIL /\ h.wpos = NIL /\ h.wend = NIL
    BY <1>2, <2>1, NotWritingIs
  <2>3. SameMode(h, f) /\ SameReading(h, f) /\ SameStreamAs(h, f)
    BY <1>2, <1>4, <2>2 DEF SameMode, SameReading, SameStreamAs
  <2>4. PICK to : to = Target(f, o, whence)
    OBVIOUS
  <2>5. /\ to \in Int
        /\ HostSeek(h, SeekOffset(f, o, whence), whence) =
              IF to < 0 THEN [f |-> h, ok |-> FALSE] ELSE [f |-> [h EXCEPT !.off = to], ok |-> TRUE]
    BY <2>2, <2>3, <2>4, SeekOffsetIs
  <2>6. PICK r : r = HostSeek(h, SeekOffset(f, o, whence), whence)
    OBVIOUS
  <2>7. s = IF r.ok THEN [f |-> [NotReading(r.f) EXCEPT !.eof = FALSE], failed |-> FALSE, lost |-> FALSE]
            ELSE [f |-> r.f, failed |-> TRUE, lost |-> FALSE]
    BY <1>1, <1>4, <2>1, <2>6
  <2>8. CASE to < 0
    <3>1. r.f = h /\ r.ok = FALSE
      BY <2>5, <2>6, <2>8
    <3>2. s.f = h /\ s.failed = TRUE /\ s.lost = FALSE
      BY <2>7, <3>1
    <3>3. View(h) = View(f) /\ (f.rpos = f.rend => h.rpos = h.rend)
      BY <2>3 DEF SameStreamAs, SameReading
    <3> QED BY <2>2, <2>3, <2>4, <2>5, <2>8, <3>2, <3>3
  <2>9. CASE ~(to < 0)
    <3>1. r.f = [h EXCEPT !.off = to] /\ r.ok = TRUE
      BY <2>5, <2>6, <2>9
    <3>2. PICK k : k = [h EXCEPT !.off = to]
      OBVIOUS
    <3>3. PICK g : g = [NotReading(k) EXCEPT !.eof = FALSE]
      OBVIOUS
    <3>4. s.f = g /\ s.failed = FALSE /\ s.lost = FALSE
      BY <2>7, <3>1, <3>2, <3>3
    <3>5. to \in Nat /\ h \in FILES
      BY <2>2, <2>5, <2>9 DEF FileOK
    <3>6. /\ k \in FILES /\ SameMode(k, h) /\ SameWriting(k, h) /\ k.data = h.data /\ k.off = to
      BY <3>2, <3>5 DEF FILES, SameMode, SameWriting
    <3>7. /\ g \in FILES /\ SameMode(g, k) /\ SameWriting(g, k) /\ g.data = k.data /\ g.off = k.off
          /\ g.rpos = NIL /\ g.rend = NIL /\ g.eof = FALSE
      BY <3>3, <3>6 DEF NotReading, FILES, SameMode, SameWriting, NIL
    <3>8. /\ SameMode(g, f) /\ g.size = h.size /\ g.wbase = NIL /\ g.wpos = NIL /\ g.wend = NIL
          /\ g.data = h.data /\ g.off = to
      BY <2>2, <2>3, <3>6, <3>7 DEF SameMode, SameWriting
    <3>9. EndOfFile(g)
      BY <3>7 DEF EndOfFile
    <3>10. FileOK(g) /\ Held(g) = <<>>
      BY <2>2, <3>7, <3>8, <3>9, ReadyIsOK
    <3>11. /\ View(g) = g.data /\ Position(g) = g.off - (g.rend - g.rpos)
           /\ InputOf(g) = Unread(g) \o Beyond(g.data, g.off)
      BY <3>10, ViewIs
    <3>12. View(h) = h.data /\ View(h) = View(f)
      BY <2>2, <2>3, ViewIs DEF SameStreamAs
    <3>13. Position(g) = to
      BY <3>5, <3>7, <3>8, <3>11 DEF NIL
    <3>14. InputOf(g) = Beyond(View(f), to)
      <4>1. Unread(g) = <<>>
        BY <3>7, <3>10, UnreadIs
      <4>2. PICK y \in Seq(Nat) : y = Beyond(h.data, to)
        BY <3>5, BeyondIs DEF FILES
      <4>3. <<>> \o y = y
        BY ConcatEmptySeq
      <4> QED BY <3>8, <3>11, <3>12, <4>1, <4>2, <4>3
    <3>15. View(g) = View(f)
      BY <3>8, <3>11, <3>12
    <3> QED BY <2>4, <2>5, <2>9, <3>4, <3>7, <3>8, <3>10, <3>13, <3>14, <3>15
  <2> QED BY <2>8, <2>9
<1> QED BY <1>2, <1>3, <1>4

-----------------------------------------------------------------------------
LEMMA FtelloIs ==
  ASSUME NEW f, FileOK(f)
  PROVE  LET s == Ftello(f) IN
         /\ FileOK(s.f) /\ SameMode(s.f, f) /\ SameReading(s.f, f) /\ SameStreamAs(s.f, f)
         /\ s.n = Position(f)
<1>1. /\ f \in FILES /\ Pointers(f) /\ EndOfFile(f) /\ LinesWritten(f)
      /\ f.rpos \in Nat /\ f.rend \in Nat /\ f.off \in Nat /\ f.wpos \in Nat /\ f.wbase \in Nat
      /\ f.data \in Seq(Nat) /\ Len(f.data) \in Nat /\ f.app \in BOOLEAN
  BY AtIs DEF FileOK, FILES
<1>2. PICK s : s = Ftello(f)
  OBVIOUS
<1>3. CASE f.app /\ f.wpos # f.wbase
  <2>1. PICK len \in Nat : len = Len(f.data)
    BY <1>1
  <2>2. 0 + len = len /\ ~(len < 0)
    OBVIOUS
  <2>3. PICK g : g = [f EXCEPT !.off = len]
    OBVIOUS
  <2>4. HostSeek(f, 0, "SEEK_END") = [f |-> g, ok |-> TRUE]
    BY <2>1, <2>2, <2>3 DEF HostSeek
  <2>5. s.f = g /\ s.n = g.off + (IF f.rend # NIL THEN f.rpos - f.rend ELSE IF f.wbase # NIL THEN f.wpos - f.wbase ELSE 0)
    BY <1>2, <1>3, <2>4 DEF Ftello
  <2>6. /\ g \in FILES /\ SameMode(g, f) /\ SameReading(g, f) /\ SameWriting(g, f)
        /\ g.eof = f.eof /\ g.data = f.data /\ g.mem = f.mem /\ g.off = len
    BY <1>1, <2>3 DEF FILES, SameMode, SameReading, SameWriting
  <2>7. f.wbase = Buf /\ f.rend = NIL /\ f.wbase # NIL
    BY <1>1, <1>3, BufIs DEF Pointers, NIL
  <2>8. g.off >= Len(g.data)
    BY <2>1, <2>6
  <2>9. EndOfFile(g)
    BY <1>1, <2>6, <2>8 DEF EndOfFile, SameReading
  <2>10. Pointers(g)
    BY <1>1, <2>6 DEF Pointers, SameMode, SameReading, SameWriting
  <2>11. Held(g) = Held(f)
    BY <2>6 DEF Held, SameWriting
  <2>12. LinesWritten(g)
    BY <1>1, <2>6, <2>11 DEF LinesWritten, SameMode, SameWriting
  <2>13. FileOK(g)
    BY <2>6, <2>9, <2>10, <2>12 DEF FileOK
  <2>14. Position(g) = Position(f)
    BY <1>3, <2>6 DEF Position, SameWriting, SameMode
  <2>15. View(g) = View(f)
    <3>1. At(g) = At(f)
      BY <1>3, <2>6 DEF At, SameMode
    <3>2. View(g) = Overlay(g.data, At(g), Held(g)) /\ View(f) = Overlay(f.data, At(f), Held(f))
      BY <2>13, ViewIs
    <3> QED BY <2>6, <2>11, <3>1, <3>2
  <2>16. g.wend # NIL /\ f.wend # NIL
    <3>1. f.wend # NIL
      BY <1>1, <2>7 DEF Pointers, NIL
    <3> QED BY <2>6, <3>1 DEF SameWriting
  <2>17. InputOf(g) = InputOf(f)
    BY <2>14, <2>15, <2>16 DEF InputOf
  <2>18. s.n = Position(f)
    BY <1>3, <2>1, <2>5, <2>6, <2>7 DEF Position
  <2> QED BY <1>2, <2>5, <2>6, <2>13, <2>14, <2>15, <2>17, <2>18 DEF SameStreamAs
<1>4. CASE ~(f.app /\ f.wpos # f.wbase)
  <2>1. PICK off \in Nat : off = f.off
    BY <1>1
  <2>2. 0 + off = off /\ ~(off < 0)
    OBVIOUS
  <2>3. [f EXCEPT !.off = off] = f
    BY <1>1, <2>1 DEF FILES
  <2>4. HostSeek(f, 0, "SEEK_CUR") = [f |-> f, ok |-> TRUE]
    BY <2>1, <2>2, <2>3 DEF HostSeek
  <2>5. s.f = f /\ s.n = f.off + (IF f.rend # NIL THEN f.rpos - f.rend ELSE IF f.wbase # NIL THEN f.wpos - f.wbase ELSE 0)
    BY <1>2, <1>4, <2>4 DEF Ftello
  <2>6. s.n = Position(f)
    <3>1. CASE f.wpos # f.wbase
      <4>1. f.rend = NIL /\ f.wbase # NIL /\ ~f.app
        BY <1>1, <1>4, <3>1, BufIs DEF Pointers, NIL
      <4> QED BY <2>5, <3>1, <4>1 DEF Position
    <3>2. CASE f.wpos = f.wbase
      <4>1. f.rend = NIL => f.rpos = NIL
        BY <1>1 DEF Pointers, NIL
      <4>2. Position(f) = f.off - (f.rend - f.rpos)
        BY <3>2 DEF Position
      <4>3. f.wpos - f.wbase = 0
        BY <1>1, <3>2
      <4>4. PICK rend \in Nat, rpos \in Nat : rend = f.rend /\ rpos = f.rpos
        BY <1>1
      <4>5. off + (rpos - rend) = off - (rend - rpos) /\ off + 0 = off
        OBVIOUS
      <4>6. f.rend = NIL => off - (rend - rpos) = off
        BY <4>1, <4>4 DEF NIL
      <4> QED BY <2>1, <2>5, <4>2, <4>3, <4>4, <4>5, <4>6
    <3> QED BY <3>1, <3>2
  <2> QED BY <1>2, <2>5, <2>6 DEF SameMode, SameReading, SameStreamAs
<1> QED BY <1>3, <1>4

LEMMA ClearerrIs ==
  ASSUME NEW f, FileOK(f)
  PROVE  LET g == [f EXCEPT !.eof = FALSE, !.err = FALSE] IN
         FileOK(g) /\ SameReading(g, f) /\ SameStreamAs(g, f)
<1>1. f \in FILES /\ Pointers(f) /\ LinesWritten(f)
  BY DEF FileOK
<1>2. PICK g : g = [f EXCEPT !.eof = FALSE, !.err = FALSE]
  OBVIOUS
<1>3. /\ g \in FILES /\ SameMode(g, f) /\ SameReading(g, f) /\ SameWriting(g, f)
      /\ g.eof = FALSE /\ g.off = f.off /\ g.data = f.data /\ g.mem = f.mem
  BY <1>1, <1>2 DEF FILES, SameMode, SameReading, SameWriting
<1>4. Pointers(g) /\ EndOfFile(g)
  BY <1>1, <1>3 DEF Pointers, EndOfFile, SameMode, SameReading, SameWriting
<1>5. Held(g) = Held(f)
  BY <1>3 DEF Held, SameWriting
<1>6. LinesWritten(g)
  BY <1>1, <1>3, <1>5 DEF LinesWritten, SameMode, SameWriting
<1>7. FileOK(g)
  BY <1>3, <1>4, <1>6 DEF FileOK
<1> QED BY <1>2, <1>3, <1>7, SameBuffer DEF SameMode

\* setvbuf: nothing is buffered yet.
LEMMA SetvbufIs ==
  ASSUME NEW f, FileOK(f), f.wend = NIL, f.rend = NIL,
         NEW type \in {"_IONBF", "_IOLBF", "_IOFBF"}, NEW size \in VbufSizes \cup {BUFSIZ}
  PROVE  LET g == CASE type = "_IONBF" -> [f EXCEPT !.size = 0, !.line = FALSE]
                    [] type = "_IOFBF" -> [f EXCEPT !.size = size, !.line = FALSE]
                    [] type = "_IOLBF" -> [f EXCEPT !.size = size, !.line = size # 0]
         IN FileOK(g) /\ SameReading(g, f) /\ SameStreamAs(g, f)
<1>1. f \in FILES /\ Pointers(f) /\ EndOfFile(f) /\ f.wpos \in Nat /\ f.wbase \in Nat
  BY DEF FileOK, FILES
<1>2. f.rpos = NIL /\ f.wbase = NIL /\ f.wpos = NIL
  <2>1. f.rpos = NIL
    BY <1>1 DEF Pointers, FILES, NIL
  <2>2. ~(f.wend = Buf + f.size)
    <3>1. PICK z \in Nat, buf \in Nat : z = f.size /\ buf = Buf /\ buf >= 1
      BY <1>1, BufIs DEF FILES
    <3>2. buf + z # 0
      BY <3>1
    <3> QED BY <3>1, <3>2 DEF NIL
  <2> QED BY <1>1, <2>1, <2>2 DEF Pointers
<1>3. size \in Nat /\ UNGET + size <= UNGET + Max({BUFSIZ} \cup VbufSizes)
      /\ UNGET + 0 <= UNGET + Max({BUFSIZ} \cup VbufSizes)
  <2>1. size \in Nat
    BY StreamAssumption
  <2>2. PICK r \in Nat, u \in Nat : r = UNGET + Max({BUFSIZ} \cup VbufSizes) /\ u = UNGET
    BY RoomIs, BufIs
  <2>3. UNGET + size <= UNGET + Max({BUFSIZ} \cup VbufSizes)
    BY RoomIs
  <2>4. u + 0 <= u + size /\ u + size <= r => u + 0 <= r
    BY <2>1
  <2>5. u + size <= r
    BY <2>2, <2>3
  <2>6. u + 0 <= u + size
    BY <2>1
  <2> QED BY <2>1, <2>2, <2>3, <2>4, <2>5, <2>6
<1>11. PICK g : g = CASE type = "_IONBF" -> [f EXCEPT !.size = 0, !.line = FALSE]
                      [] type = "_IOFBF" -> [f EXCEPT !.size = size, !.line = FALSE]
                      [] type = "_IOLBF" -> [f EXCEPT !.size = size, !.line = size # 0]
  OBVIOUS
<1>4. PICK z \in Nat, l \in BOOLEAN :
        g = [f EXCEPT !.size = z, !.line = l] /\ UNGET + z <= UNGET + Max({BUFSIZ} \cup VbufSizes)
  <2>1. CASE type = "_IONBF"
    <3>1. g = [f EXCEPT !.size = 0, !.line = FALSE]
      BY <1>11, <2>1
    <3> QED BY <1>3, <3>1
  <2>2. CASE type = "_IOFBF"
    <3>1. g = [f EXCEPT !.size = size, !.line = FALSE]
      BY <1>11, <2>2
    <3> QED BY <1>3, <3>1
  <2>3. CASE type = "_IOLBF"
    <3>1. (size # 0) \in BOOLEAN
      OBVIOUS
    <3>2. PICK l \in BOOLEAN : l = (size # 0)
      BY <3>1
    <3>3. g = [f EXCEPT !.size = size, !.line = l]
      BY <1>11, <2>3, <3>2
    <3> QED BY <1>3, <3>3
  <2> QED BY <2>1, <2>2, <2>3
<1>5. /\ g \in FILES /\ SameReading(g, f) /\ SameWriting(g, f) /\ g.size = z
      /\ g.eof = f.eof /\ g.off = f.off /\ g.data = f.data /\ g.mem = f.mem /\ g.app = f.app
  BY <1>1, <1>4 DEF FILES, SameReading, SameWriting
<1>6. EndOfFile(g)
  BY <1>1, <1>5 DEF EndOfFile, SameReading
<1>7. Pointers(g)
  BY <1>2, <1>4, <1>5 DEF Pointers, SameReading, SameWriting
<1>8. LinesWritten(g)
  BY <1>2, <1>5 DEF LinesWritten, SameWriting, NIL
<1>9. FileOK(g)
  BY <1>5, <1>6, <1>7, <1>8 DEF FileOK
<1>10. SameStreamAs(g, f)
  BY <1>5, <1>9, SameBuffer
<1> QED BY <1>5, <1>9, <1>10, <1>11

-----------------------------------------------------------------------------
(***************************************************************************)
(* 8  The refinement                                                       *)
(***************************************************************************)
\* The state of the abstract stream
StreamInput == IF fp.wend # NIL THEN Beyond(FileView, Position(fp)) ELSE Unread(fp) \o Beyond(fp.data, fp.off)

LEMMA AbstractStateIs ==
  /\ FileView = View(fp) /\ StreamInput = InputOf(fp)
BY DEF FileView, View, StreamInput, InputOf

LEMMA NextAbstractStateIs ==
  /\ FileView' = View(fp') /\ StreamInput' = InputOf(fp')
  /\ Position(fp)' = Position(fp') /\ Held(fp)' = Held(fp')
<1>1. FileView' = View(fp')
  BY DEF FileView, View, HostWrite, Held
<1>2. Position(fp)' = Position(fp')
  BY DEF Position
<1>3. Held(fp)' = Held(fp')
  BY DEF Held
<1>4. Beyond(FileView, Position(fp))' = Beyond(View(fp'), Position(fp'))
  BY <1>1, <1>2 DEF Beyond
<1>5. (Unread(fp) \o Beyond(fp.data, fp.off))' = Unread(fp') \o Beyond(fp'.data, fp'.off)
  BY DEF Unread, Beyond
<1>6. StreamInput' = InputOf(fp')
  BY <1>4, <1>5 DEF StreamInput, InputOf
<1> QED BY <1>1, <1>2, <1>3, <1>6

LEMMA SameStreamIs ==
  ASSUME SameStreamAs(fp', fp)
  PROVE  /\ FileView' = FileView /\ Position(fp)' = Position(fp) /\ StreamInput' = StreamInput
         /\ Stream!SameStream
<1>1. SameStreamAs(fp', fp)
  OBVIOUS
<1>2. FileView' = FileView /\ Position(fp)' = Position(fp) /\ StreamInput' = StreamInput
  BY <1>1, AbstractStateIs, NextAbstractStateIs DEF SameStreamAs
<1> QED BY <1>2 DEF Stream!SameStream, StreamInput

\* When a step is a StreamRead; the lemmas after it are the same for the other
\* actions of the abstract stream.
LEMMA StreamReadIs ==
  ASSUME fcall'.op = "read", ~fcall'.lost, Reads(fp, fp', fcall'.got, fcall'.n)
  PROVE  Stream!Read
<1>1. Reads(fp, fp', fcall'.got, fcall'.n)
  OBVIOUS
<1>2. PICK k : k = Len(fcall'.got)
  OBVIOUS
<1>3. /\ fcall'.got = Prefix(StreamInput, k)
      /\ StreamInput' = Beyond(StreamInput, k)
      /\ Position(fp)' = Position(fp) + k
      /\ FileView' = FileView
      /\ k < fcall'.n => fp'.err \/ StreamInput' = <<>>
  BY <1>1, <1>2, AbstractStateIs, NextAbstractStateIs DEF Reads
<1> QED BY <1>2, <1>3 DEF Stream!Read, Stream!Prefix, Stream!Rest, Prefix, Beyond, StreamInput

LEMMA StreamUngetIs ==
  ASSUME fcall'.op = "unget", ~fcall'.lost,
         fcall'.failed => SameStreamAs(fp', fp),
         ~fcall'.failed => /\ View(fp') = View(fp) /\ Position(fp') = Position(fp) - 1
                           /\ InputOf(fp') = fcall'.bytes \o InputOf(fp)
  PROVE  Stream!Unget
<1>1. CASE fcall'.failed
  BY <1>1, SameStreamIs DEF Stream!Unget
<1>2. CASE ~fcall'.failed
  <2>1. /\ StreamInput' = fcall'.bytes \o StreamInput
        /\ Position(fp)' = Position(fp) - 1
        /\ FileView' = FileView
    BY <1>2, AbstractStateIs, NextAbstractStateIs
  <2> QED BY <1>2, <2>1 DEF Stream!Unget, StreamInput
<1> QED BY <1>1, <1>2

\* What the buffering mode says of the bytes that are held back
LEMMA BufferingIs ==
  ASSUME NEW f, FileOK(f)
  PROVE  /\ f.size = 0 => Held(f) = <<>>
         /\ f.line => \A i \in DOMAIN Held(f) : Held(f)[i] # NL
<1>1. /\ f \in FILES /\ Pointers(f) /\ LinesWritten(f)
      /\ f.wpos \in Nat /\ f.wbase \in Nat /\ f.wend \in Nat /\ f.size \in Nat
  BY DEF FileOK, FILES
<1>2. ASSUME f.size = 0 PROVE Held(f) = <<>>
  <2>1. f.wpos = f.wbase
    BY <1>1, <1>2, BufIs DEF Pointers
  <2> QED BY <2>1, HeldIs
<1>3. ASSUME f.line PROVE \A i \in DOMAIN Held(f) : Held(f)[i] # NL
  <2>1. DOMAIN Held(f) = 1 .. f.wpos - f.wbase
    BY DEF Held
  <2> QED BY <1>1, <1>3, <2>1 DEF LinesWritten
<1> QED BY <1>2, <1>3

LEMMA StreamWriteIs ==
  ASSUME fcall'.op = "write", ~fcall'.lost, FileOK(fp'), SameMode(fp', fp), fcall'.bytes # <<>>,
         fcall'.failed => fp'.err /\ SameStreamAs(fp', fp),
         ~fcall'.failed => Wrote(fp, fp', fcall'.bytes)
  PROVE  Stream!Write
<1>1. CASE fcall'.failed
  BY <1>1, SameStreamIs DEF Stream!Write
<1>2. CASE ~fcall'.failed
  <2>1. PICK at : at = IF fp.app THEN Len(FileView) ELSE Position(fp)
    OBVIOUS
  <2>2. Wrote(fp, fp', fcall'.bytes)
    BY <1>2
  <2>3. /\ FileView' = Overlay(FileView, at, fcall'.bytes)
        /\ Position(fp)' = at + Len(fcall'.bytes)
        /\ StreamInput' = Beyond(FileView', Position(fp)')
    BY <2>1, <2>2, AbstractStateIs, NextAbstractStateIs DEF Wrote
  <2>4. /\ fp'.size = 0 => Held(fp)' = <<>>
        /\ fp'.line => \A i \in DOMAIN Held(fp)' : Held(fp)'[i] # NL
    BY BufferingIs, NextAbstractStateIs
  <2>5. /\ fp.size = 0 => Held(fp)' = <<>>
        /\ fp.line => \A i \in DOMAIN Held(fp)' : Held(fp)'[i] # NL
    BY <2>4 DEF SameMode
  <2>6. PICK mode : mode = IF fp.size = 0 THEN "none" ELSE IF fp.line THEN "line" ELSE "full"
    OBVIOUS
  <2>7. /\ mode = "none" => Held(fp)' = <<>>
        /\ mode = "line" => \A i \in DOMAIN Held(fp)' : Held(fp)'[i] # NL
    BY <2>5, <2>6
  <2> QED BY <1>2, <2>1, <2>3, <2>6, <2>7
          DEF Stream!Write, Stream!Rest, Overlay, Beyond, StreamInput, Stream!NL, NL
<1> QED BY <1>1, <1>2

LEMMA StreamSeekIs ==
  ASSUME fcall'.op \in {"seek", "rewind"}, ~fcall'.lost, Held(fp') = <<>>, View(fp') = View(fp),
         LET to == Target(fp, fcall'.n, fcall'.whence) IN
         IF to < 0 THEN fcall'.failed /\ SameStreamAs(fp', fp)
         ELSE ~fcall'.failed /\ Position(fp') = to /\ InputOf(fp') = Beyond(View(fp), to)
  PROVE  Stream!Seek
<1>1. PICK to : to = Target(fp, fcall'.n, fcall'.whence)
  OBVIOUS
<1>2. to = fcall'.n + CASE fcall'.whence = "SEEK_SET" -> 0
                        [] fcall'.whence = "SEEK_CUR" -> Position(fp)
                        [] fcall'.whence = "SEEK_END" -> Len(FileView)
  BY <1>1, AbstractStateIs DEF Target
<1>3. FileView' = FileView /\ Held(fp)' = <<>>
  BY AbstractStateIs, NextAbstractStateIs
<1>4. CASE to < 0
  <2>1. fcall'.failed /\ Stream!SameStream
    BY <1>1, <1>4, SameStreamIs
  <2> QED BY <1>2, <1>3, <1>4, <2>1 DEF Stream!Seek
<1>5. CASE ~(to < 0)
  <2>1. ~fcall'.failed /\ Position(fp)' = to /\ StreamInput' = Beyond(FileView, to)
    BY <1>1, <1>5, AbstractStateIs, NextAbstractStateIs
  <2> QED BY <1>2, <1>3, <1>5, <2>1 DEF Stream!Seek, Stream!Rest, Beyond, StreamInput
<1> QED BY <1>4, <1>5

LEMMA StreamFlushIs ==
  ASSUME fcall'.op = "flush", ~fcall'.lost, ~fcall'.failed, Held(fp') = <<>>, View(fp') = View(fp),
         Position(fp) >= 0 => /\ Position(fp') = Position(fp) /\ fp'.off = Position(fp)
                              /\ InputOf(fp') = Beyond(View(fp), Position(fp))
  PROVE  Stream!Flush
<1>1. FileView' = FileView /\ Held(fp)' = <<>>
  BY AbstractStateIs, NextAbstractStateIs
<1>2. Position(fp) >= 0 => /\ Position(fp)' = Position(fp) /\ fp'.off = Position(fp)
                           /\ StreamInput' = Beyond(FileView, Position(fp))
  BY AbstractStateIs, NextAbstractStateIs
<1> QED BY <1>1, <1>2 DEF Stream!Flush, Stream!Rest, Beyond, StreamInput

LEMMA StreamCloseIs ==
  ASSUME fcall'.op \in {"close", "exit"}, ~fcall'.lost, Held(fp') = <<>>, View(fp') = View(fp),
         Position(fp) >= 0 => fp'.off = Position(fp)
  PROVE  Stream!Close
<1>1. FileView' = FileView /\ Held(fp)' = <<>>
  BY AbstractStateIs, NextAbstractStateIs
<1> QED BY <1>1 DEF Stream!Close

LEMMA StreamLoseIs ==
  ASSUME fcall'.lost, Held(fp') = <<>>, fcall'.failed \/ fp'.err \/ fcall'.op \in {"rewind", "exit"}
  PROVE  Stream!Lose
<1>1. Held(fp)' = <<>>
  BY NextAbstractStateIs
<1> QED BY <1>1 DEF Stream!Lose

-----------------------------------------------------------------------------
(***************************************************************************)
(* The inductive invariant: a FILE is as FileOK says, nothing that was     *)
(* read ahead is left where the program may write, and nothing is buffered *)
(* before the first call, where setvbuf may still replace the buffer.      *)
(***************************************************************************)
StreamInv ==
  /\ FileOK(fp)
  /\ dir = "any" => fp.rpos = fp.rend
  /\ fcall = NoStreamCall => fp.wend = NIL /\ fp.rend = NIL

LEMMA StreamInit == StdioInit => StreamInv /\ Position(fp) = 0 /\ StreamInput = FileView /\ Held(fp) = <<>>
<1> SUFFICES ASSUME StdioInit
             PROVE  StreamInv /\ Position(fp) = 0 /\ StreamInput = FileView /\ Held(fp) = <<>>
  OBVIOUS
<1>1. PICK room \in Nat : room = UNGET + Max({BUFSIZ} \cup VbufSizes)
  BY RoomIs
<1>2. PICK mode \in StreamModes, data \in FileContents, tty \in BOOLEAN :
        fp = [rpos |-> NIL, rend |-> NIL, wbase |-> NIL, wpos |-> NIL, wend |-> NIL,
              mem |-> [a \in 1 .. room |-> 0],
              size |-> BUFSIZ, line |-> tty, eof |-> FALSE, err |-> FALSE,
              nord |-> ~CanRead(mode), nowr |-> ~CanWrite(mode),
              app |-> mode \in {"a", "a+"}, data |-> data, off |-> 0]
  BY <1>1 DEF StdioInit
<1>3. PICK nord \in BOOLEAN, nowr \in BOOLEAN, app \in BOOLEAN, mem \in [1 .. room -> Nat] :
        /\ nord = ~CanRead(mode) /\ nowr = ~CanWrite(mode) /\ app = (mode \in {"a", "a+"})
        /\ mem = [a \in 1 .. room |-> 0]
  <2>1. CanRead(mode) \in BOOLEAN /\ CanWrite(mode) \in BOOLEAN
    BY DEF CanRead, CanWrite
  <2>2. (~CanRead(mode)) \in BOOLEAN /\ (~CanWrite(mode)) \in BOOLEAN /\ (mode \in {"a", "a+"}) \in BOOLEAN
    BY <2>1
  <2>3. [a \in 1 .. room |-> 0] \in [1 .. room -> Nat]
    OBVIOUS
  <2> QED BY <2>2, <2>3
<1>4. PICK f : f = [rpos |-> NIL, rend |-> NIL, wbase |-> NIL, wpos |-> NIL, wend |-> NIL, mem |-> mem,
                    size |-> BUFSIZ, line |-> tty, eof |-> FALSE, err |-> FALSE,
                    nord |-> nord, nowr |-> nowr, app |-> app, data |-> data, off |-> 0]
  OBVIOUS
<1>5. fp = f
  BY <1>2, <1>3, <1>4
<1>6. data \in Seq(Nat) /\ BUFSIZ \in Nat
  BY StreamAssumption
<1>7. /\ f \in FILES /\ f.rpos = NIL /\ f.rend = NIL /\ f.wbase = NIL /\ f.wpos = NIL /\ f.wend = NIL
      /\ f.eof = FALSE /\ f.size = BUFSIZ /\ f.data = data /\ f.off = 0
  BY <1>1, <1>4, <1>6 DEF FILES, NIL
<1>8. Pointers(f)
  BY <1>7, RoomIs DEF Pointers
<1>9. EndOfFile(f) /\ LinesWritten(f)
  BY <1>7 DEF EndOfFile, LinesWritten, NIL
<1>10. FileOK(f)
  BY <1>7, <1>8, <1>9 DEF FileOK
<1>11. Held(f) = <<>> /\ Unread(f) = <<>>
  BY <1>7, <1>10, HeldIs, UnreadIs
<1>12. /\ View(f) = data /\ Position(f) = 0 - (NIL - NIL) /\ InputOf(f) = <<>> \o Beyond(data, 0)
  BY <1>7, <1>10, <1>11, ViewIs
<1>13. Position(f) = 0
  BY <1>12 DEF NIL
<1>14. InputOf(f) = data
  <2>1. Beyond(data, 0) = data
    BY <1>6, BeyondZero
  <2>2. <<>> \o data = data
    BY <1>6, ConcatEmptySeq
  <2> QED BY <1>12, <2>1, <2>2
<1>15. StreamInv
  BY <1>5, <1>7, <1>10 DEF StreamInv
<1> QED BY <1>5, <1>11, <1>12, <1>13, <1>14, <1>15, AbstractStateIs

LEMMA ByteIs == \A c \in StreamBytes : c \in Nat
<1>1. \A b \in StreamWrites : b \in Seq(Nat)
  BY StreamAssumption
<1>2. ASSUME NEW b \in Seq(Nat), NEW i \in DOMAIN b PROVE b[i] \in Nat
  BY LenProperties, ElementOfSeq
<1> QED BY <1>1, <1>2 DEF StreamBytes

LEMMA NextInv ==
  ASSUME FileOK(fp'), dir' = "any" => fp'.rpos = fp'.rend, fcall' # NoStreamCall
  PROVE  StreamInv'
BY DEF StreamInv, FileOK, FILES, Pointers, EndOfFile, LinesWritten, Held

\* One lemma per call: the invariant is kept, and the abstract stream makes a step.
LEMMA ReadStep ==
  ASSUME StreamInv, NEW l \in Nat \ {0}, Read(l)
  PROVE  StreamInv' /\ (Stream!Read \/ Stream!Lose)
<1>1. PICK r \in Fread(fp, l) :
        /\ fp' = r.f
        /\ fcall' = [NoStreamCall EXCEPT !.op = "read", !.n = l, !.got = r.got, !.lost = r.lost]
        /\ dir' = IF Len(r.got) < l /\ r.f.eof THEN "any" ELSE "in"
  BY DEF Read
<1>2. /\ FileOK(r.f) /\ Held(r.f) = <<>> /\ SameMode(r.f, fp) /\ r.lost \in BOOLEAN
      /\ r.lost => r.f.err
      /\ ~r.lost => Reads(fp, r.f, r.got, l)
      /\ r.got \in Seq(Nat) /\ (Len(r.got) < l => r.f.rpos = r.f.rend)
  BY FreadIs DEF StreamInv
<1>3. fcall'.op = "read" /\ fcall'.n = l /\ fcall'.got = r.got /\ fcall'.lost = r.lost /\ fcall' # NoStreamCall
  BY <1>1 DEF NoStreamCall
<1>4. StreamInv'
  <2>1. FileOK(fp')
    BY <1>1, <1>2
  <2>2. dir' = "any" => fp'.rpos = fp'.rend
    BY <1>1, <1>2
  <2> QED BY <1>3, <2>1, <2>2, NextInv
<1>5. CASE r.lost
  <2>1. Stream!Lose
    BY <1>1, <1>2, <1>3, <1>5, StreamLoseIs
  <2> QED BY <1>4, <2>1
<1>6. CASE ~r.lost
  <2>1. Reads(fp, fp', fcall'.got, fcall'.n)
    BY <1>1, <1>2, <1>3, <1>6
  <2>2. Stream!Read
    BY <1>3, <1>6, <2>1, StreamReadIs
  <2> QED BY <1>4, <2>2
<1> QED BY <1>5, <1>6

LEMMA UngetStep ==
  ASSUME StreamInv, NEW c \in Nat, UngetByte(c)
  PROVE  StreamInv' /\ (Stream!Unget \/ Stream!Lose)
<1>1. PICK u \in Ungetc(fp, c) :
        /\ fp' = u.f
        /\ fcall' = [NoStreamCall EXCEPT !.op = "unget", !.bytes = <<c>>, !.failed = u.failed, !.lost = u.lost]
  BY DEF UngetByte
<1>2. dir' = "in"
  BY DEF UngetByte
<1>3. /\ FileOK(u.f) /\ Held(u.f) = <<>> /\ SameMode(u.f, fp)
      /\ u.lost \in BOOLEAN /\ u.failed \in BOOLEAN
      /\ u.lost => u.f.err
      /\ ~u.lost /\ u.failed => SameStreamAs(u.f, fp)
      /\ ~u.lost /\ ~u.failed => /\ View(u.f) = View(fp) /\ Position(u.f) = Position(fp) - 1
                                 /\ InputOf(u.f) = <<c>> \o InputOf(fp)
  BY UngetcIs DEF StreamInv
<1>4. /\ fcall'.op = "unget" /\ fcall'.bytes = <<c>> /\ fcall'.failed = u.failed /\ fcall'.lost = u.lost
      /\ fcall' # NoStreamCall
  BY <1>1 DEF NoStreamCall
<1>5. StreamInv'
  <2>1. FileOK(fp') /\ (dir' = "any" => fp'.rpos = fp'.rend)
    BY <1>1, <1>2, <1>3
  <2> QED BY <1>4, <2>1, NextInv
<1>6. CASE u.lost
  <2>1. Stream!Lose
    BY <1>1, <1>3, <1>4, <1>6, StreamLoseIs
  <2> QED BY <1>5, <2>1
<1>7. CASE ~u.lost
  <2>1. /\ fcall'.failed => SameStreamAs(fp', fp)
        /\ ~fcall'.failed => /\ View(fp') = View(fp) /\ Position(fp') = Position(fp) - 1
                             /\ InputOf(fp') = fcall'.bytes \o InputOf(fp)
    BY <1>1, <1>3, <1>4, <1>7
  <2>2. Stream!Unget
    BY <1>4, <1>7, <2>1, StreamUngetIs
  <2> QED BY <1>5, <2>2
<1> QED BY <1>6, <1>7

LEMMA WriteStep ==
  ASSUME StreamInv, NEW b \in Seq(Nat), b # <<>>, NEW o, WriteOutcome(fp, b, o), WriteResult(b, o)
  PROVE  StreamInv' /\ (Stream!Write \/ Stream!Lose)
<1>1. /\ fp' = o.f /\ dir' = dir
      /\ fcall' = [NoStreamCall EXCEPT !.op = "write", !.bytes = b, !.failed = o.n < Len(b), !.lost = o.lost]
  BY DEF WriteResult
<1>2. /\ FileOK(o.f) /\ SameMode(o.f, fp) /\ o.f.rpos = o.f.rend /\ o.lost \in BOOLEAN
      /\ o.lost => o.f.err /\ Held(o.f) = <<>>
      /\ ~o.lost /\ o.n < Len(b) => o.f.err /\ SameStreamAs(o.f, fp)
      /\ ~o.lost /\ ~(o.n < Len(b)) => Wrote(fp, o.f, b)
  BY DEF WriteOutcome
<1>3. /\ fcall'.op = "write" /\ fcall'.bytes = b /\ fcall'.failed = (o.n < Len(b)) /\ fcall'.lost = o.lost
      /\ fcall' # NoStreamCall
  BY <1>1 DEF NoStreamCall
<1>4. StreamInv'
  <2>1. FileOK(fp') /\ (dir' = "any" => fp'.rpos = fp'.rend)
    BY <1>1, <1>2
  <2> QED BY <1>3, <2>1, NextInv
<1>5. CASE o.lost
  <2>1. Stream!Lose
    BY <1>1, <1>2, <1>3, <1>5, StreamLoseIs
  <2> QED BY <1>4, <2>1
<1>6. CASE ~o.lost
  <2>1. /\ FileOK(fp') /\ SameMode(fp', fp) /\ fcall'.bytes # <<>>
        /\ fcall'.failed => fp'.err /\ SameStreamAs(fp', fp)
        /\ ~fcall'.failed => Wrote(fp, fp', fcall'.bytes)
    BY <1>1, <1>2, <1>3, <1>6
  <2>2. Stream!Write
    BY <1>3, <1>6, <2>1, StreamWriteIs
  <2> QED BY <1>4, <2>2
<1> QED BY <1>5, <1>6

LEMMA SeekStep ==
  ASSUME StreamInv, NEW o \in Int, NEW whence \in Whences, Fseek(o, whence)
  PROVE  StreamInv' /\ (Stream!Seek \/ Stream!Lose)
<1>1. PICK s \in Fseeko(fp, o, whence) :
        /\ fp' = s.f
        /\ fcall' = [NoStreamCall EXCEPT !.op = "seek", !.n = o, !.whence = whence, !.failed = s.failed, !.lost = s.lost]
        /\ dir' = IF s.failed THEN dir ELSE "any"
  BY DEF Fseek
<1>2. /\ FileOK(s.f) /\ Held(s.f) = <<>>
      /\ s.lost \in BOOLEAN /\ s.failed \in BOOLEAN
      /\ ~s.failed => s.f.rpos = s.f.rend
      /\ fp.rpos = fp.rend => s.f.rpos = s.f.rend
      /\ s.lost => s.failed
      /\ ~s.lost =>
           /\ View(s.f) = View(fp)
           /\ IF Target(fp, o, whence) < 0 THEN s.failed /\ SameStreamAs(s.f, fp)
              ELSE /\ ~s.failed /\ Position(s.f) = Target(fp, o, whence)
                   /\ InputOf(s.f) = Beyond(View(fp), Target(fp, o, whence))
  BY FseekoIs DEF StreamInv
<1>3. /\ fcall'.op = "seek" /\ fcall'.n = o /\ fcall'.whence = whence
      /\ fcall'.failed = s.failed /\ fcall'.lost = s.lost /\ fcall' # NoStreamCall
  BY <1>1 DEF NoStreamCall
<1>4. StreamInv'
  <2>1. FileOK(fp') /\ (dir' = "any" => fp'.rpos = fp'.rend)
    BY <1>1, <1>2 DEF StreamInv
  <2> QED BY <1>3, <2>1, NextInv
<1>5. CASE s.lost
  <2>1. Stream!Lose
    BY <1>1, <1>2, <1>3, <1>5, StreamLoseIs
  <2> QED BY <1>4, <2>1
<1>6. CASE ~s.lost
  <2>1. Held(fp') = <<>> /\ View(fp') = View(fp)
    BY <1>1, <1>2, <1>6
  <2>2. LET to == Target(fp, fcall'.n, fcall'.whence) IN
        IF to < 0 THEN fcall'.failed /\ SameStreamAs(fp', fp)
        ELSE ~fcall'.failed /\ Position(fp') = to /\ InputOf(fp') = Beyond(View(fp), to)
    BY <1>1, <1>2, <1>3, <1>6
  <2>3. Stream!Seek
    BY <1>3, <1>6, <2>1, <2>2, StreamSeekIs
  <2> QED BY <1>4, <2>3
<1> QED BY <1>5, <1>6

LEMMA RewindStep ==
  ASSUME StreamInv, Rewind
  PROVE  StreamInv' /\ (Stream!Seek \/ Stream!Lose)
<1>1. PICK s \in Fseeko(fp, 0, "SEEK_SET") :
        /\ fp' = [s.f EXCEPT !.err = FALSE]
        /\ fcall' = [NoStreamCall EXCEPT !.op = "rewind", !.whence = "SEEK_SET", !.lost = s.lost]
  BY DEF Rewind
<1>2. 0 \in Int /\ "SEEK_SET" \in Whences
  BY DEF Whences
<1>3. Target(fp, 0, "SEEK_SET") = 0
  BY DEF Target
<1>4. /\ FileOK(s.f) /\ Held(s.f) = <<>>
      /\ s.lost \in BOOLEAN /\ s.failed \in BOOLEAN
      /\ ~s.failed => s.f.rpos = s.f.rend
      /\ s.lost => s.f.rpos = s.f.rend
      /\ ~s.lost =>
           /\ View(s.f) = View(fp)
           /\ IF Target(fp, 0, "SEEK_SET") < 0 THEN s.failed /\ SameStreamAs(s.f, fp)
              ELSE /\ ~s.failed /\ Position(s.f) = Target(fp, 0, "SEEK_SET")
                   /\ InputOf(s.f) = Beyond(View(fp), Target(fp, 0, "SEEK_SET"))
  BY <1>2, FseekoIs DEF StreamInv
<1>5. ~s.lost => ~s.failed /\ Position(s.f) = 0 /\ InputOf(s.f) = Beyond(View(fp), 0)
  BY <1>3, <1>4
<1>6. PICK g : g = [s.f EXCEPT !.err = FALSE]
  OBVIOUS
<1>7. /\ FileOK(g) /\ SameReading(g, s.f) /\ SameStreamAs(g, s.f) /\ Held(g) = Held(s.f)
  BY <1>4, <1>6, ErrorIs
<1>8. /\ fcall'.op = "rewind" /\ fcall'.n = 0 /\ fcall'.whence = "SEEK_SET"
      /\ fcall'.failed = FALSE /\ fcall'.lost = s.lost /\ fcall' # NoStreamCall
  BY <1>1 DEF NoStreamCall
<1>9. StreamInv'
  <2>1. FileOK(fp') /\ (dir' = "any" => fp'.rpos = fp'.rend)
    BY <1>1, <1>4, <1>5, <1>6, <1>7 DEF SameReading
  <2> QED BY <1>8, <2>1, NextInv
<1>10. Held(fp') = <<>>
  BY <1>1, <1>4, <1>6, <1>7
<1>11. CASE s.lost
  <2>1. Stream!Lose
    BY <1>8, <1>10, <1>11, StreamLoseIs
  <2> QED BY <1>9, <2>1
<1>12. CASE ~s.lost
  <2>1. View(fp') = View(fp) /\ Position(fp') = 0 /\ InputOf(fp') = Beyond(View(fp), 0)
    BY <1>1, <1>4, <1>5, <1>6, <1>7, <1>12 DEF SameStreamAs
  <2>2. LET to == Target(fp, fcall'.n, fcall'.whence) IN
        IF to < 0 THEN fcall'.failed /\ SameStreamAs(fp', fp)
        ELSE ~fcall'.failed /\ Position(fp') = to /\ InputOf(fp') = Beyond(View(fp), to)
    BY <1>3, <1>8, <2>1
  <2>3. Stream!Seek
    BY <1>8, <1>10, <1>12, <2>1, <2>2, StreamSeekIs
  <2> QED BY <1>9, <2>3
<1> QED BY <1>11, <1>12

LEMMA TellStep ==
  ASSUME StreamInv, Ftell
  PROVE  StreamInv' /\ Stream!Tell
<1>1. PICK s : s = Ftello(fp)
  OBVIOUS
<1>2. /\ fp' = s.f /\ dir' = dir
      /\ fcall' = [NoStreamCall EXCEPT !.op = "tell", !.n = s.n]
  BY <1>1 DEF Ftell
<1>3. FileOK(s.f) /\ SameReading(s.f, fp) /\ SameStreamAs(s.f, fp) /\ s.n = Position(fp)
  BY <1>1, FtelloIs DEF StreamInv
<1>4. fcall'.op = "tell" /\ fcall'.n = Position(fp) /\ fcall' # NoStreamCall
  BY <1>2, <1>3 DEF NoStreamCall
<1>5. FileOK(fp') /\ (dir' = "any" => fp'.rpos = fp'.rend) /\ SameStreamAs(fp', fp)
  BY <1>2, <1>3 DEF StreamInv, SameReading
<1>6. StreamInv'
  BY <1>4, <1>5, NextInv
<1>7. Stream!SameStream
  BY <1>5, SameStreamIs
<1> QED BY <1>4, <1>6, <1>7 DEF Stream!Tell

LEMMA FlushStep ==
  ASSUME StreamInv, NEW op \in {"flush", "close"}, FlushResult(op)
  PROVE  StreamInv' /\ (Stream!Flush \/ Stream!Close \/ Stream!Lose)
<1>1. PICK w \in Fflush(fp) :
        /\ fp' = w.f
        /\ fcall' = [NoStreamCall EXCEPT !.op = op, !.failed = w.lost, !.lost = w.lost]
  BY DEF FlushResult
<1>2. /\ FileOK(w.f) /\ Held(w.f) = <<>> /\ SameMode(w.f, fp) /\ w.lost \in BOOLEAN
      /\ w.f.rpos = NIL /\ w.f.rend = NIL
      /\ w.lost => w.f.err
      /\ ~w.lost => /\ View(w.f) = View(fp)
                    /\ Position(fp) >= 0 => /\ Position(w.f) = Position(fp) /\ w.f.off = Position(fp)
                                            /\ InputOf(w.f) = Beyond(View(fp), Position(fp))
  BY FflushIs DEF StreamInv
<1>3. /\ fcall'.op = op /\ fcall'.failed = w.lost /\ fcall'.lost = w.lost /\ fcall' # NoStreamCall
  BY <1>1 DEF NoStreamCall
<1>4. StreamInv'
  <2>1. FileOK(fp') /\ (dir' = "any" => fp'.rpos = fp'.rend)
    BY <1>1, <1>2
  <2> QED BY <1>3, <2>1, NextInv
<1>5. CASE w.lost
  <2>1. Stream!Lose
    BY <1>1, <1>2, <1>3, <1>5, StreamLoseIs
  <2> QED BY <1>4, <2>1
<1>6. CASE ~w.lost
  <2>1. /\ Held(fp') = <<>> /\ View(fp') = View(fp)
        /\ Position(fp) >= 0 => /\ Position(fp') = Position(fp) /\ fp'.off = Position(fp)
                                /\ InputOf(fp') = Beyond(View(fp), Position(fp))
    BY <1>1, <1>2, <1>6
  <2>2. CASE op = "flush"
    <3>1. Stream!Flush
      BY <1>3, <1>6, <2>1, <2>2, StreamFlushIs
    <3> QED BY <1>4, <3>1
  <2>3. CASE op = "close"
    <3>1. Stream!Close
      BY <1>3, <1>6, <2>1, <2>3, StreamCloseIs
    <3> QED BY <1>4, <3>1
  <2> QED BY <2>2, <2>3
<1> QED BY <1>5, <1>6

LEMMA ExitStep ==
  ASSUME StreamInv, StdioExit
  PROVE  StreamInv' /\ (Stream!Close \/ Stream!Lose)
<1>1. PICK w \in CloseFile(fp) :
        fp' = w.f /\ fcall' = [NoStreamCall EXCEPT !.op = "exit", !.lost = w.lost]
  BY DEF StdioExit
<1>2. /\ FileOK(w.f) /\ Held(w.f) = <<>> /\ w.lost \in BOOLEAN
      /\ fp.rpos = fp.rend => w.f.rpos = w.f.rend
      /\ ~w.lost => View(w.f) = View(fp) /\ (Position(fp) >= 0 => w.f.off = Position(fp))
  BY CloseFileIs DEF StreamInv
<1>3. fcall'.op = "exit" /\ fcall'.lost = w.lost /\ fcall' # NoStreamCall
  BY <1>1 DEF NoStreamCall
<1>4. StreamInv'
  <2>1. FileOK(fp') /\ (dir' = "any" => fp'.rpos = fp'.rend)
    BY <1>1, <1>2 DEF StreamInv, StdioExit
  <2> QED BY <1>3, <2>1, NextInv
<1>5. Held(fp') = <<>>
  BY <1>1, <1>2
<1>6. CASE w.lost
  <2>1. Stream!Lose
    BY <1>3, <1>5, <1>6, StreamLoseIs
  <2> QED BY <1>4, <2>1
<1>7. CASE ~w.lost
  <2>1. View(fp') = View(fp) /\ (Position(fp) >= 0 => fp'.off = Position(fp))
    BY <1>1, <1>2, <1>7
  <2>2. Stream!Close
    BY <1>3, <1>5, <1>7, <2>1, StreamCloseIs
  <2> QED BY <1>4, <2>2
<1> QED BY <1>6, <1>7

LEMMA ClearerrStep ==
  ASSUME StreamInv, Clearerr
  PROVE  StreamInv' /\ Stream!Other
<1>1. PICK g : g = [fp EXCEPT !.eof = FALSE, !.err = FALSE]
  OBVIOUS
<1>2. fp' = g /\ dir' = dir /\ fcall' = [NoStreamCall EXCEPT !.op = "clearerr"]
  BY <1>1 DEF Clearerr
<1>3. FileOK(g) /\ SameReading(g, fp) /\ SameStreamAs(g, fp)
  BY <1>1, ClearerrIs DEF StreamInv
<1>4. fcall'.op = "clearerr" /\ fcall' # NoStreamCall
  BY <1>2 DEF NoStreamCall
<1>5. FileOK(fp') /\ (dir' = "any" => fp'.rpos = fp'.rend) /\ SameStreamAs(fp', fp)
  BY <1>2, <1>3 DEF StreamInv, SameReading
<1> QED BY <1>4, <1>5, NextInv, SameStreamIs DEF Stream!Other

LEMMA SetvbufStep ==
  ASSUME StreamInv, NEW type \in {"_IONBF", "_IOLBF", "_IOFBF"}, NEW size \in VbufSizes \cup {BUFSIZ},
         Setvbuf(type, size)
  PROVE  StreamInv' /\ Stream!Other
<1>1. PICK g : g = CASE type = "_IONBF" -> [fp EXCEPT !.size = 0, !.line = FALSE]
                     [] type = "_IOFBF" -> [fp EXCEPT !.size = size, !.line = FALSE]
                     [] type = "_IOLBF" -> [fp EXCEPT !.size = size, !.line = size # 0]
  OBVIOUS
<1>2. /\ fp' = g /\ dir' = dir /\ fcall' = [NoStreamCall EXCEPT !.op = "setvbuf"]
      /\ fcall = NoStreamCall
  BY <1>1 DEF Setvbuf
<1>3. fp.wend = NIL /\ fp.rend = NIL /\ FileOK(fp)
  BY <1>2 DEF StreamInv
<1>4. FileOK(g) /\ SameReading(g, fp) /\ SameStreamAs(g, fp)
  BY <1>1, <1>3, SetvbufIs
<1>5. fcall'.op = "setvbuf" /\ fcall' # NoStreamCall
  BY <1>2 DEF NoStreamCall
<1>6. FileOK(fp') /\ (dir' = "any" => fp'.rpos = fp'.rend) /\ SameStreamAs(fp', fp)
  BY <1>2, <1>4 DEF StreamInv, SameReading
<1> QED BY <1>5, <1>6, NextInv, SameStreamIs DEF Stream!Other

LEMMA StdioStep == StreamInv /\ StdioNext => StreamInv' /\ Stream!StreamNext
<1> SUFFICES ASSUME StreamInv, StdioNext PROVE StreamInv' /\ Stream!StreamNext
  OBVIOUS
<1>1. CASE Rewind
  BY <1>1, RewindStep DEF Stream!StreamNext
<1>2. CASE Ftell
  BY <1>2, TellStep DEF Stream!StreamNext
<1>3. CASE FlushStream
  BY <1>3, FlushStep DEF FlushStream, Stream!StreamNext
<1>4. CASE Fclose
  BY <1>4, FlushStep DEF Fclose, Stream!StreamNext
<1>5. CASE StdioExit
  BY <1>5, ExitStep DEF Stream!StreamNext
<1>6. CASE Clearerr
  BY <1>6, ClearerrStep DEF Stream!StreamNext
<1>7. CASE \E l \in ReadLens : Read(l)
  <2>1. PICK l \in Nat \ {0} : Read(l)
    BY <1>7, StreamAssumption
  <2> QED BY <2>1, ReadStep DEF Stream!StreamNext
<1>8. CASE \E c \in StreamBytes : PutByte(c) \/ UngetByte(c)
  <2>1. PICK c \in Nat : PutByte(c) \/ UngetByte(c)
    BY <1>8, ByteIs
  <2>2. CASE UngetByte(c)
    BY <2>2, UngetStep DEF Stream!StreamNext
  <2>3. CASE PutByte(c)
    <3>1. PICK o \in Putc(fp, c) : WriteResult(<<c>>, o)
      BY <2>3 DEF PutByte
    <3>2. FileOK(fp) /\ fp.rpos = fp.rend
      BY <2>3 DEF PutByte, StreamInv
    <3>3. WriteOutcome(fp, <<c>>, o)
      BY <3>2, PutcIs
    <3>4. <<c>> \in Seq(Nat) /\ <<c>> # <<>>
      OBVIOUS
    <3> QED BY <3>1, <3>3, <3>4, WriteStep DEF Stream!StreamNext
  <2> QED BY <2>1, <2>2, <2>3
<1>9. CASE \E b \in StreamWrites : Fwrite(b)
  <2>1. PICK b \in StreamWrites : Fwrite(b)
    BY <1>9
  <2>2. b \in Seq(Nat) /\ b # <<>>
    BY StreamAssumption
  <2>3. PICK o \in Fwritex(fp, b) : WriteResult(b, o)
    BY <2>1 DEF Fwrite
  <2>4. FileOK(fp) /\ fp.rpos = fp.rend
    BY <2>1 DEF Fwrite, StreamInv
  <2>5. WriteOutcome(fp, b, o)
    BY <2>2, <2>4, FwritexIs
  <2> QED BY <2>2, <2>3, <2>5, WriteStep DEF Stream!StreamNext
<1>10. CASE \E o \in SeekOffsets, whence \in Whences : Fseek(o, whence)
  <2>1. PICK o \in Int, whence \in Whences : Fseek(o, whence)
    BY <1>10, StreamAssumption
  <2> QED BY <2>1, SeekStep DEF Stream!StreamNext
<1>11. CASE \E type \in {"_IONBF", "_IOLBF", "_IOFBF"}, size \in VbufSizes \cup {BUFSIZ} : Setvbuf(type, size)
  BY <1>11, SetvbufStep DEF Stream!StreamNext
<1> QED BY <1>1, <1>2, <1>3, <1>4, <1>5, <1>6, <1>7, <1>8, <1>9, <1>10, <1>11 DEF StdioNext

\* A step in which no call is made leaves the abstract stream as it is.
LEMMA StdioStutter == UNCHANGED stdioVars => (StreamInv => StreamInv') /\ UNCHANGED Stream!streamVars
<1> SUFFICES ASSUME UNCHANGED stdioVars PROVE (StreamInv => StreamInv') /\ UNCHANGED Stream!streamVars
  OBVIOUS
<1>1. fp' = fp /\ fcall' = fcall /\ dir' = dir
  BY DEF stdioVars
<1>2. StreamInv => StreamInv'
  BY <1>1, ZenonT(60) DEF StreamInv, FileOK, FILES, Pointers, EndOfFile, LinesWritten, Held
<1>3. FileView' = FileView /\ StreamInput' = StreamInput /\ Position(fp)' = Position(fp) /\ Held(fp)' = Held(fp)
  BY <1>1, AbstractStateIs, NextAbstractStateIs
<1> QED BY <1>1, <1>2, <1>3 DEF Stream!streamVars, StreamInput

\* The buffer does not show: a step of stdio, whatever the host reads, takes or
\* refuses, is a step of a stream that is one file and one position in it, which
\* gives bytes that are lost away only with a report, or it is not seen at all.
THEOREM StdioRefinesStream == StdioSpec => StreamAsPromised
<1>1. StdioInit => StreamInv
  BY StreamInit
<1>2. StdioInit => Position(fp) = 0 /\ StreamInput = FileView /\ Held(fp) = <<>>
  BY StreamInit
<1>3. StreamInv /\ [StdioNext]_stdioVars => StreamInv' /\ [Stream!StreamNext]_(Stream!streamVars)
  BY StdioStep, StdioStutter
<1> QED BY <1>1, <1>2, <1>3, PTL DEF StdioSpec, StreamAsPromised, Stream!AbstractSpec, StreamInput
==============================================================================
