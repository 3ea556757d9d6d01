--------------------------------- MODULE WireProofs -------------------------------
(***************************************************************************)
(* Proofs about Wire: that the parser takes from a buffer the frames that  *)
(* were encoded, all that are complete, wherever the bytes are cut.        *)
(***************************************************************************)
EXTENDS Wire, SequenceTheorems, WellFoundedInduction, TLAPS

--------------------------------------------------------------------------------
(***************************************************************************)
(* Induction over the numbers.                                             *)
(***************************************************************************)
LessNat == {ss \in Nat \X Nat : ss[1] < ss[2]}

\* The library's fact, without an operator as its parameter.
LEMMA LessNatWellFounded == IsWellFoundedOn(LessNat, Nat)
BY NatLessThanWellFounded, Zenon DEF OpToRel, LessNat

\* What holds of 0, and of n + 1 if of n, holds of all.
LEMMA Induction ==
    ASSUME NEW S, 0 \in S, \A n \in Nat : n \in S => n + 1 \in S
    PROVE  Nat \subseteq S
<1> SUFFICES ASSUME Nat \ S # {} PROVE FALSE
  OBVIOUS
<1>. PICK T : T = Nat \ S
  OBVIOUS
<1>1. PICK x \in T : \A y \in T : ~(<<y, x>> \in LessNat)
  BY LessNatWellFounded, WFMin
<1>2. x \in Nat /\ x # 0 /\ x - 1 \in Nat /\ x - 1 + 1 = x
  BY <1>1
<1>3. x - 1 \in T
  BY <1>1, <1>2
<1>4. <<x - 1, x>> \in LessNat
  <2>1. <<x - 1, x>> \in Nat \X Nat /\ <<x - 1, x>>[1] = x - 1 /\ <<x - 1, x>>[2] = x /\ x - 1 < x
    BY <1>2
  <2>. QED  BY <2>1, Zenon DEF LessNat
<1>. QED  BY <1>1, <1>3, <1>4

--------------------------------------------------------------------------------
(***************************************************************************)
(* Bytes one behind the other.                                             *)
(***************************************************************************)
Bytes == Seq(Nat)

\* The bytes are the parts, in their order, and then the end: left[i] is what is
\* behind the first i of them.
Stacked(bytes, parts, end) ==
    \E left \in [0 .. Len(parts) -> Bytes] :
        /\ left[0] = bytes /\ left[Len(parts)] = end
        /\ \A i \in 1 .. Len(parts) : left[i - 1] = parts[i] \o left[i]

\* Concatenation.
LEMMA Joined ==
    ASSUME NEW s \in Bytes, NEW t \in Bytes
    PROVE  /\ s \o t \in Bytes /\ Len(s \o t) = Len(s) + Len(t)
           /\ s \o <<>> = s /\ <<>> \o s = s
BY DEF Bytes

\* Concatenation is associative.
LEMMA Regrouped ==
    ASSUME NEW s \in Bytes, NEW t \in Bytes, NEW u \in Bytes
    PROVE  (s \o t) \o u = s \o (t \o u)
BY SMTT(30) DEF Bytes

\* Where the parts of a concatenation are.
LEMMA InFront ==
    ASSUME NEW s \in Bytes, NEW t \in Bytes, NEW i \in 1 .. Len(s)
    PROVE  (s \o t)[i] = s[i]
BY DEF Bytes

\* A place behind the first of two, and what is there.
LEMMA After ==
    ASSUME NEW s \in Bytes, NEW t \in Bytes, NEW i \in 1 .. Len(t)
    PROVE  (s \o t)[Len(s) + i] = t[i]
BY DEF Bytes

\* What is behind the first of two is the second.
LEMMA Behind ==
    ASSUME NEW s \in Bytes, NEW t \in Bytes
    PROVE  SubSeq(s \o t, Len(s) + 1, Len(s) + Len(t)) = t
BY DEF Bytes

\* A byte is a number.
LEMMA ByteAt ==
    ASSUME NEW s \in Bytes, NEW i \in 1 .. Len(s)
    PROVE  s[i] \in Nat
BY DEF Bytes

\* A part of a sequence that reaches to its end.
LEMMA PartTypes ==
    ASSUME NEW s \in Bytes, NEW m \in 0 .. Len(s)
    PROVE  /\ SubSeq(s, m + 1, Len(s)) \in Bytes /\ Len(SubSeq(s, m + 1, Len(s))) = Len(s) - m
           /\ \A i \in 1 .. Len(s) - m : SubSeq(s, m + 1, Len(s))[i] = s[i + m]
BY SMTT(30) DEF Bytes

\* A part of a buffer, from one place to another.
LEMMA PartIs ==
    ASSUME NEW s \in Bytes, NEW m \in 0 .. Len(s), NEW n \in m .. Len(s)
    PROVE  /\ SubSeq(s, m + 1, n) \in Bytes /\ Len(SubSeq(s, m + 1, n)) = n - m
           /\ \A i \in 1 .. n - m : SubSeq(s, m + 1, n)[i] = s[i + m]
BY DEF Bytes

\* Bytes that agree at every place are the same.
LEMMA SameBytes ==
    ASSUME NEW s \in Bytes, NEW t \in Bytes, Len(s) = Len(t), \A i \in 1 .. Len(s) : s[i] = t[i]
    PROVE  s = t
BY DEF Bytes

\* Bytes that are cut in two, and put together again.
LEMMA Cut ==
    ASSUME NEW s \in Bytes, NEW n \in 0 .. Len(s)
    PROVE  /\ SubSeq(s, 1, n) \in Bytes /\ SubSeq(s, n + 1, Len(s)) \in Bytes
           /\ SubSeq(s, 1, n) \o SubSeq(s, n + 1, Len(s)) = s
<1>0. Len(s) \in Nat /\ n \in Nat /\ n <= Len(s)
  BY DEF Bytes
<1>a. SubSeq(s, 1, n) \in Bytes /\ SubSeq(s, n + 1, Len(s)) \in Bytes
  BY <1>0, PartTypes DEF Bytes
<1>b. PICK f \in Bytes : f = SubSeq(s, 1, n)
  BY <1>a
<1>c. PICK b \in Bytes : b = SubSeq(s, n + 1, Len(s))
  BY <1>a
<1>1. Len(f) = n /\ \A i \in 1 .. n : f[i] = s[i]
  BY <1>0, <1>b DEF Bytes
<1>2. Len(b) = Len(s) - n /\ \A i \in 1 .. Len(s) - n : b[i] = s[i + n]
  BY <1>c, PartTypes
<1>3. f \o b \in Bytes /\ Len(f \o b) = Len(s)
  <2>1. f \o b \in Bytes /\ Len(f \o b) = Len(f) + Len(b)
    BY Joined
  <2>2. n + (Len(s) - n) = Len(s)
    BY <1>0
  <2>. QED  BY <1>1, <1>2, <2>1, <2>2
<1>4. ASSUME NEW i \in 1 .. Len(s)
      PROVE  (f \o b)[i] = s[i]
  <2>1. CASE i <= n
    <3>1. i \in 1 .. Len(f) /\ i \in 1 .. n
      BY <1>0, <1>1, <2>1
    <3>2. (f \o b)[i] = f[i]
      BY <3>1, InFront
    <3>. QED  BY <1>1, <3>1, <3>2
  <2>2. CASE ~(i <= n)
    <3>. PICK j \in 1 .. Len(s) - n : i = j + n
      BY <1>0, <2>2
    <3>1. j \in 1 .. Len(b) /\ i = Len(f) + j
      BY <1>0, <1>1, <1>2
    <3>2. (f \o b)[Len(f) + j] = b[j]
      BY <3>1, After
    <3>3. (f \o b)[i] = b[j]
      BY <3>1, <3>2
    <3>4. b[j] = s[i]
      BY <1>2
    <3>. QED  BY <3>3, <3>4
  <2>. QED  BY <2>1, <2>2
<1>5. f \o b = s
  <2>. PICK g \in Bytes : g = f \o b
    BY <1>3
  <2>1. Len(g) = Len(s) /\ \A i \in 1 .. Len(g) : g[i] = s[i]
    BY <1>3, <1>4
  <2>2. g = s
    BY <2>1, SameBytes
  <2>. QED  BY <2>2
<1>. QED  BY <1>a, <1>b, <1>c, <1>5

\* Putting them together behind others.
LEMMA CutBehind ==
    ASSUME NEW a \in Bytes, NEW s \in Bytes, NEW n \in 0 .. Len(s)
    PROVE  (a \o SubSeq(s, 1, n)) \o SubSeq(s, n + 1, Len(s)) = a \o s
<1>1. PICK f \in Bytes : f = SubSeq(s, 1, n)
  BY Cut
<1>2. PICK b \in Bytes : b = SubSeq(s, n + 1, Len(s))
  BY Cut
<1>3. (a \o f) \o b = a \o (f \o b)
  BY Regrouped, SMTT(30)
<1>4. f \o b = s
  BY <1>1, <1>2, Cut
<1>. QED  BY <1>1, <1>2, <1>3, <1>4, Zenon

\* Sequences of anything.
LEMMA AppendIs ==
    ASSUME NEW S, NEW s \in Seq(S), NEW x \in S
    PROVE  Append(s, x) = [i \in 1 .. Len(s) + 1 |-> IF i = Len(s) + 1 THEN x ELSE s[i]]
<1>1. /\ Append(s, x) \in Seq(S) /\ Len(Append(s, x)) = Len(s) + 1 /\ Append(s, x)[Len(s) + 1] = x
      /\ \A i \in 1 .. Len(s) : Append(s, x)[i] = s[i]
      /\ Len(s) \in Nat
  OBVIOUS
<1>2. PICK a \in Seq(S) : a = Append(s, x)
  BY <1>1
<1>3. a \in [1 .. Len(a) -> S]
  BY LenProperties
<1>4. a = [i \in 1 .. Len(s) + 1 |-> a[i]]
  BY <1>1, <1>2, <1>3
<1>5. \A i \in 1 .. Len(s) + 1 : a[i] = IF i = Len(s) + 1 THEN x ELSE s[i]
  BY <1>1, <1>2
<1>. QED  BY <1>2, <1>4, <1>5

\* What is behind a place, when one more comes at the end.
LEMMA Appended ==
    ASSUME NEW S, NEW s \in Seq(S), NEW x \in S, NEW m \in 0 .. Len(s)
    PROVE  /\ SubSeq(s, m + 1, Len(s)) \in Seq(S)
           /\ SubSeq(Append(s, x), m + 1, Len(s) + 1) = Append(SubSeq(s, m + 1, Len(s)), x)
<1>0. Len(s) \in Nat
  OBVIOUS
<1>1. /\ Append(s, x) \in Seq(S) /\ Len(Append(s, x)) = Len(s) + 1 /\ Append(s, x)[Len(s) + 1] = x
      /\ \A i \in 1 .. Len(s) : Append(s, x)[i] = s[i]
  OBVIOUS
<1>2. PICK a \in Seq(S) : a = Append(s, x)
  BY <1>1
<1>3. PICK f : f = SubSeq(a, m + 1, Len(s) + 1)
  OBVIOUS
<1>4. f = [i \in 1 .. Len(s) + 1 - m |-> a[i + m]]
  BY <1>0, <1>3
<1>g. SubSeq(s, m + 1, Len(s)) \in Seq(S)
  BY <1>0
<1>5. PICK g \in Seq(S) : g = SubSeq(s, m + 1, Len(s))
  BY <1>g
<1>6. g \in Seq(S) /\ Len(g) = Len(s) - m /\ \A i \in 1 .. Len(s) - m : g[i] = s[i + m]
  BY <1>0, <1>5
<1>7. Append(g, x) = [i \in 1 .. Len(g) + 1 |-> IF i = Len(g) + 1 THEN x ELSE g[i]]
  BY AppendIs
<1>8. Len(g) + 1 = Len(s) + 1 - m
  BY <1>0, <1>6
<1>9. ASSUME NEW i \in 1 .. Len(s) + 1 - m
      PROVE  a[i + m] = IF i = Len(g) + 1 THEN x ELSE g[i]
  <2>1. CASE i = Len(g) + 1
    <3>1. i + m = Len(s) + 1
      BY <1>0, <1>8, <2>1
    <3>. QED  BY <1>1, <1>2, <2>1, <3>1
  <2>2. CASE i # Len(g) + 1
    <3>1. i \in 1 .. Len(s) - m /\ i + m \in 1 .. Len(s)
      BY <1>0, <1>8, <2>2
    <3>. QED  BY <1>1, <1>2, <1>6, <2>2, <3>1
  <2>. QED  BY <2>1, <2>2
<1>10. f = Append(g, x)
  BY <1>4, <1>7, <1>8, <1>9
<1>. QED  BY <1>2, <1>3, <1>5, <1>6, <1>10

\* A part of a sequence, from one place to another.
LEMMA PartOf ==
    ASSUME NEW S, NEW s \in Seq(S), NEW m \in 0 .. Len(s), NEW n \in m .. Len(s)
    PROVE  /\ SubSeq(s, m + 1, n) \in Seq(S) /\ Len(SubSeq(s, m + 1, n)) = n - m
           /\ \A i \in 1 .. n - m : SubSeq(s, m + 1, n)[i] = s[i + m]
OBVIOUS

\* A sequence without its first.
LEMMA TailIs ==
    ASSUME NEW S, NEW s \in Seq(S), s # <<>>
    PROVE  \E t \in Seq(S) : /\ t = Tail(s) /\ Len(t) = Len(s) - 1
                             /\ t = [i \in 1 .. Len(t) |-> t[i]]
                             /\ \A i \in 1 .. Len(t) : t[i] = s[i + 1]
<1>1. PICK t : t = Tail(s)
  OBVIOUS
<1>2. t \in Seq(S) /\ Len(t) = Len(s) - 1 /\ \A i \in 1 .. Len(t) : t[i] = s[i + 1]
  BY <1>1
<1>3. t \in [1 .. Len(t) -> S]
  BY <1>2, LenProperties
<1>4. t = [i \in 1 .. Len(t) |-> t[i]]
  BY <1>3
<1>. QED  BY <1>1, <1>2, <1>4, Zenon

\* Nothing is stacked on the end itself.
LEMMA StackedNothing ==
    ASSUME NEW end \in Bytes
    PROVE  Stacked(end, <<>>, end)
<1>. PICK left : left = [i \in 0 .. 0 |-> end]
  OBVIOUS
<1>. QED  BY DEF Stacked

\* The first part is in front, the others are behind it.
LEMMA StackedFirst ==
    ASSUME NEW parts \in Seq(Bytes), parts # <<>>, NEW bytes, NEW end, Stacked(bytes, parts, end)
    PROVE  \E rest \in Bytes : bytes = Head(parts) \o rest /\ Stacked(rest, Tail(parts), end)
<1>1. PICK left \in [0 .. Len(parts) -> Bytes] :
        /\ left[0] = bytes /\ left[Len(parts)] = end
        /\ \A i \in 1 .. Len(parts) : left[i - 1] = parts[i] \o left[i]
  BY DEF Stacked
<1>n. PICK n \in Nat : n = Len(parts) /\ n > 0
  OBVIOUS
<1>2. /\ Len(Tail(parts)) = n - 1 /\ Head(parts) = parts[1]
      /\ \A i \in 1 .. n - 1 : Tail(parts)[i] = parts[i + 1]
  BY <1>n
<1>3. PICK after : after = [i \in 0 .. n - 1 |-> left[i + 1]]
  OBVIOUS
<1>4. after \in [0 .. n - 1 -> Bytes] /\ after[0] = left[1] /\ after[n - 1] = end
  BY <1>1, <1>3, <1>n
<1>5. ASSUME NEW i \in 1 .. n - 1
      PROVE  after[i - 1] = Tail(parts)[i] \o after[i]
  <2>1. i \in Nat /\ i + 1 \in 1 .. Len(parts) /\ (i + 1) - 1 = i
    BY <1>n
  <2>2. left[i] = parts[i + 1] \o left[i + 1]
    BY <1>1, <2>1
  <2>3. after[i - 1] = left[i] /\ after[i] = left[i + 1]
    BY <1>3, <1>n
  <2>. QED  BY <1>2, <2>2, <2>3
<1>6. Stacked(left[1], Tail(parts), end)
  BY <1>2, <1>4, <1>5 DEF Stacked
<1>7. bytes = Head(parts) \o left[1] /\ left[1] \in Bytes
  <2>1. left[1 - 1] = parts[1] \o left[1] /\ 1 - 1 = 0 /\ 1 \in 0 .. Len(parts)
    BY <1>1, <1>n
  <2>. QED  BY <1>1, <1>2, <2>1
<1>. QED  BY <1>6, <1>7

\* The front of the end is one more part.
LEMMA StackedLast ==
    ASSUME NEW parts \in Seq(Bytes), NEW bytes, NEW part \in Bytes, NEW end \in Bytes,
           Stacked(bytes, parts, part \o end)
    PROVE  Stacked(bytes, Append(parts, part), end)
<1>1. PICK left \in [0 .. Len(parts) -> Bytes] :
        /\ left[0] = bytes /\ left[Len(parts)] = part \o end
        /\ \A i \in 1 .. Len(parts) : left[i - 1] = parts[i] \o left[i]
  BY DEF Stacked
<1>n. PICK n \in Nat : n = Len(parts)
  OBVIOUS
<1>2. /\ Len(Append(parts, part)) = n + 1 /\ Append(parts, part)[n + 1] = part
      /\ \A i \in 1 .. n : Append(parts, part)[i] = parts[i]
  BY <1>n
<1>3. PICK more : more = [i \in 0 .. n + 1 |-> IF i = n + 1 THEN end ELSE left[i]]
  OBVIOUS
<1>4. more \in [0 .. n + 1 -> Bytes] /\ more[0] = bytes /\ more[n + 1] = end /\ more[n] = part \o end
  BY <1>1, <1>3, <1>n
<1>5. ASSUME NEW i \in 1 .. n + 1
      PROVE  more[i - 1] = Append(parts, part)[i] \o more[i]
  <2>1. CASE i = n + 1
    <3>1. i - 1 = n
      BY <2>1
    <3>. QED  BY <1>2, <1>4, <2>1, <3>1
  <2>2. CASE i # n + 1
    <3>1. i \in 1 .. n /\ i - 1 \in 0 .. n /\ i - 1 # n + 1
      BY <2>2
    <3>2. more[i - 1] = left[i - 1] /\ more[i] = left[i]
      BY <1>3, <3>1
    <3>. QED  BY <1>1, <1>2, <1>n, <3>1, <3>2
  <2>. QED  BY <2>1, <2>2
<1>. QED  BY <1>2, <1>4, <1>5 DEF Stacked

\* More at the end is more of the whole.
LEMMA StackedMore ==
    ASSUME NEW parts \in Seq(Bytes), NEW bytes, NEW end, NEW more \in Bytes,
           Stacked(bytes, parts, end)
    PROVE  Stacked(bytes \o more, parts, end \o more)
<1>1. PICK left \in [0 .. Len(parts) -> Bytes] :
        /\ left[0] = bytes /\ left[Len(parts)] = end
        /\ \A i \in 1 .. Len(parts) : left[i - 1] = parts[i] \o left[i]
  BY DEF Stacked
<1>n. PICK n \in Nat : n = Len(parts)
  OBVIOUS
<1>2. PICK longer : longer = [i \in 0 .. n |-> left[i] \o more]
  OBVIOUS
<1>3. \A i \in 0 .. n : left[i] \o more \in Bytes
  BY <1>1, <1>n, Joined
<1>4. longer \in [0 .. n -> Bytes] /\ longer[0] = bytes \o more /\ longer[n] = end \o more
  BY <1>1, <1>2, <1>3, <1>n
<1>5. ASSUME NEW i \in 1 .. n
      PROVE  longer[i - 1] = parts[i] \o longer[i]
  <2>1. i \in 0 .. n /\ i - 1 \in 0 .. n /\ parts[i] \in Bytes /\ left[i] \in Bytes
    BY <1>n
  <2>2. longer[i - 1] = (parts[i] \o left[i]) \o more
    BY <1>1, <1>2, <1>n, <2>1
  <2>3. longer[i] = left[i] \o more
    BY <1>2, <2>1
  <2>4. (parts[i] \o left[i]) \o more = parts[i] \o (left[i] \o more)
    BY <2>1, Regrouped
  <2>. QED  BY <2>2, <2>3, <2>4
<1>. QED  BY <1>4, <1>5, <1>n DEF Stacked

--------------------------------------------------------------------------------
(***************************************************************************)
(* Encodings.                                                              *)
(***************************************************************************)
Encodings(list) == [i \in 1 .. Len(list) |-> Encode(list[i])]

\* The bytes are the frames of the list, and nothing else.
Encodes(bytes, list) == Stacked(bytes, Encodings(list), <<>>)

\* What an encoding is made of.
LEMMA EncodeIs ==
    ASSUME NEW frame \in Frames
    PROVE  /\ Encode(frame) \in Bytes /\ Len(Encode(frame)) = HeaderSize + Len(frame.payload)
           /\ Encode(frame)[3] = frame.flags /\ Encode(frame)[4] = frame.type
           /\ Encode(frame)[5] = Len(frame.payload)
           /\ SubSeq(Encode(frame), HeaderSize + 1, HeaderSize + Len(frame.payload)) = frame.payload
<1>1. /\ Header(frame) \in Bytes /\ Len(Header(frame)) = 5 /\ Header(frame)[3] = frame.flags
      /\ Header(frame)[4] = frame.type /\ Header(frame)[5] = Len(frame.payload)
  BY DEF Header, Frames, Bytes, Magic, Version
<1>2. frame.payload \in Bytes
  BY DEF Frames, Bytes
<1>. PICK h \in Bytes : h = Header(frame)
  BY <1>1
<1>. PICK p \in Bytes : p = frame.payload
  BY <1>2
<1>3. /\ Encode(frame) = h \o p /\ HeaderSize = 5 /\ Len(h) = 5
      /\ h[3] = frame.flags /\ h[4] = frame.type /\ h[5] = Len(p)
  BY <1>1 DEF Encode, HeaderSize
<1>4. h \o p \in Bytes /\ Len(h \o p) = 5 + Len(p)
  BY <1>3, Joined, ZenonT(30)
<1>5. (h \o p)[3] = h[3] /\ (h \o p)[4] = h[4] /\ (h \o p)[5] = h[5]
  <2>1. 3 \in 1 .. Len(h) /\ 4 \in 1 .. Len(h) /\ 5 \in 1 .. Len(h)
    BY <1>3
  <2>. QED  BY <2>1, InFront
<1>6. SubSeq(h \o p, 6, 5 + Len(p)) = p
  <2>1. SubSeq(h \o p, Len(h) + 1, Len(h) + Len(p)) = p
    BY Behind
  <2>2. Len(h) + 1 = 6 /\ Len(h) + Len(p) = 5 + Len(p)
    BY <1>3
  <2>. QED  BY <2>1, <2>2
<1>. QED  BY <1>3, <1>4, <1>5, <1>6

\* The encodings of a list.
LEMMA EncodingsAre ==
    ASSUME NEW list \in Seq(Frames)
    PROVE  /\ Encodings(list) \in Seq(Bytes) /\ Len(Encodings(list)) = Len(list)
           /\ list # <<>> =>
                 /\ Encodings(list) # <<>> /\ Head(Encodings(list)) = Encode(Head(list))
                 /\ Tail(Encodings(list)) = Encodings(Tail(list))
                 /\ Tail(list) \in Seq(Frames) /\ Head(list) \in Frames
           /\ list = <<>> => Encodings(list) = <<>>
           /\ \A frame \in Frames :
                 Encodings(Append(list, frame)) = Append(Encodings(list), Encode(frame))
<1>1. \A i \in 1 .. Len(list) : Encode(list[i]) \in Bytes
  BY EncodeIs
<1>2. Encodings(list) \in Seq(Bytes) /\ Len(Encodings(list)) = Len(list)
  BY <1>1 DEF Encodings
<1>3. ASSUME list # <<>>
      PROVE  /\ Encodings(list) # <<>> /\ Head(Encodings(list)) = Encode(Head(list))
             /\ Tail(Encodings(list)) = Encodings(Tail(list))
             /\ Tail(list) \in Seq(Frames) /\ Head(list) \in Frames
  BY <1>2, <1>3 DEF Encodings
<1>4. \A frame \in Frames : Encodings(Append(list, frame)) = Append(Encodings(list), Encode(frame))
  BY <1>2 DEF Encodings
<1>. QED  BY <1>2, <1>3, <1>4 DEF Encodings

\* No bytes encode no frames.
LEMMA EncodesNothing == Encodes(<<>>, <<>>)
<1>1. <<>> \in Bytes /\ Encodings(<<>>) = <<>>
  BY DEF Bytes, Encodings
<1>. QED  BY <1>1, StackedNothing DEF Encodes

\* Bytes that are frames begin with the first of them.
LEMMA EncodesFirst ==
    ASSUME NEW list \in Seq(Frames), NEW bytes, bytes # <<>>, Encodes(bytes, list)
    PROVE  /\ list # <<>>
           /\ \E rest \in Bytes : bytes = Encode(Head(list)) \o rest /\ Encodes(rest, Tail(list))
<1>1. list # <<>>
  <2> SUFFICES ASSUME list = <<>> PROVE bytes = <<>>
    OBVIOUS
  <2>1. Stacked(bytes, <<>>, <<>>)
    BY EncodingsAre DEF Encodes
  <2>. QED  BY <2>1 DEF Stacked
<1>. PICK parts \in Seq(Bytes) :
        parts = Encodings(list) /\ parts # <<>> /\ Head(parts) = Encode(Head(list))
        /\ Tail(parts) = Encodings(Tail(list))
  BY <1>1, EncodingsAre
<1>2. Stacked(bytes, parts, <<>>)
  BY DEF Encodes
<1>3. \E rest \in Bytes : bytes = Head(parts) \o rest /\ Stacked(rest, Tail(parts), <<>>)
  BY <1>2, StackedFirst
<1>. QED  BY <1>1, <1>3 DEF Encodes

\* A frame behind the others.
LEMMA EncodesLast ==
    ASSUME NEW list \in Seq(Frames), NEW frame \in Frames, NEW bytes, Encodes(bytes, list)
    PROVE  Encodes(bytes \o Encode(frame), Append(list, frame))
<1>. PICK e \in Bytes : e = Encode(frame)
  BY EncodeIs
<1>. PICK parts \in Seq(Bytes) : parts = Encodings(list)
  BY EncodingsAre
<1>0. <<>> \in Bytes /\ <<>> \o e = e /\ e \o <<>> = e
  BY DEF Bytes
<1>1. Stacked(bytes \o e, parts, e \o <<>>)
  BY <1>0, StackedMore DEF Encodes
<1>2. Stacked(bytes \o e, Append(parts, e), <<>>)
  BY <1>0, <1>1, StackedLast
<1>. QED  BY <1>2, EncodingsAre DEF Encodes

--------------------------------------------------------------------------------
(***************************************************************************)
(* The parser.                                                             *)
(***************************************************************************)
HeaderAt(buf, offset) == SubSeq(buf, offset + 1, offset + HeaderSize)
Past(buf, offset) == offset + HeaderSize + HeaderAt(buf, offset)[5]
FrameAt(buf, offset) ==
    FrameOf(HeaderAt(buf, offset)[4], HeaderAt(buf, offset)[3],
            SubSeq(buf, offset + HeaderSize + 1, Past(buf, offset)))
RestAt(buf, offset) == SubSeq(buf, offset + 1, Len(buf))

\* A complete frame is at the offset.
FrameThere(buf, offset) ==
    /\ ~(offset + HeaderSize > Len(buf)) /\ Decodes(HeaderAt(buf, offset))
    /\ ~(Past(buf, offset) > Len(buf))

\* The outcome at an offset, from the outcomes behind it.
OutcomeAt(buf, from, offset) ==
    IF offset + HeaderSize > Len(buf)
      THEN Parsed(<<>>, RestAt(buf, offset))
    ELSE IF ~Decodes(HeaderAt(buf, offset))
      THEN Failed
    ELSE IF Past(buf, offset) > Len(buf)
      THEN Parsed(<<>>, RestAt(buf, offset))
    ELSE IF ~from[Past(buf, offset)].ok
      THEN Failed
      ELSE Parsed(<<FrameAt(buf, offset)>> \o from[Past(buf, offset)].frames,
                  from[Past(buf, offset)].rest)

\* A frame is not empty, and what is parsed there is one.
LEMMA Forward ==
    ASSUME NEW buf \in Bytes, NEW offset \in 0 .. Len(buf), FrameThere(buf, offset)
    PROVE  /\ Past(buf, offset) \in offset + HeaderSize .. Len(buf)
           /\ FrameAt(buf, offset) \in Frames
<1>1. HeaderAt(buf, offset) \in Bytes /\ Len(HeaderAt(buf, offset)) = 5
  BY DEF FrameThere, HeaderAt, HeaderSize, Bytes
<1>2. /\ HeaderAt(buf, offset)[3] \in Nat /\ HeaderAt(buf, offset)[4] \in Nat
      /\ HeaderAt(buf, offset)[5] \in Nat
  <2>1. 3 \in 1 .. 5 /\ 4 \in 1 .. 5 /\ 5 \in 1 .. 5
    OBVIOUS
  <2>. QED  BY <1>1, <2>1, ByteAt
<1>3. Past(buf, offset) \in offset + HeaderSize .. Len(buf)
  BY <1>2 DEF Past, FrameThere, HeaderSize
<1>4. SubSeq(buf, offset + HeaderSize + 1, Past(buf, offset)) \in Seq(Nat)
  BY <1>3 DEF HeaderSize, Bytes
<1>. QED  BY <1>2, <1>3, <1>4 DEF FrameAt, FrameOf, Frames

\* The function that the parser computes is defined, and its value at 0 is the outcome.
LEMMA ParserIs ==
    ASSUME NEW buf \in Bytes
    PROVE  \E from : /\ from = [offset \in 0 .. Len(buf) |-> OutcomeAt(buf, from, offset)]
                     /\ ParseFrames(buf) = from[0]
<1>n. PICK n \in Nat : n = Len(buf)
  BY DEF Bytes
<1> DEFINE Solves(from, m) ==
             /\ from = [offset \in 0 .. n |-> from[offset]]
             /\ \A offset \in 0 .. n : n - offset < m => from[offset] = OutcomeAt(buf, from, offset)
           S == {m \in Nat : \E from : Solves(from, m)}
<1>1. 0 \in S
  <2>. PICK from : from = [offset \in 0 .. n |-> 0]
    OBVIOUS
  <2>1. Solves(from, 0)
    OBVIOUS
  <2>. QED  BY <2>1
<1>2. ASSUME NEW m \in Nat, m \in S
      PROVE  m + 1 \in S
  <2>1. PICK from : Solves(from, m)
    BY <1>2
  <2>2. CASE m > n
    BY <2>1, <2>2
  <2>3. CASE m <= n
    <3>1. PICK here \in 0 .. n : here = n - m
      BY <2>3
    <3>2. PICK next : next = [from EXCEPT ![here] = OutcomeAt(buf, from, here)]
      OBVIOUS
    <3>3. /\ next = [offset \in 0 .. n |-> next[offset]]
          /\ next[here] = OutcomeAt(buf, from, here)
          /\ \A offset \in 0 .. n : offset # here => next[offset] = from[offset]
      BY <2>1, <3>2
    <3>4. ASSUME NEW offset \in 0 .. n, n - offset < m + 1
          PROVE  next[offset] = OutcomeAt(buf, next, offset)
      <4>1. OutcomeAt(buf, next, offset) = OutcomeAt(buf, from, offset)
        <5>1. CASE FrameThere(buf, offset)
          <6>1. Past(buf, offset) \in 0 .. n /\ Past(buf, offset) # here
            BY <1>n, <3>1, <3>4, <5>1, Forward DEF HeaderSize
          <6>2. next[Past(buf, offset)] = from[Past(buf, offset)]
            BY <3>3, <6>1
          <6>. QED  BY <6>2 DEF OutcomeAt
        <5>2. CASE ~FrameThere(buf, offset)
          BY <5>2 DEF FrameThere, OutcomeAt
        <5>. QED  BY <5>1, <5>2
      <4>2. CASE offset = here
        BY <3>3, <4>1, <4>2
      <4>3. CASE offset # here
        <5>1. n - offset < m
          BY <3>1, <3>4, <4>3
        <5>. QED  BY <2>1, <3>3, <4>1, <4>3, <5>1
      <4>. QED  BY <4>2, <4>3
    <3>. QED  BY <3>3, <3>4
  <2>. QED  BY <2>2, <2>3
<1>3. n + 1 \in S
  <2> HIDE DEF S
  <2>. QED  BY <1>1, <1>2, Induction
<1>4. PICK known : Solves(known, n + 1)
  BY <1>3
<1>5. known = [offset \in 0 .. Len(buf) |-> OutcomeAt(buf, known, offset)]
  BY <1>4, <1>n
<1> DEFINE parser == CHOOSE from : from = [offset \in 0 .. Len(buf) |-> OutcomeAt(buf, from, offset)]
<1>6. parser = [offset \in 0 .. Len(buf) |-> OutcomeAt(buf, parser, offset)]
  BY <1>5
<1>7. ParseFrames(buf) = parser[0]
  BY DEF ParseFrames, OutcomeAt, RestAt, FrameAt, Past, HeaderAt
<1> HIDE DEF parser
<1>. QED  BY <1>6, <1>7

\* The fields of an outcome of the parser.
LEMMA Outcomes ==
    /\ Failed.ok = FALSE /\ Failed.frames = <<>> /\ Failed.rest = <<>>
    /\ \A list, rest : /\ Parsed(list, rest).ok = TRUE /\ Parsed(list, rest).frames = list
                       /\ Parsed(list, rest).rest = rest
BY DEF Failed, Parsed

\* The same, of an outcome with a name.
LEMMA ParsedIs ==
    ASSUME NEW list, NEW rest, NEW outcome, outcome = Parsed(list, rest)
    PROVE  outcome.frames = list /\ outcome.rest = rest
BY DEF Parsed

\* What the parser returns.
LEMMA ParserTypes ==
    ASSUME NEW buf \in Bytes, NEW from,
           from = [offset \in 0 .. Len(buf) |-> OutcomeAt(buf, from, offset)]
    PROVE  \A offset \in 0 .. Len(buf) :
               from[offset].ok \in BOOLEAN /\ from[offset].frames \in Seq(Frames) /\ from[offset].rest \in Bytes
<1>n. PICK n \in Nat : n = Len(buf)
  BY DEF Bytes
<1> DEFINE Typed(offset) ==
             from[offset].ok \in BOOLEAN /\ from[offset].frames \in Seq(Frames) /\ from[offset].rest \in Bytes
           S == {m \in Nat : \A offset \in 0 .. n : n - offset <= m => Typed(offset)}
<1>1. ASSUME NEW offset \in 0 .. n, \A past \in offset + 1 .. n : Typed(past)
      PROVE  Typed(offset)
  <2>1. from[offset] = OutcomeAt(buf, from, offset)
    BY <1>n
  <2>2. RestAt(buf, offset) \in Bytes /\ <<>> \in Bytes /\ <<>> \in Seq(Frames)
    BY <1>n DEF RestAt, Bytes
  <2>3. CASE FrameThere(buf, offset)
    <3>1. Past(buf, offset) \in offset + 1 .. n /\ FrameAt(buf, offset) \in Frames
      BY <1>n, <2>3, Forward DEF HeaderSize
    <3>2. Typed(Past(buf, offset))
      BY <1>1, <3>1
    <3>3. <<FrameAt(buf, offset)>> \o from[Past(buf, offset)].frames \in Seq(Frames)
      BY <3>1, <3>2
    <3>4. from[offset] \in
            {Failed, Parsed(<<FrameAt(buf, offset)>> \o from[Past(buf, offset)].frames,
                            from[Past(buf, offset)].rest)}
      BY <2>1, <2>3 DEF OutcomeAt, FrameThere
    <3>5. Typed(offset) <=> /\ from[offset].ok \in BOOLEAN /\ from[offset].frames \in Seq(Frames)
                            /\ from[offset].rest \in Bytes
      OBVIOUS
    <3> HIDE DEF Typed
    <3>6. CASE from[offset] = Failed
      BY <2>2, <3>5, <3>6, Outcomes
    <3>7. CASE from[offset] = Parsed(<<FrameAt(buf, offset)>> \o from[Past(buf, offset)].frames,
                                     from[Past(buf, offset)].rest)
      <4>1. from[Past(buf, offset)].rest \in Bytes
        BY <3>2 DEF Typed
      <4>. QED  BY <3>3, <3>5, <3>7, <4>1, Outcomes, SMTT(30)
    <3>. QED  BY <3>4, <3>6, <3>7
  <2>4. CASE ~FrameThere(buf, offset)
    <3>1. from[offset] \in {Failed, Parsed(<<>>, RestAt(buf, offset))}
      BY <2>1, <2>4 DEF OutcomeAt, FrameThere
    <3>. QED  BY <2>2, <3>1 DEF Failed, Parsed
  <2>. QED  BY <2>3, <2>4
<1> HIDE DEF Typed
<1>2. 0 \in S
  BY <1>1
<1>3. ASSUME NEW m \in Nat, m \in S
      PROVE  m + 1 \in S
  <2>1. ASSUME NEW offset \in 0 .. n, n - offset <= m + 1
        PROVE  Typed(offset)
    <3>1. \A past \in offset + 1 .. n : past \in 0 .. n /\ n - past <= m
      BY <2>1
    <3>2. \A past \in offset + 1 .. n : Typed(past)
      BY <1>3, <3>1
    <3>. QED  BY <1>1, <3>2
  <2>. QED  BY <2>1
<1>4. n \in S
  <2> HIDE DEF S
  <2>. QED  BY <1>2, <1>3, Induction
<1>5. \A offset \in 0 .. n : Typed(offset)
  BY <1>4
<1>. QED  BY <1>5, <1>n DEF Typed

\* What is before a place, and what is behind it, of bytes that begin with others.
LEMMA Cancelled ==
    ASSUME NEW s \in Bytes, NEW t \in Bytes, NEW e \in Bytes, NEW u \in Bytes,
           s \o t = e \o u, Len(e) <= Len(s)
    PROVE  /\ e = SubSeq(s, 1, Len(e))
           /\ u = SubSeq(s, Len(e) + 1, Len(s)) \o t
<1>. PICK b \in Bytes : b = s \o t
  BY Joined
<1>1. /\ Len(s) \in Nat /\ Len(t) \in Nat /\ Len(e) \in Nat /\ Len(u) \in Nat /\ Len(b) \in Nat
      /\ Len(b) = Len(s) + Len(t) /\ Len(b) = Len(e) + Len(u)
  BY Joined DEF Bytes
<1>2. \A i \in 1 .. Len(b) : b[i] = IF i <= Len(s) THEN s[i] ELSE t[i - Len(s)]
  BY SMTT(30) DEF Bytes
<1>3. \A i \in 1 .. Len(b) : b[i] = IF i <= Len(e) THEN e[i] ELSE u[i - Len(e)]
  BY DEF Bytes
<1>4. \A i \in 1 .. Len(e) : e[i] = s[i]
  BY <1>1, <1>2, <1>3
<1>5. e = SubSeq(s, 1, Len(e))
  BY <1>1, <1>4 DEF Bytes
<1>f. PICK f \in Bytes : f = SubSeq(s, Len(e) + 1, Len(s))
  <2>1. Len(e) \in 0 .. Len(s)
    BY <1>1
  <2>. QED  BY <2>1, PartTypes
<1>6. Len(f) = Len(s) - Len(e) /\ \A i \in 1 .. Len(f) : f[i] = s[i + Len(e)]
  BY <1>1, <1>f, PartTypes, SMTT(30)
<1>7. /\ f \o t \in Bytes /\ Len(f \o t) = Len(u)
      /\ \A i \in 1 .. Len(u) : (f \o t)[i] = IF i <= Len(f) THEN f[i] ELSE t[i - Len(f)]
  <2>1. f \o t \in Bytes /\ Len(f \o t) = Len(f) + Len(t)
    BY Joined
  <2>2. \A i \in 1 .. Len(f) + Len(t) : (f \o t)[i] = IF i <= Len(f) THEN f[i] ELSE t[i - Len(f)]
    BY DEF Bytes
  <2>3. Len(f) + Len(t) = Len(u)
    BY <1>1, <1>6
  <2>. QED  BY <2>1, <2>2, <2>3
<1>8. ASSUME NEW i \in 1 .. Len(u)
      PROVE  u[i] = (f \o t)[i]
  <2>1. /\ i + Len(e) \in 1 .. Len(b) /\ ~(i + Len(e) <= Len(e)) /\ (i + Len(e)) - Len(e) = i
        /\ (i + Len(e)) - Len(s) = i - Len(f) /\ (i + Len(e) <= Len(s) <=> i <= Len(f))
    <3>1. Len(f) = Len(s) - Len(e) /\ Len(u) = Len(b) - Len(e) /\ i \in Nat /\ i >= 1 /\ i <= Len(u)
      BY <1>1, <1>6
    <3>. QED  BY <1>1, <3>1
  <2>2. u[i] = b[i + Len(e)]
    BY <1>3, <2>1
  <2>3. CASE i <= Len(f)
    <3>1. b[i + Len(e)] = s[i + Len(e)] /\ i \in 1 .. Len(f)
      BY <1>1, <1>2, <1>6, <2>1, <2>3
    <3>. QED  BY <1>6, <1>7, <2>2, <2>3, <3>1
  <2>4. CASE ~(i <= Len(f))
    <3>1. b[i + Len(e)] = t[i - Len(f)]
      BY <1>2, <2>1, <2>4
    <3>. QED  BY <1>7, <2>2, <2>4, <3>1
  <2>. QED  BY <2>3, <2>4
<1>9. u = f \o t
  <2>. PICK g \in Bytes : g = f \o t
    BY <1>7
  <2>1. Len(g) = Len(u) /\ \A i \in 1 .. Len(u) : u[i] = g[i]
    BY <1>7, <1>8
  <2>2. u = g
    BY <2>1, SameBytes
  <2>. QED  BY <2>2
<1>. QED  BY <1>5, <1>9, <1>f

\* The frame that is parsed is the first of those that were encoded.
LEMMA FrameParsed ==
    ASSUME NEW buf \in Bytes, NEW more \in Bytes, NEW offset \in 0 .. Len(buf), FrameThere(buf, offset),
           NEW list \in Seq(Frames), Encodes(RestAt(buf, offset) \o more, list)
    PROVE  /\ list # <<>> /\ FrameAt(buf, offset) = Head(list)
           /\ Encodes(RestAt(buf, Past(buf, offset)) \o more, Tail(list))
<1>b. /\ Len(buf) \in Nat /\ offset \in Nat /\ offset + HeaderSize <= Len(buf) /\ HeaderSize = 5
  BY DEF FrameThere, HeaderSize, Bytes
<1>p. PICK past \in offset + HeaderSize .. Len(buf) : past = Past(buf, offset)
  BY Forward
<1>r. PICK r \in Bytes : r = RestAt(buf, offset)
  BY PartTypes DEF RestAt
<1>1. Len(r) = Len(buf) - offset /\ \A i \in 1 .. Len(r) : r[i] = buf[i + offset]
  BY <1>r, PartTypes DEF RestAt
<1>2. r \o more \in Bytes /\ Len(r \o more) = Len(r) + Len(more) /\ Len(more) \in Nat
  BY Joined DEF Bytes
<1>3. r \o more # <<>>
  BY <1>1, <1>2, <1>b
<1>4. list # <<>> /\ \E t \in Bytes : r \o more = Encode(Head(list)) \o t /\ Encodes(t, Tail(list))
  BY <1>3, <1>r, EncodesFirst
<1>f. PICK frame \in Frames : frame = Head(list)
  BY <1>4
<1>e. PICK e \in Bytes : e = Encode(frame)
  BY EncodeIs
<1>5. PICK t \in Bytes : r \o more = e \o t /\ Encodes(t, Tail(list))
  BY <1>4, <1>e, <1>f
<1>6. /\ Len(e) = 5 + Len(frame.payload) /\ e[3] = frame.flags /\ e[4] = frame.type
      /\ e[5] = Len(frame.payload) /\ Len(frame.payload) \in Nat
      /\ SubSeq(e, 6, Len(e)) = frame.payload
  <2>1. /\ Len(e) = 5 + Len(frame.payload) /\ e[3] = frame.flags /\ e[4] = frame.type
        /\ e[5] = Len(frame.payload)
        /\ SubSeq(e, HeaderSize + 1, HeaderSize + Len(frame.payload)) = frame.payload
    BY <1>b, <1>e, EncodeIs
  <2>2. HeaderSize + 1 = 6 /\ HeaderSize + Len(frame.payload) = Len(e)
    BY <1>b, <2>1
  <2>3. Len(frame.payload) \in Nat
    BY DEF Frames
  <2>4. SubSeq(e, 6, Len(e)) = frame.payload
    BY <2>1, <2>2
  <2>. QED  BY <2>1, <2>3, <2>4
<1>7. \A k \in 1 .. 5 : e[k] = HeaderAt(buf, offset)[k]
  <2> TAKE k \in 1 .. 5
  <2>1. k \in 1 .. Len(e) /\ k \in 1 .. Len(r)
    BY <1>1, <1>6, <1>b
  <2>2. (e \o t)[k] = e[k] /\ (r \o more)[k] = r[k]
    BY <2>1, InFront
  <2>3. HeaderAt(buf, offset)[k] = buf[k + offset]
    <3>1. offset + 5 \in offset .. Len(buf) /\ (offset + 5) - offset = 5
      BY <1>b
    <3>2. \A i \in 1 .. 5 : SubSeq(buf, offset + 1, offset + 5)[i] = buf[i + offset]
      BY <3>1, PartIs, SMTT(30)
    <3>. QED  BY <1>b, <3>2 DEF HeaderAt
  <2>. QED  BY <1>1, <1>5, <2>1, <2>2, <2>3
<1>8. past = offset + Len(e)
  <2>1. HeaderAt(buf, offset)[5] = Len(frame.payload)
    BY <1>6, <1>7
  <2>2. past = offset + 5 + HeaderAt(buf, offset)[5]
    BY <1>b, <1>p DEF Past
  <2>3. PICK k \in Nat : k = Len(frame.payload)
    BY <1>6
  <2>4. past = offset + 5 + k /\ Len(e) = 5 + k
    BY <1>6, <2>1, <2>2, <2>3
  <2>5. offset + 5 + k = offset + (5 + k)
    BY <1>b
  <2>. QED  BY <2>4, <2>5, Zenon
<1>9. Len(e) <= Len(r) /\ Len(e) \in Nat /\ Len(r) \in Nat
  BY <1>1, <1>6, <1>8, <1>b
<1>10. /\ e = SubSeq(r, 1, Len(e))
       /\ t = SubSeq(r, Len(e) + 1, Len(r)) \o more
  BY <1>5, <1>9, Cancelled
<1>a. Len(e) \in 0 .. Len(r) /\ past \in 0 .. Len(buf)
  BY <1>9, <1>b
<1>11. SubSeq(r, Len(e) + 1, Len(r)) = RestAt(buf, past)
  <2>s. PICK s \in Bytes : s = SubSeq(r, Len(e) + 1, Len(r))
    BY <1>a, PartTypes
  <2>u. PICK u \in Bytes : u = RestAt(buf, past)
    BY <1>a, PartTypes DEF RestAt
  <2>1. Len(s) = Len(r) - Len(e) /\ \A i \in 1 .. Len(r) - Len(e) : s[i] = r[i + Len(e)]
    BY <1>a, <2>s, PartTypes
  <2>2. Len(u) = Len(buf) - past /\ \A i \in 1 .. Len(buf) - past : u[i] = buf[i + past]
    BY <1>a, <2>u, PartTypes DEF RestAt
  <2>3. Len(r) - Len(e) = Len(buf) - past
    BY <1>1, <1>8, <1>9, <1>b
  <2>4. ASSUME NEW i \in 1 .. Len(s)
        PROVE  s[i] = u[i]
    <3>1. i + Len(e) \in 1 .. Len(r) /\ (i + Len(e)) + offset = i + past
      BY <1>8, <1>9, <1>b, <2>1
    <3>. QED  BY <1>1, <2>1, <2>2, <2>3, <3>1
  <2>5. s = u
    BY <2>1, <2>2, <2>3, <2>4, SameBytes
  <2>. QED  BY <2>5, <2>s, <2>u
<1>12. SubSeq(buf, offset + HeaderSize + 1, past) = frame.payload
  <2>p. PICK p \in Bytes : p = frame.payload
    BY DEF Frames, Bytes
  <2>0. offset + 5 \in 0 .. Len(buf) /\ past \in offset + 5 .. Len(buf) /\ past - (offset + 5) = Len(e) - 5
    BY <1>8, <1>9, <1>b
  <2>q. PICK q \in Bytes : q = SubSeq(buf, (offset + 5) + 1, past)
    BY <2>0, PartIs
  <2>1. Len(p) = Len(e) - 5 /\ \A i \in 1 .. Len(e) - 5 : p[i] = e[i + 5]
    <3>1. SubSeq(e, 5 + 1, Len(e)) = p /\ 5 \in 0 .. Len(e)
      BY <1>6, <1>9, <2>p
    <3>. QED  BY <3>1, PartTypes
  <2>2. Len(q) = Len(e) - 5 /\ \A i \in 1 .. Len(e) - 5 : q[i] = buf[i + (offset + 5)]
    <3>1. /\ Len(q) = past - (offset + 5)
          /\ \A i \in 1 .. past - (offset + 5) : q[i] = buf[i + (offset + 5)]
      BY <2>0, <2>q, PartIs
    <3>. QED  BY <2>0, <3>1
  <2>3. ASSUME NEW i \in 1 .. Len(e) - 5
        PROVE  e[i + 5] = buf[i + (offset + 5)]
    <3>1. i + 5 \in 1 .. Len(e) /\ i + 5 \in 1 .. Len(r) /\ (i + 5) + offset = i + (offset + 5)
      BY <1>9, <1>b
    <3>2. (e \o t)[i + 5] = e[i + 5] /\ (r \o more)[i + 5] = r[i + 5]
      BY <3>1, InFront
    <3>. QED  BY <1>1, <1>5, <3>1, <3>2
  <2>4. p = q
    <3>1. Len(p) = Len(q) /\ \A i \in 1 .. Len(p) : p[i] = q[i]
      BY <2>1, <2>2, <2>3
    <3>. QED  BY <3>1, SameBytes
  <2>. QED  BY <2>4, <2>p, <2>q, <1>b
<1>13. FrameAt(buf, offset) = frame
  <2>1. HeaderAt(buf, offset)[3] = frame.flags /\ HeaderAt(buf, offset)[4] = frame.type
    BY <1>6, <1>7
  <2>2. FrameAt(buf, offset) = [type |-> frame.type, flags |-> frame.flags, payload |-> frame.payload]
    BY <1>12, <1>p, <2>1 DEF FrameAt, FrameOf
  <2>. QED  BY <2>2 DEF Frames
<1>. QED  BY <1>4, <1>5, <1>10, <1>11, <1>13, <1>f, <1>p

\* The frames that the parser takes from a buffer are the first of those that
\* were encoded, and what it leaves there is the front of the others (protocol.rs
\* l.270-293).
THEOREM ParserSound ==
    ASSUME NEW buf \in Bytes, NEW more \in Bytes, NEW list \in Seq(Frames),
           Encodes(buf \o more, list), ParseFrames(buf).ok
    PROVE  \E k \in 0 .. Len(list) :
               /\ ParseFrames(buf).frames = SubSeq(list, 1, k)
               /\ Encodes(ParseFrames(buf).rest \o more, SubSeq(list, k + 1, Len(list)))
<1>n. PICK n \in Nat : n = Len(buf)
  BY DEF Bytes
<1>1. PICK from : /\ from = [offset \in 0 .. n |-> OutcomeAt(buf, from, offset)]
                  /\ ParseFrames(buf) = from[0]
  BY <1>n, ParserIs
<1> DEFINE Sound(offset) ==
             \A l \in Seq(Frames) : from[offset].ok /\ Encodes(RestAt(buf, offset) \o more, l) =>
                 \E k \in 0 .. Len(l) :
                     /\ from[offset].frames = SubSeq(l, 1, k)
                     /\ Encodes(from[offset].rest \o more, SubSeq(l, k + 1, Len(l)))
           S == {m \in Nat : \A offset \in 0 .. n : n - offset <= m => Sound(offset)}
<1>2. ASSUME NEW offset \in 0 .. n, \A past \in offset + 1 .. n : Sound(past)
      PROVE  Sound(offset)
  <2> SUFFICES ASSUME NEW l \in Seq(Frames), from[offset].ok, Encodes(RestAt(buf, offset) \o more, l)
               PROVE  \E k \in 0 .. Len(l) :
                         /\ from[offset].frames = SubSeq(l, 1, k)
                         /\ Encodes(from[offset].rest \o more, SubSeq(l, k + 1, Len(l)))
    OBVIOUS
  <2>1. from[offset] = OutcomeAt(buf, from, offset)
    BY <1>1
  <2>2. CASE FrameThere(buf, offset)
    <3>1. PICK past \in offset + 1 .. n : past = Past(buf, offset)
      BY <1>n, <2>2, Forward DEF HeaderSize
    <3>2. /\ l # <<>> /\ FrameAt(buf, offset) = Head(l)
          /\ Encodes(RestAt(buf, past) \o more, Tail(l))
      BY <1>n, <2>2, <3>1, FrameParsed
    <3>3. /\ from[past].ok
          /\ from[offset] = Parsed(<<FrameAt(buf, offset)>> \o from[past].frames, from[past].rest)
      BY <2>1, <2>2, <3>1, Outcomes DEF OutcomeAt, FrameThere
    <3>4. Tail(l) \in Seq(Frames)
      BY <3>2
    <3>5. PICK k \in 0 .. Len(Tail(l)) :
            /\ from[past].frames = SubSeq(Tail(l), 1, k)
            /\ Encodes(from[past].rest \o more, SubSeq(Tail(l), k + 1, Len(Tail(l))))
      BY <1>2, <3>2, <3>3, <3>4
    <3>6. /\ k + 1 \in 0 .. Len(l)
          /\ <<Head(l)>> \o SubSeq(Tail(l), 1, k) = SubSeq(l, 1, k + 1)
          /\ SubSeq(Tail(l), k + 1, Len(Tail(l))) = SubSeq(l, (k + 1) + 1, Len(l))
      BY <3>2
    <3>7. /\ from[offset].frames = <<Head(l)>> \o SubSeq(Tail(l), 1, k)
          /\ from[offset].rest = from[past].rest
      <4>1. PICK fs : fs = <<Head(l)>> \o SubSeq(Tail(l), 1, k)
        OBVIOUS
      <4>2. from[offset] = Parsed(fs, from[past].rest)
        BY <3>2, <3>3, <3>5, <4>1, Zenon
      <4>3. from[offset].frames = fs /\ from[offset].rest = from[past].rest
        BY <4>2, ParsedIs
      <4>. QED  BY <4>1, <4>3
    <3>8. /\ from[offset].frames = SubSeq(l, 1, k + 1)
          /\ Encodes(from[offset].rest \o more, SubSeq(l, (k + 1) + 1, Len(l)))
      BY <3>5, <3>6, <3>7, Zenon
    <3>. QED  BY <3>6, <3>8, Zenon
  <2>3. CASE ~FrameThere(buf, offset)
    <3>1. from[offset] = Parsed(<<>>, RestAt(buf, offset))
      BY <2>1, <2>3, Outcomes DEF OutcomeAt, FrameThere
    <3>2. 0 \in 0 .. Len(l) /\ SubSeq(l, 1, 0) = <<>> /\ SubSeq(l, 0 + 1, Len(l)) = l
      OBVIOUS
    <3>3. from[offset].frames = <<>> /\ from[offset].rest = RestAt(buf, offset)
      BY <3>1, ParsedIs
    <3>4. /\ from[offset].frames = SubSeq(l, 1, 0)
          /\ Encodes(from[offset].rest \o more, SubSeq(l, 0 + 1, Len(l)))
      BY <3>2, <3>3, Zenon
    <3>. QED  BY <3>2, <3>4, Zenon
  <2>. QED  BY <2>2, <2>3
<1>3. 0 \in S /\ \A m \in Nat : m \in S => m + 1 \in S
  <2> HIDE DEF Sound
  <2>1. 0 \in S
    BY <1>2
  <2>2. ASSUME NEW m \in Nat, m \in S
        PROVE  m + 1 \in S
    <3>1. ASSUME NEW offset \in 0 .. n, n - offset <= m + 1
          PROVE  Sound(offset)
      <4>1. \A past \in offset + 1 .. n : past \in 0 .. n /\ n - past <= m
        BY <3>1
      <4>2. \A past \in offset + 1 .. n : Sound(past)
        BY <2>2, <4>1
      <4>. QED  BY <1>2, <4>2
    <3>. QED  BY <3>1
  <2>. QED  BY <2>1, <2>2
<1>4. Sound(0)
  <2> HIDE DEF Sound
  <2>1. n \in S
    <3> HIDE DEF S
    <3>. QED  BY <1>3, Induction
  <2>. QED  BY <2>1
<1>5. RestAt(buf, 0) = buf
  BY DEF RestAt, Bytes
<1>. QED  BY <1>1, <1>4, <1>5

\* And it takes all that are complete: what it leaves is shorter than a header, or
\* than the frame that its header announces (protocol.rs l.274, 282-285).
THEOREM ParserTakesAll ==
    ASSUME NEW buf \in Bytes, NEW rest, rest = ParseFrames(buf).rest, ParseFrames(buf).ok
    PROVE  Len(rest) < HeaderSize \/ Len(rest) < HeaderSize + rest[5]
<1>n. PICK n \in Nat : n = Len(buf)
  BY DEF Bytes
<1>1. PICK from : /\ from = [offset \in 0 .. n |-> OutcomeAt(buf, from, offset)]
                  /\ ParseFrames(buf) = from[0]
  BY <1>n, ParserIs
<1> DEFINE Short(offset) == offset + HeaderSize > n \/ Past(buf, offset) > n
           AllTaken(offset) ==
             from[offset].ok => \E o \in 0 .. n : from[offset].rest = RestAt(buf, o) /\ Short(o)
           S == {m \in Nat : \A offset \in 0 .. n : n - offset <= m => AllTaken(offset)}
<1>2. ASSUME NEW offset \in 0 .. n, \A past \in offset + 1 .. n : AllTaken(past)
      PROVE  AllTaken(offset)
  <2> HIDE DEF Short
  <2> SUFFICES ASSUME from[offset].ok
               PROVE  \E o \in 0 .. n : from[offset].rest = RestAt(buf, o) /\ Short(o)
    OBVIOUS
  <2>1. from[offset] = OutcomeAt(buf, from, offset)
    BY <1>1
  <2>2. CASE FrameThere(buf, offset)
    <3>1. PICK past \in offset + 1 .. n : past = Past(buf, offset)
      BY <1>n, <2>2, Forward DEF HeaderSize
    <3>2. /\ from[past].ok
          /\ from[offset] = Parsed(<<FrameAt(buf, offset)>> \o from[past].frames, from[past].rest)
      BY <2>1, <2>2, <3>1, Outcomes DEF OutcomeAt, FrameThere
    <3>3. from[offset].rest = from[past].rest
      BY <3>2, Outcomes
    <3>. QED  BY <1>2, <3>2, <3>3
  <2>3. CASE ~FrameThere(buf, offset)
    <3>1. from[offset] = Parsed(<<>>, RestAt(buf, offset)) /\ Short(offset)
      BY <1>n, <2>1, <2>3, Outcomes DEF OutcomeAt, FrameThere, Short
    <3>2. from[offset].rest = RestAt(buf, offset)
      BY <3>1, ParsedIs
    <3>. QED  BY <3>1, <3>2
  <2>. QED  BY <2>2, <2>3
<1>3. 0 \in S /\ \A m \in Nat : m \in S => m + 1 \in S
  <2> HIDE DEF AllTaken
  <2>1. 0 \in S
    BY <1>2
  <2>2. ASSUME NEW m \in Nat, m \in S
        PROVE  m + 1 \in S
    <3>1. ASSUME NEW offset \in 0 .. n, n - offset <= m + 1
          PROVE  AllTaken(offset)
      <4>1. \A past \in offset + 1 .. n : past \in 0 .. n /\ n - past <= m
        BY <3>1
      <4>2. \A past \in offset + 1 .. n : AllTaken(past)
        BY <2>2, <4>1
      <4>. QED  BY <1>2, <4>2
    <3>. QED  BY <3>1
  <2>. QED  BY <2>1, <2>2
<1>4. AllTaken(0)
  <2> HIDE DEF AllTaken
  <2>1. n \in S
    <3> HIDE DEF S
    <3>. QED  BY <1>3, Induction
  <2>. QED  BY <2>1
<1>5. PICK o \in 0 .. n : rest = RestAt(buf, o) /\ Short(o)
  <2> HIDE DEF Short
  <2>. QED  BY <1>1, <1>4
<1>6. /\ rest \in Bytes /\ Len(rest) = n - o /\ \A i \in 1 .. Len(rest) : rest[i] = buf[i + o]
  BY <1>n, <1>5, PartTypes DEF RestAt
<1>7. HeaderSize = 5
  BY DEF HeaderSize
<1>8. ASSUME o + HeaderSize <= n
      PROVE  HeaderAt(buf, o)[5] = rest[5]
  <2>1. 5 \in 1 .. Len(rest)
    BY <1>6, <1>7, <1>8
  <2>2. SubSeq(buf, o + 1, o + 5)[5] = buf[5 + o]
    BY <1>n, <1>7, <1>8 DEF Bytes
  <2>. QED  BY <1>6, <1>7, <2>1, <2>2 DEF HeaderAt
<1>9. CASE o + HeaderSize > n
  BY <1>6, <1>7, <1>9
<1>10. CASE o + HeaderSize <= n
  <2>1. Past(buf, o) > n /\ Past(buf, o) = o + HeaderSize + rest[5]
    BY <1>5, <1>7, <1>8, <1>10 DEF Past
  <2>2. rest[5] \in Nat
    BY <1>6, <1>7, <1>10, ByteAt
  <2>. QED  BY <1>6, <1>7, <2>1, <2>2
<1>. QED  BY <1>7, <1>9, <1>10

\* What it returns is of the types of the model, whatever the buffer.
LEMMA ParseTypes ==
    ASSUME NEW buf \in Bytes
    PROVE  /\ ParseFrames(buf).ok \in BOOLEAN /\ ParseFrames(buf).frames \in Seq(Frames)
           /\ ParseFrames(buf).rest \in Bytes
<1>1. PICK from : /\ from = [offset \in 0 .. Len(buf) |-> OutcomeAt(buf, from, offset)]
                  /\ ParseFrames(buf) = from[0]
  BY ParserIs
<1>2. 0 \in 0 .. Len(buf)
  BY DEF Bytes
<1>. QED  BY <1>1, <1>2, ParserTypes

================================================================================
