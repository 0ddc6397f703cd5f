----------------------------- MODULE FramingProofs ----------------------------
(***************************************************************************)
(* Facts about messages that travel as units, for all messages and sizes:  *)
(* what a frame is that is taken where a message begins.  The proofs about *)
(* the client and about the server rest on them.                           *)
(***************************************************************************)
EXTENDS Framing, Integers, SequenceTheorems, TLAPS

-------------------------------------------------------------------------------
(***************************************************************************)
(* Sequences.                                                              *)
(***************************************************************************)
\* The front of a sequence and what is left behind it.
LEMMA Divided ==
  ASSUME NEW S, NEW s \in Seq(S), NEW n \in 0..Len(s)
  PROVE  /\ Take(s, n) \in Seq(S) /\ Len(Take(s, n)) = n
         /\ \A i \in 1..n : Take(s, n)[i] = s[i]
         /\ Drop(s, n) \in Seq(S) /\ Len(Drop(s, n)) = Len(s) - n
         /\ \A i \in 1..(Len(s) - n) : Drop(s, n)[i] = s[n + i]
<1>1. Len(s) \in Nat /\ n \in Nat /\ \A i \in 1..Len(s) : s[i] \in S
  OBVIOUS
<1>2. (\A i \in 1..n : s[i] \in S) /\ (\A i \in (n + 1)..Len(s) : s[i] \in S)
  BY <1>1
<1>3. /\ SubSeq(s, 1, n) \in Seq(S)
      /\ Len(SubSeq(s, 1, n)) = IF 1 <= n THEN n - 1 + 1 ELSE 0
      /\ \A i \in 1..(n - 1 + 1) : SubSeq(s, 1, n)[i] = s[1 + i - 1]
  BY <1>1, <1>2, SubSeqProperties
<1>4. /\ SubSeq(s, n + 1, Len(s)) \in Seq(S)
      /\ Len(SubSeq(s, n + 1, Len(s)))
           = IF n + 1 <= Len(s) THEN Len(s) - (n + 1) + 1 ELSE 0
      /\ \A i \in 1..(Len(s) - (n + 1) + 1) : SubSeq(s, n + 1, Len(s))[i] = s[n + 1 + i - 1]
  <2>1. n + 1 \in Int /\ Len(s) \in Int
    BY <1>1
  <2> QED BY <1>2, <2>1, SubSeqProperties
<1>5. \A i \in 1..n : 1 + i - 1 = i
  OBVIOUS
<1>6. \A i \in 1..(Len(s) - n) : n + 1 + i - 1 = n + i
  BY <1>1
<1>7. n - 1 + 1 = n /\ Len(s) - (n + 1) + 1 = Len(s) - n
  BY <1>1
<1>8. Len(s) - n = IF n + 1 <= Len(s) THEN Len(s) - (n + 1) + 1 ELSE 0
  <2>1. \A k \in Nat : \A j \in 0..k : k - j = IF j + 1 <= k THEN k - (j + 1) + 1 ELSE 0
    OBVIOUS
  <2> QED BY <1>1, <2>1
<1> HIDE DEF Take, Drop
<1>9. /\ Take(s, n) \in Seq(S) /\ Len(Take(s, n)) = n
      /\ \A i \in 1..n : Take(s, n)[i] = s[i]
  BY <1>1, <1>3, <1>5, <1>7 DEF Take
<1>10. /\ Drop(s, n) \in Seq(S) /\ Len(Drop(s, n)) = Len(s) - n
       /\ \A i \in 1..(Len(s) - n) : Drop(s, n)[i] = s[n + i]
  <2>1. Drop(s, n) = SubSeq(s, n + 1, Len(s))
    BY DEF Drop
  <2>2. Len(Drop(s, n)) = Len(s) - n
    BY <1>4, <1>8, <2>1, Zenon
  <2>3. \A i \in 1..(Len(s) - n) : Drop(s, n)[i] = s[n + i]
    BY <1>4, <1>6, <1>7, <2>1
  <2> QED BY <1>4, <2>1, <2>2, <2>3
<1> QED BY <1>9, <1>10

LEMMA Joined ==
  ASSUME NEW S, NEW s \in Seq(S), NEW t \in Seq(S)
  PROVE  /\ s \o t \in Seq(S) /\ Len(s \o t) = Len(s) + Len(t)
         /\ \A i \in 1..Len(s) : (s \o t)[i] = s[i]
         /\ \A i \in 1..Len(t) : (s \o t)[Len(s) + i] = t[i]
OBVIOUS

LEMMA Appended ==
  ASSUME NEW S, NEW s \in Seq(S), NEW e \in S
  PROVE  /\ Len(s) \in Nat /\ Append(s, e) \in Seq(S) /\ Len(Append(s, e)) = Len(s) + 1
         /\ \A i \in 1..Len(s) : Append(s, e)[i] = s[i]
         /\ Append(s, e)[Len(s) + 1] = e
OBVIOUS

\* A place in a sequence that consists of two parts.
LEMMA Split ==
  ASSUME NEW k \in Nat, NEW n \in Nat, NEW i \in 1..(k + n)
  PROVE  i \in 1..k \/ \E j \in 1..n : i = k + j
<1>1. CASE i <= k
  BY <1>1
<1>2. CASE i > k
  <2>1. i - k \in 1..n /\ i = k + (i - k)
    BY <1>2
  <2> QED BY <2>1
<1> QED BY <1>1, <1>2

\* The bytes of a message.
LEMMA BytesOfMessage ==
  ASSUME NEW m \in Msgs
  PROVE  /\ Bytes(m) \in Seq(Units) /\ Header + Size[m] \in Nat
         /\ Len(Bytes(m)) = Header + Size[m] /\ Len(Bytes(m)) >= 2
         /\ \A i \in 1..(Header + Size[m]) : Bytes(m)[i] = [msg |-> m, at |-> i]
<1>1. Size[m] \in Nat /\ Header + Size[m] \in Nat /\ Header + Size[m] >= 2
  BY SizeAssumption DEF Header
<1>2. \A i \in 1..(Header + Size[m]) : [msg |-> m, at |-> i] \in Units
  BY DEF Units
<1>3. PICK n \in Nat : n = Header + Size[m]
  BY <1>1
<1>4. Bytes(m) = [i \in 1..n |-> [msg |-> m, at |-> i]]
  BY <1>3 DEF Bytes
<1>5. Bytes(m) \in [1..n -> Units]
  BY <1>2, <1>3, <1>4
<1>6. Bytes(m) \in Seq(Units) /\ Len(Bytes(m)) = n
  BY <1>5
<1> QED BY <1>1, <1>3, <1>4, <1>6

-------------------------------------------------------------------------------
(***************************************************************************)
(* The stream of a connection.  The j-th message sent begins behind off[j] *)
(* units; a window is a part of the stream that begins behind b units.     *)
(***************************************************************************)
Rising(off, l) ==
  /\ off \in [Nat -> Nat]
  /\ \A j \in 1..l : off[j] < off[j + 1]
  /\ \A i, j \in 1..(l + 1) : i <= j => off[i] <= off[j]

Layout(ms, l, off) ==
  /\ Rising(off, l)
  /\ \A j \in 1..l : ms[j] \in Msgs /\ off[j + 1] = off[j] + (Header + Size[ms[j]])

\* The first n units of u are the window behind b units.
Window(u, n, ms, l, off, b) ==
  \A i \in 1..n : \E j \in 1..l :
    /\ off[j] < b + i /\ b + i <= off[j + 1]
    /\ u[i].msg = ms[j] /\ u[i].at = b + i - off[j]

\* A place in the stream belongs to one message.
LEMMA Place ==
  ASSUME NEW l \in Nat, NEW off \in [Nat -> Nat], Rising(off, l),
         NEW j \in 1..l, NEW k \in 1..l, NEW x \in Nat,
         off[j] < x, x <= off[j + 1], off[k] < x, x <= off[k + 1]
  PROVE  j = k
<1>1. CASE j < k
  <2>1. off[j + 1] <= off[k]
    BY <1>1 DEF Rising
  <2> QED BY <2>1
<1>2. CASE k < j
  <2>1. off[k + 1] <= off[j]
    BY <1>2 DEF Rising
  <2> QED BY <2>1
<1> QED BY <1>1, <1>2

\* The unit behind off[k] others is the first of the k-th message.
LEMMA FirstPlace ==
  ASSUME NEW l \in Nat, NEW off \in [Nat -> Nat], Rising(off, l),
         NEW k \in 1..(l + 1), NEW j \in 1..l,
         off[j] < off[k] + 1, off[k] + 1 <= off[j + 1]
  PROVE  k = j
<1>1. CASE j < k
  <2>1. off[j + 1] <= off[k]
    BY <1>1 DEF Rising
  <2> QED BY <2>1
<1>2. CASE k < j
  <2>1. k \in 1..l /\ off[k + 1] <= off[j]
    BY <1>2 DEF Rising
  <2>2. off[k] < off[k + 1]
    BY <2>1 DEF Rising
  <2> QED BY <2>1, <2>2
<1> QED BY <1>1, <1>2

\* The first n units of f are those of message m.
Spells(f, n, m) == \A i \in 1..n : f[i].msg = m /\ f[i].at = i

\* A frame taken where a message begins is that message.
LEMMA FrameIsMessage ==
  ASSUME NEW ms, NEW l \in Nat, NEW off \in [Nat -> Nat], Layout(ms, l, off),
         NEW u, NEW a \in Nat, NEW k \in 1..(l + 1), Window(u, a, ms, l, off, off[k]),
         NEW n \in 2..a, CompleteWith(u, n)
  PROVE  /\ k \in 1..l /\ ms[k] \in Msgs
         /\ n = Header + Size[ms[k]] /\ off[k + 1] = off[k] + n
         /\ Spells(u, n, ms[k])
<1>1. PICK j \in 1..l : off[j] < off[k] + 1 /\ off[k] + 1 <= off[j + 1]
  <2>1. 1 \in 1..a
    OBVIOUS
  <2> QED BY <2>1 DEF Window
<1>2. Rising(off, l)
  BY DEF Layout
<1>3. k = j
  BY <1>1, <1>2, FirstPlace
<1>4. k \in 1..l /\ ms[k] \in Msgs /\ off[k + 1] = off[k] + (Header + Size[ms[k]])
  BY <1>3 DEF Layout
<1>5. PICK z \in Nat : z = Header + Size[ms[k]] /\ z >= 2
  BY <1>4, SizeAssumption DEF Header
<1>6. ASSUME NEW i \in 1..a, i <= z
      PROVE  u[i].msg = ms[k] /\ u[i].at = i
  <2>1. PICK h \in 1..l : /\ off[h] < off[k] + i /\ off[k] + i <= off[h + 1]
                          /\ u[i].msg = ms[h] /\ u[i].at = off[k] + i - off[h]
    BY DEF Window
  <2>2. off[k + 1] = off[k] + z
    BY <1>4, <1>5
  <2>3. off[k] + i \in Nat /\ off[k] < off[k] + i /\ off[k] + i <= off[k + 1]
    BY <1>4, <1>6, <2>2
  <2>4. h = k
    BY <1>2, <1>4, <2>1, <2>3, Place
  <2>5. off[k] + i - off[k] = i
    BY <1>4
  <2> QED BY <2>1, <2>4, <2>5
<1>7. u[2].at = 2 /\ u[2].msg = ms[k]
  BY <1>5, <1>6
<1>8. n = z
  BY <1>5, <1>7 DEF CompleteWith, SizesRead
<1>9. ASSUME NEW i \in 1..n PROVE u[i].msg = ms[k] /\ u[i].at = i
  <2>1. i \in 1..a /\ i <= z
    BY <1>8
  <2> QED BY <1>6, <2>1
<1>10. Spells(u, n, ms[k])
  BY <1>9 DEF Spells
<1> QED BY <1>4, <1>5, <1>8, <1>10

\* The first n elements of f and g agree; those of g follow a elements of f.
Agree(f, g, n) == \A i \in 1..n : f[i] = g[i]
Behind(f, a, g, n) == \A i \in 1..n : f[a + i] = g[i]

LEMMA WindowTail ==
  ASSUME NEW u, NEW a \in Nat, NEW ms, NEW l \in Nat, NEW off \in [Nat -> Nat], NEW b \in Nat,
         Window(u, a, ms, l, off, b),
         NEW n \in 0..a, NEW a2, a2 = a - n, NEW v, Behind(u, n, v, a2),
         NEW b2, b2 = b + n
  PROVE  Window(v, a2, ms, l, off, b2)
<1> SUFFICES ASSUME NEW i \in 1..(a - n)
             PROVE  \E j \in 1..l : /\ off[j] < (b + n) + i /\ (b + n) + i <= off[j + 1]
                                    /\ v[i].msg = ms[j] /\ v[i].at = (b + n) + i - off[j]
  BY DEF Window
<1>1. PICK x \in Nat : x = b + (n + i) /\ x = (b + n) + i
  OBVIOUS
<1>2. n + i \in 1..a
  OBVIOUS
<1>3. PICK j \in 1..l : /\ off[j] < x /\ x <= off[j + 1]
                        /\ u[n + i].msg = ms[j] /\ u[n + i].at = x - off[j]
  BY <1>1, <1>2 DEF Window
<1>4. v[i] = u[n + i]
  BY DEF Behind
<1>5. off[j] < x /\ x <= off[j + 1] /\ v[i].msg = ms[j] /\ v[i].at = x - off[j]
  BY <1>3, <1>4
<1> QED BY <1>1, <1>5

LEMMA WindowFront ==
  ASSUME NEW u, NEW a \in Nat, NEW ms, NEW l, NEW off, NEW b, Window(u, a, ms, l, off, b),
         NEW n \in 0..a, NEW v, Agree(v, u, n)
  PROVE  Window(v, n, ms, l, off, b)
<1>1. \A i \in 1..n : i \in 1..a
  OBVIOUS
<1> QED BY <1>1 DEF Window, Agree

LEMMA WindowJoin ==
  ASSUME NEW u, NEW a \in Nat, NEW ms, NEW l \in Nat, NEW off \in [Nat -> Nat], NEW b \in Nat,
         Window(u, a, ms, l, off, b),
         NEW c, c = b + a, NEW w, NEW n \in Nat, Window(w, n, ms, l, off, c),
         NEW v, Agree(v, u, a), Behind(v, a, w, n),
         NEW a2, a2 = a + n
  PROVE  Window(v, a2, ms, l, off, b)
<1> DEFINE At(i, x) == \E j \in 1..l : /\ off[j] < x /\ x <= off[j + 1]
                                       /\ v[i].msg = ms[j] /\ v[i].at = x - off[j]
<1> SUFFICES ASSUME NEW i \in 1..a2
             PROVE  \E j \in 1..l : /\ off[j] < b + i /\ b + i <= off[j + 1]
                                    /\ v[i].msg = ms[j] /\ v[i].at = b + i - off[j]
  BY Zenon DEF Window
<1>0. i \in 1..(a + n)
  OBVIOUS
<1>1. CASE i \in 1..a
  <2>1. PICK j \in 1..l : /\ off[j] < b + i /\ b + i <= off[j + 1]
                          /\ u[i].msg = ms[j] /\ u[i].at = b + i - off[j]
    BY <1>1, Zenon DEF Window
  <2>2. v[i] = u[i]
    BY <1>1, Zenon DEF Agree
  <2>3. /\ off[j] < b + i /\ b + i <= off[j + 1]
        /\ v[i].msg = ms[j] /\ v[i].at = b + i - off[j]
    BY <2>1, <2>2, Zenon
  <2>4. PICK x \in Nat : x = b + i
    BY <1>1
  <2> QED BY <2>3, <2>4
<1>2. ASSUME NEW k \in 1..n, i = a + k PROVE At(i, b + i)
  <2>1. PICK x \in Nat : x = (b + a) + k /\ x = b + i
    BY <1>2
  <2>2. PICK j \in 1..l : /\ off[j] < x /\ x <= off[j + 1]
                          /\ w[k].msg = ms[j] /\ w[k].at = x - off[j]
    BY <2>1 DEF Window
  <2>3. v[i] = w[k]
    BY <1>2 DEF Behind
  <2>4. off[j] < x /\ x <= off[j + 1] /\ v[i].msg = ms[j] /\ v[i].at = x - off[j]
    BY <2>2, <2>3
  <2> QED BY <2>1, <2>4
<1> QED BY <1>0, <1>1, <1>2, Split

\* The layout after one more message.
LEMMA LayoutGrows ==
  ASSUME NEW ms, NEW l \in Nat, NEW off \in [Nat -> Nat], Layout(ms, l, off),
         NEW m \in Msgs, NEW ms2, Agree(ms2, ms, l), ms2[l + 1] = m,
         NEW off2 \in [Nat -> Nat], Agree(off2, off, l + 1),
         off2[l + 2] = off[l + 1] + (Header + Size[m])
  PROVE  Layout(ms2, l + 1, off2)
<1>1. PICK z \in Nat : z = Header + Size[m] /\ z >= 2
  BY SizeAssumption DEF Header
<1>2. /\ off2 \in [Nat -> Nat]
      /\ \A j \in 1..(l + 1) : off2[j] = off[j]
      /\ off2[l + 2] = off[l + 1] + z
  BY <1>1 DEF Agree
<1>3. ASSUME NEW j \in 1..(l + 1)
      PROVE  /\ ms2[j] \in Msgs /\ off2[j + 1] = off2[j] + (Header + Size[ms2[j]])
             /\ off2[j] < off2[j + 1]
  <2>1. CASE j \in 1..l
    <3>1. /\ ms2[j] = ms[j] /\ off2[j] = off[j] /\ off2[j + 1] = off[j + 1]
          /\ ms[j] \in Msgs /\ off[j + 1] = off[j] + (Header + Size[ms[j]])
          /\ off[j] < off[j + 1]
      BY <1>2, <2>1 DEF Layout, Rising, Agree
    <3> QED BY <3>1
  <2>2. CASE j = l + 1
    BY <1>1, <1>2, <2>2
  <2> QED BY <2>1, <2>2
<1>4. ASSUME NEW i \in 1..(l + 2), NEW j \in 1..(l + 2), i <= j
      PROVE  off2[i] <= off2[j]
  <2>1. CASE j \in 1..(l + 1)
    <3>1. i \in 1..(l + 1) /\ off[i] <= off[j]
      BY <1>4, <2>1 DEF Layout, Rising
    <3> QED BY <1>2, <2>1, <3>1
  <2>2. CASE j = l + 2 /\ i \in 1..(l + 1)
    <3>1. off[i] <= off[l + 1]
      BY <2>2 DEF Layout, Rising
    <3> QED BY <1>2, <2>2, <3>1
  <2>3. CASE j = l + 2 /\ i = l + 2
    BY <1>2, <2>3
  <2> QED BY <1>4, <2>1, <2>2, <2>3
<1>5. (l + 1) + 1 = l + 2
  OBVIOUS
<1>6. Rising(off2, l + 1)
  BY <1>2, <1>3, <1>4, <1>5 DEF Rising
<1> QED BY <1>1, <1>2, <1>3, <1>6 DEF Layout, Agree

LEMMA WindowGrows ==
  ASSUME NEW u, NEW n, NEW ms, NEW l \in Nat, NEW off, NEW b, Window(u, n, ms, l, off, b),
         NEW ms2, Agree(ms2, ms, l), NEW off2, Agree(off2, off, l + 1),
         NEW l2, l2 = l + 1
  PROVE  Window(u, n, ms2, l2, off2, b)
<1> SUFFICES ASSUME NEW i \in 1..n
             PROVE  \E j \in 1..(l + 1) : /\ off2[j] < b + i /\ b + i <= off2[j + 1]
                                          /\ u[i].msg = ms2[j] /\ u[i].at = b + i - off2[j]
  BY DEF Window
<1>1. PICK j \in 1..l : /\ off[j] < b + i /\ b + i <= off[j + 1]
                        /\ u[i].msg = ms[j] /\ u[i].at = b + i - off[j]
  BY DEF Window
<1>2. j \in 1..(l + 1) /\ ms2[j] = ms[j] /\ off2[j] = off[j] /\ off2[j + 1] = off[j + 1]
  BY DEF Agree
<1>3. /\ off2[j] < b + i /\ b + i <= off2[j + 1]
      /\ u[i].msg = ms2[j] /\ u[i].at = b + i - off2[j]
  BY <1>1, <1>2, Zenon
<1> QED BY <1>2, <1>3, Zenon

\* Behind n elements of v come z units of message m.
Carries(v, n, m, z) == \A i \in 1..z : v[n + i].msg = m /\ v[n + i].at = i

\* The units of the new message go on where the stream ended.
LEMMA WindowAdds ==
  ASSUME NEW u, NEW n \in Nat, NEW ms, NEW l \in Nat, NEW off \in [Nat -> Nat], NEW b \in Nat,
         Layout(ms, l, off), Window(u, n, ms, l, off, b), b + n = off[l + 1],
         NEW m \in Msgs, NEW ms2, Agree(ms2, ms, l), ms2[l + 1] = m,
         NEW off2 \in [Nat -> Nat], Agree(off2, off, l + 1),
         off2[l + 2] = off[l + 1] + (Header + Size[m]),
         NEW v, NEW z \in Nat, z = Header + Size[m], Agree(v, u, n),
         Carries(v, n, m, z)
  PROVE  Window(v, n + z, ms2, l + 1, off2, b)
<1>1. off2[l + 2] = off[l + 1] + z
  OBVIOUS
<1>2. Window(u, n, ms2, l + 1, off2, b)
  BY WindowGrows
<1> DEFINE w == [i \in 1..z |-> v[n + i]]
<1>3. \A i \in 1..z : w[i] = v[n + i] /\ w[i].msg = m /\ w[i].at = i
  BY DEF Carries
<1> HIDE DEF w
<1>4. Window(w, z, ms2, l + 1, off2, b + n)
  <2> SUFFICES ASSUME NEW i \in 1..z
               PROVE  \E j \in 1..(l + 1) :
                        /\ off2[j] < (b + n) + i /\ (b + n) + i <= off2[j + 1]
                        /\ w[i].msg = ms2[j] /\ w[i].at = (b + n) + i - off2[j]
    BY DEF Window
  <2>1. off2[l + 1] = b + n /\ off2[(l + 1) + 1] = (b + n) + z /\ l + 1 \in 1..(l + 1)
    BY <1>1 DEF Agree
  <2>2. off2[l + 1] < (b + n) + i /\ (b + n) + i <= off2[(l + 1) + 1]
    BY <2>1
  <2>3. w[i].msg = ms2[l + 1]
    BY <1>3
  <2>4. w[i].at = (b + n) + i - off2[l + 1]
    <3>1. (b + n) + i - (b + n) = i
      OBVIOUS
    <3> QED BY <1>3, <2>1, <3>1
  <2> QED BY <2>1, <2>2, <2>3, <2>4
<1>5. l + 1 \in Nat /\ Behind(v, n, w, z)
  BY <1>3 DEF Behind
<1> QED BY <1>1, <1>2, <1>3, <1>4, <1>5, WindowJoin

LEMMA IsBytes ==
  ASSUME NEW f \in Seq(Units), NEW m \in Msgs, Len(f) = Header + Size[m], Spells(f, Len(f), m)
  PROVE  f = Bytes(m)
<1>1. /\ Bytes(m) \in Seq(Units) /\ Len(Bytes(m)) = Header + Size[m]
      /\ \A i \in 1..(Header + Size[m]) : Bytes(m)[i] = [msg |-> m, at |-> i]
  BY BytesOfMessage
<1>2. \A x \in Units : x = [msg |-> x.msg, at |-> x.at]
  BY DEF Units
<1>3. \A i \in 1..Len(f) : f[i] \in Units
  OBVIOUS
<1>4. ASSUME NEW i \in 1..Len(f) PROVE f[i] = Bytes(m)[i]
  <2>1. f[i] = [msg |-> f[i].msg, at |-> f[i].at]
    BY <1>2, <1>3
  <2>2. f[i] = [msg |-> m, at |-> i]
    BY <2>1 DEF Spells
  <2> QED BY <1>1, <2>2
<1> QED BY <1>1, <1>4, SeqEqual

-------------------------------------------------------------------------------
(***************************************************************************)
(* A stream under way.  Of the l messages ms the first d have been parsed; *)
(* behind them come a units u that were received and n units w that were   *)
(* not.                                                                    *)
(***************************************************************************)
Stream(ms, l, o, d, u, a, w, n) ==
  /\ Layout(ms, l, o) /\ d \in 0..l
  /\ Window(u, a, ms, l, o, o[d + 1])
  /\ Window(w, n, ms, l, o, o[d + 1] + a)

\* They reach to the end of the last message; the received ones end with a message.
Complete(o, l, d, a, n) == o[d + 1] + a + n = o[l + 1]
Aligned(o, l, d, a) == \E e \in 1..(l + 1) : o[d + 1] + a = o[e]

LEMMA StreamTypes ==
  ASSUME NEW ms, NEW l \in Nat, NEW o, NEW d, NEW u, NEW a, NEW w, NEW n,
         Stream(ms, l, o, d, u, a, w, n)
  PROVE  /\ o \in [Nat -> Nat] /\ Rising(o, l) /\ Layout(ms, l, o)
         /\ d \in Nat /\ d + 1 \in 1..(l + 1) /\ d + 1 \in Nat /\ o[d + 1] \in Nat
<1>1. o \in [Nat -> Nat] /\ Rising(o, l) /\ Layout(ms, l, o) /\ d \in 0..l
  BY DEF Stream, Layout, Rising
<1>2. d \in Nat /\ d + 1 \in 1..(l + 1) /\ d + 1 \in Nat
  BY <1>1
<1> QED BY <1>1, <1>2

\* The end of what is under way may be lost.
LEMMA StreamShrinks ==
  ASSUME NEW ms, NEW l \in Nat, NEW o, NEW d, NEW u, NEW a, NEW w, NEW n \in Nat,
         Stream(ms, l, o, d, u, a, w, n),
         NEW k \in 0..n, NEW v, Agree(v, w, k)
  PROVE  Stream(ms, l, o, d, u, a, v, k)
<1>1. PICK b : b = o[d + 1] + a
  OBVIOUS
<1>2. Window(w, n, ms, l, o, b)
  BY <1>1 DEF Stream
<1>3. Window(v, k, ms, l, o, b)
  BY <1>2, WindowFront
<1> QED BY <1>1, <1>3 DEF Stream

\* The receiver has parsed everything, and takes k units.
LEMMA StreamMoves ==
  ASSUME NEW ms, NEW l \in Nat, NEW o, NEW d, NEW u, NEW w, NEW n \in Nat,
         Stream(ms, l, o, d, u, 0, w, n),
         NEW k \in 1..n, NEW v, Agree(v, w, k),
         NEW n2, n2 = n - k, NEW w2, Behind(w, k, w2, n2)
  PROVE  /\ Stream(ms, l, o, d, v, k, w2, n2)
         /\ Complete(o, l, d, 0, n) => Complete(o, l, d, k, n2)
<1>1. /\ o \in [Nat -> Nat] /\ d \in Nat /\ k \in 0..n /\ k \in Nat /\ n2 \in Nat
  BY StreamTypes
<1>2. PICK b \in Nat : b = o[d + 1] /\ b + 0 = b
  <2>1. o[d + 1] \in Nat
    BY StreamTypes
  <2> QED BY <2>1
<1>3. Window(w, n, ms, l, o, b)
  BY <1>2 DEF Stream
<1>4. Window(v, k, ms, l, o, b)
  BY <1>1, <1>3, WindowFront
<1>5. PICK c \in Nat : c = b + k
  BY <1>1
<1>6. Window(w2, n2, ms, l, o, c)
  BY <1>1, <1>3, <1>5, WindowTail
<1>7. Stream(ms, l, o, d, v, k, w2, n2)
  BY <1>2, <1>4, <1>5, <1>6 DEF Stream
<1>8. b + 0 + n = b + k + n2
  BY <1>1
<1> QED BY <1>2, <1>7, <1>8 DEF Complete

\* What it takes ends with a message if everything was there and it takes all, or
\* if the first unit of a message follows.
LEMMA StreamAligns ==
  ASSUME NEW ms, NEW l \in Nat, NEW o, NEW d, NEW u, NEW w, NEW n \in Nat,
         Stream(ms, l, o, d, u, 0, w, n), NEW k \in 1..n,
         \/ k = n /\ Complete(o, l, d, 0, n)
         \/ k # n /\ w[k + 1].at = 1
  PROVE  Aligned(o, l, d, k)
<1>1. o \in [Nat -> Nat] /\ l + 1 \in 1..(l + 1)
  BY StreamTypes
<1>2. PICK b \in Nat : b = o[d + 1] /\ b + 0 = b
  <2>1. o[d + 1] \in Nat
    BY StreamTypes
  <2> QED BY <2>1
<1>3. CASE k = n /\ Complete(o, l, d, 0, n)
  <2>1. b + k = o[l + 1]
    BY <1>2, <1>3 DEF Complete
  <2> QED BY <1>1, <1>2, <2>1 DEF Aligned
<1>4. CASE k # n /\ w[k + 1].at = 1
  <2>1. k + 1 \in 1..n
    BY <1>4
  <2>2. PICK j \in 1..l : w[k + 1].at = b + (k + 1) - o[j]
    BY <1>2, <2>1 DEF Stream, Window
  <2>3. o[j] \in Nat /\ j \in 1..(l + 1)
    BY <1>1
  <2>4. b + k = o[j]
    BY <1>4, <2>2, <2>3
  <2> QED BY <1>2, <2>3, <2>4 DEF Aligned
<1> QED BY <1>3, <1>4

\* A frame of k units is taken: v is left, and d2 frames were taken.
FrameTaken(u, a, d, k, v, a2, d2) ==
  /\ k \in 2..a /\ CompleteWith(u, k)
  /\ a2 = a - k /\ Behind(u, k, v, a2)
  /\ d2 = d + 1

\* The parser takes a frame of k units: it is the next message.
LEMMA StreamTakes ==
  ASSUME NEW ms, NEW l \in Nat, NEW o, NEW d, NEW u, NEW a \in Nat, NEW w, NEW n \in Nat,
         Stream(ms, l, o, d, u, a, w, n),
         NEW k, NEW v, NEW a2, NEW d2, FrameTaken(u, a, d, k, v, a2, d2)
  PROVE  /\ d2 \in 1..l /\ ms[d2] \in Msgs
         /\ k = Header + Size[ms[d2]] /\ Spells(u, k, ms[d2])
         /\ Stream(ms, l, o, d2, v, a2, w, n)
         /\ Complete(o, l, d, a, n) => Complete(o, l, d2, a2, n)
         /\ Aligned(o, l, d, a) => Aligned(o, l, d2, a2)
<1>0. /\ k \in 2..a /\ CompleteWith(u, k) /\ a2 = a - k /\ Behind(u, k, v, a2) /\ d2 = d + 1
  BY DEF FrameTaken
<1>1. /\ o \in [Nat -> Nat] /\ Layout(ms, l, o) /\ d2 \in 1..(l + 1) /\ o[d2] \in Nat
  BY <1>0, StreamTypes
<1>2. Window(u, a, ms, l, o, o[d2])
  BY <1>0 DEF Stream
<1>3. /\ d2 \in 1..l /\ ms[d2] \in Msgs
      /\ k = Header + Size[ms[d2]] /\ o[d2 + 1] = o[d2] + k
      /\ Spells(u, k, ms[d2])
  <2>1. ASSUME NEW j \in 1..(l + 1), Window(u, a, ms, l, o, o[j])
        PROVE  /\ j \in 1..l /\ ms[j] \in Msgs
               /\ k = Header + Size[ms[j]] /\ o[j + 1] = o[j] + k
               /\ Spells(u, k, ms[j])
    BY <1>0, <1>1, <2>1, FrameIsMessage
  <2> QED BY <1>1, <1>2, <2>1
<1>4. k \in 0..a /\ k \in Nat /\ a2 \in Nat
  BY <1>0
<1>5. PICK b \in Nat, c \in Nat : b = o[d2] /\ c = o[d2 + 1] /\ c = b + k
  BY <1>1, <1>3, <1>4
<1>6. Window(v, a2, ms, l, o, c)
  BY <1>0, <1>1, <1>2, <1>4, <1>5, WindowTail
<1>7. b + a = c + a2
  BY <1>0, <1>4, <1>5
<1>8. Window(w, n, ms, l, o, c + a2)
  <2>1. Window(w, n, ms, l, o, b + a)
    BY <1>0, <1>5 DEF Stream
  <2> QED BY <1>7, <2>1
<1>9. d2 \in 0..l
  BY <1>3
<1>10. Stream(ms, l, o, d2, v, a2, w, n)
  BY <1>1, <1>5, <1>6, <1>8, <1>9 DEF Stream
<1>11. Complete(o, l, d, a, n) => Complete(o, l, d2, a2, n)
  BY <1>0, <1>5, <1>7 DEF Complete
<1>12. Aligned(o, l, d, a) => Aligned(o, l, d2, a2)
  BY <1>0, <1>5, <1>7 DEF Aligned
<1> QED BY <1>3, <1>10, <1>11, <1>12

\* Received units that end with a message and begin with no whole one are none.
LEMMA StreamRests ==
  ASSUME NEW ms, NEW l \in Nat, NEW o, NEW d, NEW u, NEW a \in Nat, NEW w, NEW n,
         Stream(ms, l, o, d, u, a, w, n), Aligned(o, l, d, a), Len(u) = a, Incomplete(u)
  PROVE  a = 0
<1> SUFFICES ASSUME a # 0 PROVE FALSE
  OBVIOUS
<1>1. /\ o \in [Nat -> Nat] /\ Rising(o, l) /\ Layout(ms, l, o)
      /\ d + 1 \in 1..(l + 1)
  BY StreamTypes
<1>2. PICK k \in 1..(l + 1), b \in Nat : k = d + 1 /\ b = o[k]
  BY <1>1
<1>3. PICK e \in 1..(l + 1) : b + a = o[e]
  BY <1>2 DEF Aligned
<1>4. k < e
  <2>1. CASE e <= k
    <3>1. o[e] <= o[k]
      BY <1>1, <2>1 DEF Rising
    <3> QED BY <1>1, <1>2, <1>3, <3>1
  <2> QED BY <2>1
<1>5. k \in 1..l /\ k + 1 \in 1..(l + 1) /\ k + 1 <= e
  BY <1>4
<1>6. PICK z \in Nat : z = Header + Size[ms[k]] /\ z >= 2 /\ o[k + 1] = b + z /\ ms[k] \in Msgs
  <2>1. ms[k] \in Msgs /\ o[k + 1] = o[k] + (Header + Size[ms[k]])
    BY <1>1, <1>5 DEF Layout
  <2> QED BY <1>2, <2>1, SizeAssumption DEF Header
<1>7. o[k + 1] <= o[e]
  BY <1>1, <1>5 DEF Rising
<1>8. z <= a
  BY <1>3, <1>6, <1>7
<1>9. u[2].at = 2 /\ u[2].msg = ms[k]
  <2>1. 2 \in 1..a
    BY <1>6, <1>8
  <2>2. PICK j \in 1..l : /\ o[j] < b + 2 /\ b + 2 <= o[j + 1]
                          /\ u[2].msg = ms[j] /\ u[2].at = b + 2 - o[j]
    BY <1>2, <2>1 DEF Stream, Window
  <2>3. b + 2 \in Nat /\ o[k] < b + 2 /\ b + 2 <= o[k + 1]
    BY <1>2, <1>6
  <2>4. PICK x \in Nat : x = b + 2
    BY <2>3
  <2>5. /\ o[j] < x /\ x <= o[j + 1] /\ o[k] < x /\ x <= o[k + 1]
    BY <2>2, <2>3, <2>4
  <2>6. j = k
    BY <1>1, <1>5, <2>5, Place
  <2>7. b + 2 - b = 2
    OBVIOUS
  <2> QED BY <1>2, <2>2, <2>6, <2>7
<1>10. SizesRead(u) = {Size[ms[k]]}
  BY <1>9 DEF SizesRead
<1>11. ~(Header + Size[ms[k]] > Len(u)) /\ ~(Len(u) < Header)
  BY <1>6, <1>8 DEF Header
<1> QED BY <1>10, <1>11 DEF Incomplete

\* A message is added to those sent, and its units to those under way.
Added(ms, l, w, n, m, ms2, l2, v, n2) ==
  /\ Agree(ms2, ms, l) /\ ms2[l + 1] = m /\ l2 = l + 1
  /\ Agree(v, w, n) /\ \E z \in Nat : /\ z = Header + Size[m] /\ n2 = n + z
                                      /\ Carries(v, n, m, z)

\* One more message is sent.
LEMMA StreamAdds ==
  ASSUME NEW ms, NEW l \in Nat, NEW o, NEW d, NEW u, NEW a \in Nat, NEW w, NEW n \in Nat,
         Stream(ms, l, o, d, u, a, w, n), Complete(o, l, d, a, n), Aligned(o, l, d, a),
         NEW m \in Msgs, NEW ms2, NEW l2, NEW v, NEW n2, Added(ms, l, w, n, m, ms2, l2, v, n2)
  PROVE  \E o2 : /\ Stream(ms2, l2, o2, d, u, a, v, n2)
                 /\ Complete(o2, l2, d, a, n2) /\ Aligned(o2, l2, d, a)
<1>1. Agree(ms2, ms, l) /\ ms2[l + 1] = m /\ l2 = l + 1 /\ Agree(v, w, n)
  BY DEF Added
<1>2. PICK z \in Nat : z = Header + Size[m] /\ n2 = n + z /\ Carries(v, n, m, z)
  BY DEF Added
<1>3. /\ o \in [Nat -> Nat] /\ Layout(ms, l, o) /\ d \in Nat /\ d + 1 \in 1..(l + 1)
      /\ o[d + 1] \in Nat
  BY StreamTypes
<1>4. PICK o2 : o2 = [o EXCEPT ![l + 2] = o[l + 1] + z]
  OBVIOUS
<1>5. /\ o2 \in [Nat -> Nat] /\ Agree(o2, o, l + 1) /\ o2[l + 2] = o[l + 1] + z
  BY <1>2, <1>3, <1>4 DEF Agree
<1>6. o2[l + 2] = o[l + 1] + (Header + Size[m])
  BY <1>2, <1>5
<1>7. Layout(ms2, l + 1, o2)
  BY <1>1, <1>3, <1>5, <1>6, LayoutGrows
<1>8. PICK b \in Nat, c \in Nat : b = o[d + 1] /\ c = b + a
  BY <1>3
<1>9. b = o2[d + 1]
  BY <1>3, <1>5, <1>8 DEF Agree
<1>10. Window(u, a, ms, l, o, b) /\ Window(w, n, ms, l, o, c) /\ c + n = o[l + 1]
  BY <1>8 DEF Stream, Complete
<1>11. Window(u, a, ms2, l2, o2, b)
  BY <1>1, <1>5, <1>10, WindowGrows
<1>12. Window(v, n + z, ms2, l + 1, o2, c)
  BY <1>1, <1>2, <1>3, <1>5, <1>6, <1>10, WindowAdds
<1>13. d \in 0..l2
  BY <1>1, <1>3
<1>14. Stream(ms2, l2, o2, d, u, a, v, n2)
  BY <1>1, <1>2, <1>7, <1>8, <1>9, <1>11, <1>12, <1>13 DEF Stream
<1>15. Complete(o2, l2, d, a, n2)
  <2>1. PICK x \in Nat : x = o[l + 1]
    BY <1>3
  <2>2. l2 + 1 = l + 2 /\ c + (n + z) = x + z
    BY <1>1, <1>2, <1>10, <2>1
  <2> QED BY <1>2, <1>5, <1>8, <1>9, <2>1, <2>2 DEF Complete
<1>16. Aligned(o2, l2, d, a)
  <2>1. PICK e \in 1..(l + 1) : c = o[e]
    BY <1>8 DEF Aligned
  <2>2. e \in 1..(l2 + 1) /\ o2[e] = o[e]
    BY <1>1, <1>5 DEF Agree
  <2> QED BY <1>8, <1>9, <2>1, <2>2 DEF Aligned
<1> QED BY <1>14, <1>15, <1>16
===============================================================================
