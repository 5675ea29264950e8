--------------------------- MODULE MetricsProofs ---------------------------
(***************************************************************************)
(* Proofs about the windows of metrics points, for any agents, requests,   *)
(* window and growth of the arrays.                                        *)
(***************************************************************************)
EXTENDS Metrics, TLAPS

Slices == [array : Nat, off : Nat, len : 0 .. Window]
Fetched == [at : {"none", "asked", "held", "answered"},
            agent : Agents \cup {NoAgent}, slice : Slices, data : Seq(Nat)]

(* TypeOK, with what it leaves open: what the arrays, slices and fetches   *)
(* are made of.                                                            *)
MasterType ==
    /\ points \in 0 .. MaxPoints
    /\ heap \in [Agents -> Seq(Seq(Nat))]
    /\ hist \in [Agents -> Slices]
    /\ stored \in [Agents -> Seq(Nat)]
    /\ relay \in Seq([agent : Agents, point : Nat])

BrowserType ==
    /\ sel \in Agents \cup {NoAgent}
    /\ view \in [Agents -> Seq(Nat)] /\ heard \in [Agents -> Seq(Nat)]
    /\ \A a \in Agents : Len(view[a]) <= Window /\ Len(heard[a]) <= Window

FetchType ==
    /\ fetch \in [Fetches -> Fetched]
    /\ \A f \in Fetches :
        /\ fetch[f].agent = NoAgent <=> fetch[f].at = "none"
        /\ Len(fetch[f].data) <= Window

(* A slice lies inside its array.                                          *)
Inside(a, s) ==
    s.len > 0 => /\ s.array \in 1 .. Len(heap[a])
                 /\ s.off + s.len <= Len(heap[a][s.array])

TypeInv ==
    /\ MasterType /\ BrowserType /\ FetchType
    /\ \A a \in Agents : Inside(a, hist[a])

(* A slice that was handed out ends no later than the agent's own, if it   *)
(* is of the same array, so the next point comes behind it.                *)
Behind(f) ==
    LET a == fetch[f].agent
        s == fetch[f].slice
    IN  fetch[f].at = "held" =>
        /\ Inside(a, s)
        /\ s.len > 0 /\ s.array = hist[a].array =>
              s.off + s.len <= hist[a].off + hist[a].len
        /\ Read(a, s) = fetch[f].data

-----------------------------------------------------------------------------
(* Sequences                                                               *)

LEMMA SameSeq ==
  ASSUME NEW S, NEW s \in Seq(S), NEW t \in Seq(S), Len(s) = Len(t),
         \A k \in 1 .. Len(s) : s[k] = t[k]
  PROVE  s = t
  OBVIOUS

LEMMA HeadTail ==
  ASSUME NEW S, NEW s \in Seq(S), s # <<>>
  PROVE  Head(s) \in S /\ Tail(s) \in Seq(S)
  OBVIOUS

LEMMA ElementIn ==
  ASSUME NEW S, NEW q \in Seq(S), NEW i \in 1 .. Len(q)
  PROVE  q[i] \in S
  OBVIOUS

LEMMA PutIs ==
  ASSUME NEW S, NEW q \in Seq(S), NEW i \in 1 .. Len(q), NEW v \in S
  PROVE  /\ [q EXCEPT ![i] = v] \in Seq(S)
         /\ Len([q EXCEPT ![i] = v]) = Len(q) /\ [q EXCEPT ![i] = v][i] = v
         /\ \A k \in 1 .. Len(q) : k # i => [q EXCEPT ![i] = v][k] = q[k]
  OBVIOUS

LEMMA PartAt ==
  ASSUME NEW A, NEW off \in Nat, NEW len \in Nat
  PROVE  \A k \in 1 .. len : SubSeq(A, off + 1, off + len)[k] = A[off + k]
  OBVIOUS

LEMMA PartIs ==
  ASSUME NEW A \in Seq(Nat), NEW off \in Nat, NEW len \in Nat,
         off + len <= Len(A)
  PROVE  /\ SubSeq(A, off + 1, off + len) \in Seq(Nat)
         /\ Len(SubSeq(A, off + 1, off + len)) = len
         /\ \A k \in 1 .. len : SubSeq(A, off + 1, off + len)[k] = A[off + k]
<1>1. SubSeq(A, off + 1, off + len) \in Seq(Nat)
  OBVIOUS
<1>2. Len(SubSeq(A, off + 1, off + len)) = len
  OBVIOUS
<1>3. QED
  BY <1>1, <1>2, PartAt

(* LastOf keeps the end of a sequence, n of it at most.                    *)
LEMMA LastIs ==
  ASSUME NEW s \in Seq(Nat), NEW n \in Nat \ {0}
  PROVE  LET m == IF Len(s) > n THEN n ELSE Len(s) IN
         /\ LastOf(s, n) \in Seq(Nat) /\ Len(LastOf(s, n)) = m
         /\ \A k \in 1 .. m : LastOf(s, n)[k] = s[Len(s) - m + k]
<1>1. CASE Len(s) > n
  BY <1>1 DEF LastOf
<1>2. CASE ~(Len(s) > n)
  BY <1>2 DEF LastOf
<1>3. QED
  BY <1>1, <1>2

(* What a window held before does not matter beyond the window.            *)
LEMMA LastOfTwice ==
  ASSUME NEW s \in Seq(Nat), NEW p \in Nat, NEW n \in Nat \ {0}
  PROVE  LastOf(Append(LastOf(s, n), p), n) = LastOf(Append(s, p), n)
<1> DEFINE w == LastOf(s, n)
           u == Append(w, p)
           v == Append(s, p)
<1>1. CASE ~(Len(s) > n)
  <2>1. /\ w \in Seq(Nat) /\ Len(w) = Len(s)
        /\ \A k \in 1 .. Len(s) : w[k] = s[k]
    BY <1>1 DEF LastOf
  <2> HIDE DEF w
  <2>2. w = s
    BY <2>1, SameSeq
  <2>3. QED
    BY <2>2 DEF w
<1>2. CASE Len(s) > n
  <2>1. w \in Seq(Nat) /\ Len(w) = n /\ \A k \in 1 .. n : w[k] = s[Len(s) - n + k]
    BY <1>2, LastIs
  <2> HIDE DEF w
  <2>2. /\ u \in Seq(Nat) /\ Len(u) = n + 1 /\ u[n + 1] = p
        /\ \A k \in 1 .. n : u[k] = s[Len(s) - n + k]
    BY <2>1
  <2>3. /\ v \in Seq(Nat) /\ Len(v) = Len(s) + 1 /\ v[Len(s) + 1] = p
        /\ \A k \in 1 .. Len(s) : v[k] = s[k]
    OBVIOUS
  <2> HIDE DEF u, v
  <2>4. /\ LastOf(u, n) \in Seq(Nat) /\ Len(LastOf(u, n)) = n
        /\ \A k \in 1 .. n : LastOf(u, n)[k] = u[1 + k]
    <3>1. Len(u) > n /\ \A k \in 1 .. n : Len(u) - n + k = 1 + k
      BY <2>2
    <3>2. /\ LastOf(u, n) \in Seq(Nat) /\ Len(LastOf(u, n)) = n
          /\ \A k \in 1 .. n : LastOf(u, n)[k] = u[Len(u) - n + k]
      BY <2>2, <3>1, LastIs
    <3>3. QED
      BY <3>1, <3>2
  <2>5. /\ LastOf(v, n) \in Seq(Nat) /\ Len(LastOf(v, n)) = n
        /\ \A k \in 1 .. n : LastOf(v, n)[k] = v[Len(s) + 1 - n + k]
    <3>1. Len(v) > n /\ \A k \in 1 .. n : Len(v) - n + k = Len(s) + 1 - n + k
      BY <1>2, <2>3
    <3>2. /\ LastOf(v, n) \in Seq(Nat) /\ Len(LastOf(v, n)) = n
          /\ \A k \in 1 .. n : LastOf(v, n)[k] = v[Len(v) - n + k]
      BY <2>3, <3>1, LastIs
    <3>3. QED
      BY <3>1, <3>2
  <2>6. ASSUME NEW k \in 1 .. n PROVE u[1 + k] = v[Len(s) + 1 - n + k]
    <3>1. CASE k = n
      BY <2>2, <2>3, <3>1
    <3>2. CASE k # n
      <4>1. 1 + k \in 1 .. n /\ Len(s) + 1 - n + k \in 1 .. Len(s)
        BY <1>2, <2>6, <3>2
      <4>2. u[1 + k] = s[Len(s) - n + (1 + k)]
        BY <2>2, <4>1
      <4>3. Len(s) - n + (1 + k) = Len(s) + 1 - n + k
        OBVIOUS
      <4>4. QED
        BY <2>3, <4>1, <4>2, <4>3
    <3>3. QED
      BY <3>1, <3>2
  <2>7. LastOf(u, n) = LastOf(v, n)
    BY <2>4, <2>5, <2>6, SameSeq
  <2>8. QED
    BY <2>7 DEF u, v, w
<1>3. QED
  BY <1>1, <1>2

(* h is the end of v.                                                      *)
IsEnd(h, v) ==
    /\ Len(h) <= Len(v)
    /\ \A k \in 1 .. Len(h) : h[k] = v[Len(v) - Len(h) + k]

LEMMA EndGrows ==
  ASSUME NEW h \in Seq(Nat), NEW v \in Seq(Nat), NEW p \in Nat,
         NEW n \in Nat \ {0}, IsEnd(h, v)
  PROVE  IsEnd(LastOf(Append(h, p), n), LastOf(Append(v, p), n))
<1> DEFINE x == Append(h, p)
           y == Append(v, p)
           i == IF Len(x) > n THEN n ELSE Len(x)
           j == IF Len(y) > n THEN n ELSE Len(y)
<1>1. /\ x \in Seq(Nat) /\ Len(x) = Len(h) + 1 /\ x[Len(h) + 1] = p
      /\ \A k \in 1 .. Len(h) : x[k] = h[k]
  OBVIOUS
<1>2. /\ y \in Seq(Nat) /\ Len(y) = Len(v) + 1 /\ y[Len(v) + 1] = p
      /\ \A k \in 1 .. Len(v) : y[k] = v[k]
  OBVIOUS
<1> HIDE DEF x, y
<1>3. Len(h) \in Nat /\ Len(v) \in Nat /\ Len(h) <= Len(v)
  BY DEF IsEnd
<1>4. ASSUME NEW k \in 1 .. Len(x) PROVE x[k] = y[Len(y) - Len(x) + k]
  <2>1. CASE k = Len(h) + 1
    BY <1>1, <1>2, <1>3, <2>1
  <2>2. CASE k # Len(h) + 1
    <3>1. k \in 1 .. Len(h) /\ Len(v) - Len(h) + k \in 1 .. Len(v)
      BY <1>1, <1>3, <1>4, <2>2
    <3>2. Len(y) - Len(x) + k = Len(v) - Len(h) + k
      BY <1>1, <1>2, <1>3
    <3>3. h[k] = v[Len(v) - Len(h) + k]
      BY <3>1 DEF IsEnd
    <3>4. QED
      BY <1>1, <1>2, <3>1, <3>2, <3>3
  <2>3. QED
    BY <2>1, <2>2
<1>5. /\ LastOf(x, n) \in Seq(Nat) /\ Len(LastOf(x, n)) = i
      /\ \A k \in 1 .. i : LastOf(x, n)[k] = x[Len(x) - i + k]
  BY <1>1, LastIs
<1>6. /\ LastOf(y, n) \in Seq(Nat) /\ Len(LastOf(y, n)) = j
      /\ \A k \in 1 .. j : LastOf(y, n)[k] = y[Len(y) - j + k]
  BY <1>2, LastIs
<1>7. i \in Nat /\ j \in Nat /\ i <= j /\ i <= Len(x) /\ j <= Len(y)
  <2>1. Len(x) \in Nat /\ Len(y) \in Nat /\ Len(x) <= Len(y)
    BY <1>1, <1>2, <1>3
  <2>2. QED
    BY <2>1
<1> HIDE DEF i, j
<1>8. ASSUME NEW k \in 1 .. i
      PROVE  LastOf(x, n)[k] = LastOf(y, n)[j - i + k]
  <2>1. j - i + k \in 1 .. j /\ Len(x) - i + k \in 1 .. Len(x)
    <3>1. Len(x) \in Nat
      BY <1>1
    <3>2. QED
      BY <1>7, <1>8, <3>1
  <2>2. LastOf(y, n)[j - i + k] = y[Len(y) - j + (j - i + k)]
    BY <1>6, <2>1
  <2>3. x[Len(x) - i + k] = y[Len(y) - Len(x) + (Len(x) - i + k)]
    BY <1>4, <2>1
  <2>4. Len(y) - j + (j - i + k) = Len(y) - Len(x) + (Len(x) - i + k)
    BY <1>1, <1>2, <1>3, <1>7
  <2>5. QED
    BY <1>5, <2>2, <2>3, <2>4
<1>9. IsEnd(LastOf(x, n), LastOf(y, n))
  BY <1>5, <1>6, <1>7, <1>8 DEF IsEnd
<1>10. QED
  BY <1>9 DEF x, y

-----------------------------------------------------------------------------
(* What one append does: the point stands behind those of the slice, in    *)
(* the n-th array, which is the slice's own or a new one.                  *)

Grows(a, p, n, o) ==
    LET s == hist[a] IN
    /\ heap' \in [Agents -> Seq(Seq(Nat))]
    /\ \A b \in Agents : b # a => heap'[b] = heap[b]
    /\ hist' = [hist EXCEPT ![a] = Trim(Slice(n, o, s.len + 1))]
    /\ n \in 1 .. Len(heap'[a]) /\ Len(heap[a]) <= Len(heap'[a])
    /\ \A m \in 1 .. Len(heap[a]) : m # n => heap'[a][m] = heap[a][m]
    /\ o + s.len + 1 <= Len(heap'[a][n])
    /\ \A k \in 1 .. s.len : heap'[a][n][o + k] = Read(a, s)[k]
    /\ heap'[a][n][o + s.len + 1] = p
    /\ n \in 1 .. Len(heap[a]) =>
        /\ n = s.array /\ o = s.off
        /\ Len(heap'[a][n]) = Len(heap[a][n])
        /\ \A i \in 1 .. s.off + s.len : heap'[a][n][i] = heap[a][n][i]

LEMMA ReadIs ==
  ASSUME NEW a \in Agents, heap \in [Agents -> Seq(Seq(Nat))],
         NEW s \in Slices, Inside(a, s)
  PROVE  /\ Read(a, s) \in Seq(Nat) /\ Len(Read(a, s)) = s.len
         /\ \A k \in 1 .. s.len : Read(a, s)[k] = heap[a][s.array][s.off + k]
<1>1. CASE s.len = 0
  BY <1>1 DEF Read
<1>2. CASE s.len # 0
  <2>1. s.len \in Nat /\ s.len > 0 /\ s.off \in Nat
    BY <1>2, MetricsAssumption DEF Slices, MetricsAssumption
  <2>2. /\ s.array \in 1 .. Len(heap[a])
        /\ s.off + s.len <= Len(heap[a][s.array])
    BY <2>1 DEF Inside
  <2>3. heap[a][s.array] \in Seq(Nat)
    BY <2>2
  <2>4. Read(a, s) = SubSeq(heap[a][s.array], s.off + 1, s.off + s.len)
    BY <1>2 DEF Read
  <2> DEFINE A == heap[a][s.array]
  <2> HIDE DEF A
  <2>5. /\ SubSeq(A, s.off + 1, s.off + s.len) \in Seq(Nat)
        /\ Len(SubSeq(A, s.off + 1, s.off + s.len)) = s.len
        /\ \A k \in 1 .. s.len :
              SubSeq(A, s.off + 1, s.off + s.len)[k] = A[s.off + k]
    BY <2>1, <2>2, <2>3, PartIs DEF A
  <2>6. QED
    BY <2>4, <2>5 DEF A
<1>3. QED
  BY <1>1, <1>2

LEMMA StoreGrows ==
  ASSUME TypeInv, NEW a \in Agents, NEW p \in Nat, NEW cap \in Nat,
         Store(a, p, cap)
  PROVE  \E n, o \in Nat : Grows(a, p, n, o)
<1> DEFINE s == hist[a]
           h == heap[a]
           room == s.len > 0 /\ s.off + s.len < Len(h[s.array])
           longer == [j \in 1 .. cap |-> IF j <= s.len THEN Read(a, s)[j]
                                         ELSE IF j = s.len + 1 THEN p ELSE 0]
<1>1. /\ s \in Slices /\ s.array \in Nat /\ s.off \in Nat /\ s.len \in Nat
      /\ Inside(a, s)
  BY MetricsAssumption DEF TypeInv, MasterType, Slices, MetricsAssumption
<1>2. heap \in [Agents -> Seq(Seq(Nat))] /\ h \in Seq(Seq(Nat))
  BY DEF TypeInv, MasterType
<1>3. /\ Read(a, s) \in Seq(Nat) /\ Len(Read(a, s)) = s.len
      /\ \A k \in 1 .. s.len : Read(a, s)[k] = h[s.array][s.off + k]
  BY <1>1, <1>2, ReadIs
<1> HIDE DEF s, h
<1>4. CASE room
  <2>1. /\ s.array \in 1 .. Len(h) /\ s.off + s.len + 1 <= Len(h[s.array])
        /\ h[s.array] \in Seq(Nat)
    <3>1. /\ s.array \in 1 .. Len(h)
          /\ s.off + s.len <= Len(h[s.array])
      BY <1>1, <1>4 DEF Inside, h
    <3>2. h[s.array] \in Seq(Nat)
      BY <1>2, <3>1
    <3>3. Len(h[s.array]) \in Nat
      BY <3>2
    <3>4. QED
      BY <1>1, <1>4, <3>1, <3>2, <3>3
  <2>2. /\ heap' = [heap EXCEPT ![a] = [h EXCEPT ![s.array] =
                       [h[s.array] EXCEPT ![s.off + s.len + 1] = p]]]
        /\ hist' = [hist EXCEPT ![a] = Trim([s EXCEPT !.len = s.len + 1])]
    BY <1>4 DEF Store, s, h
  <2>3. [s EXCEPT !.len = s.len + 1] = Slice(s.array, s.off, s.len + 1)
    BY <1>1 DEF Slices, Slice
  <2> DEFINE A == [h[s.array] EXCEPT ![s.off + s.len + 1] = p]
             g == [h EXCEPT ![s.array] = A]
  <2>4. /\ A \in Seq(Nat) /\ Len(A) = Len(h[s.array])
        /\ A[s.off + s.len + 1] = p
        /\ \A i \in 1 .. s.off + s.len : A[i] = h[s.array][i]
    <3> DEFINE B == h[s.array]
               e == s.off + s.len + 1
    <3>1. B \in Seq(Nat) /\ Len(B) \in Nat /\ e \in 1 .. Len(B)
      BY <1>1, <2>1
    <3>0. s.off + s.len \in Nat /\ e = s.off + s.len + 1
      BY <1>1
    <3> HIDE DEF B, e
    <3>2. \A i \in 1 .. s.off + s.len : i \in 1 .. Len(B) /\ i # e
      BY <3>0, <3>1
    <3>3. /\ [B EXCEPT ![e] = p] \in Seq(Nat)
          /\ Len([B EXCEPT ![e] = p]) = Len(B) /\ [B EXCEPT ![e] = p][e] = p
          /\ \A i \in 1 .. Len(B) : i # e => [B EXCEPT ![e] = p][i] = B[i]
      BY <3>1, PutIs
    <3>4. QED
      BY <3>2, <3>3 DEF B, e
  <2> HIDE DEF A
  <2>5. /\ g \in Seq(Seq(Nat)) /\ Len(g) = Len(h) /\ g[s.array] = A
        /\ \A m \in 1 .. Len(h) : m # s.array => g[m] = h[m]
    <3>1. h \in Seq(Seq(Nat)) /\ s.array \in 1 .. Len(h) /\ A \in Seq(Nat)
      BY <1>2, <2>1, <2>4
    <3> HIDE DEF h
    <3>2. QED
      BY <3>1, PutIs
  <2> HIDE DEF g
  <2>6. /\ heap'[a] = g /\ heap' \in [Agents -> Seq(Seq(Nat))]
        /\ \A b \in Agents : b # a => heap'[b] = heap[b]
    BY <1>2, <2>2, <2>5 DEF g, A
  <2>7. \A k \in 1 .. s.len : A[s.off + k] = Read(a, s)[k]
    <3>1. \A k \in 1 .. s.len : s.off + k \in 1 .. s.off + s.len
      BY <1>1
    <3>2. QED
      BY <1>3, <2>4, <3>1
  <2>8. Grows(a, p, s.array, s.off)
    <3>1. \A m \in 1 .. Len(h) : m # s.array => heap'[a][m] = h[m]
      BY <2>5, <2>6
    <3>2. /\ s.array \in 1 .. Len(heap'[a]) /\ Len(h) <= Len(heap'[a])
          /\ heap'[a][s.array] = A
      BY <1>2, <2>1, <2>5, <2>6
    <3>3. hist' = [hist EXCEPT ![a] = Trim(Slice(s.array, s.off, s.len + 1))]
      BY <2>2, <2>3
    <3>4. s.off + s.len + 1 <= Len(A)
      BY <2>1, <2>4
    <3> HIDE DEF A
    <3>5. QED
      BY <2>4, <2>6, <2>7, <3>1, <3>2, <3>3, <3>4 DEF Grows, s, h
  <2>9. QED
    BY <1>1, <2>8
<1>5. CASE ~room
  <2>1. /\ heap' = [heap EXCEPT ![a] = Append(h, longer)]
        /\ hist' = [hist EXCEPT ![a] = Trim(Slice(Len(h) + 1, 0, s.len + 1))]
        /\ s.len + 1 <= cap
    BY <1>1, <1>5 DEF Store, s, h
  <2>2. /\ longer \in Seq(Nat) /\ Len(longer) = cap
        /\ longer[s.len + 1] = p
        /\ \A k \in 1 .. s.len : longer[k] = Read(a, s)[k]
    <3>1. ASSUME NEW j \in 1 .. cap PROVE longer[j] \in Nat
      BY <1>1, <1>3
    <3>2. QED
      BY <1>1, <2>1, <3>1
  <2> HIDE DEF longer
  <2> DEFINE g == Append(h, longer)
  <2>3. /\ g \in Seq(Seq(Nat)) /\ Len(g) = Len(h) + 1 /\ g[Len(h) + 1] = longer
        /\ \A m \in 1 .. Len(h) : g[m] = h[m]
    BY <1>2, <2>2
  <2> HIDE DEF g
  <2>4. /\ heap'[a] = g /\ heap' \in [Agents -> Seq(Seq(Nat))]
        /\ \A b \in Agents : b # a => heap'[b] = heap[b]
    BY <1>2, <2>1, <2>3 DEF g
  <2>5. Len(h) \in Nat
    BY <1>2
  <2>6. \A k \in 1 .. s.len : 0 + k = k
    BY <1>1
  <2>7. Grows(a, p, Len(h) + 1, 0)
    <3>1. /\ Len(h) + 1 \in 1 .. Len(heap'[a]) /\ Len(h) <= Len(heap'[a])
          /\ heap'[a][Len(h) + 1] = longer
          /\ \A m \in 1 .. Len(h) : heap'[a][m] = h[m]
      BY <2>3, <2>4, <2>5
    <3>2. 0 + s.len + 1 = s.len + 1 /\ s.len + 1 <= Len(longer)
      BY <1>1, <2>1, <2>2
    <3>3. QED
      BY <2>1, <2>2, <2>4, <2>6, <3>1, <3>2 DEF Grows, s, h
  <2>8. QED
    BY <2>5, <2>7
<1>6. QED
  BY <1>4, <1>5

(* The window after it.                                                    *)
LEMMA WindowGrows ==
  ASSUME TypeInv, NEW a \in Agents, NEW p \in Nat, NEW n \in Nat, NEW o \in Nat,
         Grows(a, p, n, o)
  PROVE  /\ hist' \in [Agents -> Slices]
         /\ \A b \in Agents : b # a => hist'[b] = hist[b]
         /\ Inside(a, hist[a])'
         /\ hist'[a].array = n
         /\ hist'[a].off + hist'[a].len = o + hist[a].len + 1
         /\ Read(a, hist[a])' = LastOf(Append(Read(a, hist[a]), p), Window)
<1> DEFINE s == hist[a]
           A == heap'[a][n]
           r == Append(Read(a, s), p)
           q == hist'[a]
<1>1. /\ s \in Slices /\ s.len \in 0 .. Window /\ Inside(a, s)
      /\ Window \in Nat \ {0}
  BY MetricsAssumption DEF TypeInv, MasterType, Slices, MetricsAssumption
<1>2. /\ Read(a, s) \in Seq(Nat) /\ Len(Read(a, s)) = s.len
  BY <1>1, ReadIs DEF TypeInv, MasterType
<1>3. /\ r \in Seq(Nat) /\ Len(r) = s.len + 1 /\ r[s.len + 1] = p
      /\ \A k \in 1 .. s.len : r[k] = Read(a, s)[k]
  <2> DEFINE w == Read(a, s)
  <2>1. w \in Seq(Nat) /\ Len(w) = s.len
    BY <1>2
  <2> HIDE DEF w
  <2>2. /\ Append(w, p) \in Seq(Nat) /\ Len(Append(w, p)) = s.len + 1
        /\ Append(w, p)[s.len + 1] = p
        /\ \A k \in 1 .. s.len : Append(w, p)[k] = w[k]
    BY <2>1
  <2>3. QED
    BY <2>2 DEF w
<1>4. A \in Seq(Nat) /\ o + s.len + 1 <= Len(A)
  <2>1. heap'[a] \in Seq(Seq(Nat)) /\ n \in 1 .. Len(heap'[a])
    BY DEF Grows
  <2>2. QED
    BY <2>1 DEF Grows
<1>5. \A k \in 1 .. s.len + 1 : A[o + k] = r[k]
  <2>1. ASSUME NEW k \in 1 .. s.len + 1 PROVE A[o + k] = r[k]
    <3>1. CASE k = s.len + 1
      <4>1. o + k = o + s.len + 1
        BY <1>1, <3>1
      <4>2. QED
        BY <1>3, <3>1, <4>1 DEF Grows
    <3>2. CASE k # s.len + 1
      <4>1. k \in 1 .. s.len
        BY <1>1, <3>2
      <4>2. QED
        BY <1>3, <4>1 DEF Grows
    <3>3. QED
      BY <3>1, <3>2
  <2>2. QED
    BY <2>1
<1>6. q = Trim(Slice(n, o, s.len + 1)) /\ \A b \in Agents : b # a => hist'[b] = hist[b]
  BY DEF Grows, TypeInv, MasterType
<1>7. hist' = [hist EXCEPT ![a] = q] /\ hist \in [Agents -> Slices]
  BY <1>6 DEF Grows, TypeInv, MasterType
<1> HIDE DEF s, A, r
<1>8. PICK d \in Nat : /\ q = Slice(n, o + d, s.len + 1 - d)
                       /\ s.len + 1 - d \in 1 .. Window
                       /\ d = IF s.len + 1 > Window THEN s.len + 1 - Window ELSE 0
  <2>1. CASE s.len + 1 > Window
    <3>1. q = Slice(n, o + 1, Window) /\ s.len = Window
      <4>1. s.len = Window /\ o + (s.len + 1) - Window = o + 1
        BY <1>1, <2>1
      <4>2. QED
        BY <1>6, <2>1, <4>1 DEF Trim, Slice
    <3>2. s.len + 1 - 1 = Window
      BY <1>1, <3>1
    <3>3. QED
      BY <1>1, <2>1, <3>1, <3>2
  <2>2. CASE ~(s.len + 1 > Window)
    <3>1. q = Slice(n, o, s.len + 1)
      BY <1>6, <2>2 DEF Trim, Slice
    <3>2. o + 0 = o /\ s.len + 1 - 0 = s.len + 1
      BY <1>1
    <3>3. QED
      BY <1>1, <2>2, <3>1, <3>2
  <2>3. QED
    BY <2>1, <2>2
<1> HIDE DEF q
<1> DEFINE len == s.len + 1 - d
<1>9. /\ q.array = n /\ q.off = o + d /\ q.len = len
      /\ len \in 1 .. Window /\ len \in Nat /\ d + len = s.len + 1
  BY <1>1, <1>8 DEF Slice
<1> HIDE DEF len
<1>10. q \in Slices
  <2>1. o + d \in Nat /\ s.len + 1 - d \in 0 .. Window
    <3>1. s.len + 1 - d \in 1 .. Window /\ Window \in Nat
      BY <1>1, <1>8
    <3>2. QED
      BY <3>1
  <2>2. QED
    BY <1>8, <2>1 DEF Slices, Slice
<1>11. q.off + q.len = o + s.len + 1
  BY <1>1, <1>9
<1>12. q.len > 0 /\ n \in 1 .. Len(heap'[a]) /\ q.off + q.len <= Len(A)
  BY <1>4, <1>9, <1>11 DEF Grows
<1>13. Inside(a, hist[a])'
  BY <1>9, <1>12 DEF Inside, q, A
<1>14. LastOf(r, Window) = SubSeq(A, o + d + 1, o + d + len)
  <2> DEFINE t == SubSeq(A, o + d + 1, o + d + len)
             l == LastOf(r, Window)
  <2>1. /\ t \in Seq(Nat) /\ Len(t) = len
        /\ \A k \in 1 .. len : t[k] = A[(o + d) + k]
    <3>1. o + d \in Nat /\ o + d + len <= Len(A)
      BY <1>9, <1>12
    <3>2. QED
      BY <1>4, <1>9, <3>1, PartIs
  <2>2. /\ l \in Seq(Nat) /\ Len(l) = len
        /\ \A k \in 1 .. len : l[k] = r[d + k]
    <3> DEFINE m == IF Len(r) > Window THEN Window ELSE Len(r)
    <3>1. m = len
      <4>1. s.len \in Nat /\ Window \in Nat /\ Len(r) = s.len + 1
        BY <1>1, <1>3
      <4>2. d = IF s.len + 1 > Window THEN s.len + 1 - Window ELSE 0
        BY <1>8
      <4>3. len = s.len + 1 - d
        BY DEF len
      <4>4. CASE s.len + 1 > Window
        <5>1. m = Window /\ d = s.len + 1 - Window
          BY <4>1, <4>2, <4>4
        <5> HIDE DEF m, len
        <5>2. QED
          BY <4>1, <4>3, <5>1
      <4>5. CASE ~(s.len + 1 > Window)
        BY <4>1, <4>2, <4>3, <4>5
      <4>6. QED
        BY <4>4, <4>5
    <3>2. /\ l \in Seq(Nat) /\ Len(l) = m
          /\ \A k \in 1 .. m : l[k] = r[Len(r) - m + k]
      BY <1>1, <1>3, LastIs
    <3> HIDE DEF m, l
    <3>3. \A k \in 1 .. len : Len(r) - len + k = d + k
      BY <1>1, <1>3, <1>9
    <3>4. QED
      BY <3>1, <3>2, <3>3
  <2> HIDE DEF t, l
  <2>3. ASSUME NEW k \in 1 .. len PROVE t[k] = l[k]
    <3>1. d + k \in 1 .. s.len + 1 /\ (o + d) + k = o + (d + k)
      BY <1>1, <1>9, <2>3
    <3>2. A[o + (d + k)] = r[d + k]
      BY <1>5, <3>1 DEF A, r
    <3>3. QED
      BY <2>1, <2>2, <3>1, <3>2
  <2>4. t = l
    BY <2>1, <2>2, <2>3, SameSeq
  <2>5. QED
    BY <2>4 DEF t, l
<1>15. Read(a, hist[a])' = SubSeq(A, o + d + 1, o + d + len)
  <2>1. ~(q.len = 0)
    BY <1>9
  <2>2. QED
    BY <1>9, <2>1 DEF Read, q, A
<1>16. QED
  BY <1>6, <1>7, <1>9, <1>10, <1>11, <1>13, <1>14, <1>15 DEF q, r, s

-----------------------------------------------------------------------------
(* Types, and the slices that were handed out                              *)

HeldInv == \A f \in Fetches : Behind(f)

LEMMA TypeInit == Init => TypeInv /\ HeldInv
<1> SUFFICES ASSUME Init PROVE TypeInv /\ HeldInv
  OBVIOUS
<1> USE MetricsAssumption DEF MetricsAssumption, Init
<1>1. Slice(0, 0, 0) \in Slices /\ Slice(0, 0, 0).len = 0
  BY DEF Slice, Slices
<1>2. Idle \in Fetched /\ Idle.at = "none" /\ Idle.agent = NoAgent
      /\ Idle.data = <<>>
  BY <1>1 DEF Idle, Fetched
<1>3. MasterType
  BY <1>1 DEF MasterType
<1>4. BrowserType
  BY DEF BrowserType
<1>5. FetchType
  BY <1>2 DEF FetchType
<1>6. \A a \in Agents : Inside(a, hist[a])
  BY <1>1 DEF Inside
<1>7. HeldInv
  BY <1>2 DEF HeldInv, Behind
<1>8. QED
  BY <1>3, <1>4, <1>5, <1>6, <1>7 DEF TypeInv

(* A fetch of a known agent: what it holds, or takes, is a window.         *)
LEMMA HistoryIs ==
  ASSUME TypeInv, NEW a \in Agents
  PROVE  /\ hist[a] \in Slices
         /\ Read(a, hist[a]) \in Seq(Nat) /\ Len(Read(a, hist[a])) <= Window
<1>1. hist[a] \in Slices /\ Inside(a, hist[a])
  BY DEF TypeInv, MasterType
<1>2. Len(Read(a, hist[a])) = hist[a].len /\ Read(a, hist[a]) \in Seq(Nat)
  BY <1>1, ReadIs DEF TypeInv, MasterType
<1>3. hist[a].len <= Window
  BY <1>1, MetricsAssumption DEF Slices, MetricsAssumption
<1>4. QED
  BY <1>1, <1>2, <1>3

LEMMA PointGrows ==
  ASSUME TypeInv, NEW a \in Agents, NEW cap \in Capacities,
         Point(a, cap)
  PROVE  /\ points' \in 0 .. MaxPoints /\ points' \in Nat
         /\ \E n, o \in Nat : Grows(a, points', n, o)
         /\ stored' = [stored EXCEPT ![a] = Append(@, points')]
         /\ relay' = Append(relay, [agent |-> a, point |-> points'])
         /\ UNCHANGED <<browser, fetch>>
<1>1. points' \in 0 .. MaxPoints /\ points' \in Nat
  BY MetricsAssumption DEF Point, TypeInv, MasterType, MetricsAssumption
<1>2. Store(a, points', cap) /\ cap \in Nat
  BY MetricsAssumption DEF Point, MetricsAssumption
<1>3. \E n, o \in Nat : Grows(a, points', n, o)
  BY <1>1, <1>2, StoreGrows
<1>4. QED
  BY <1>1, <1>2, <1>3 DEF Point, Store, Relay

LEMMA TypeStep == TypeInv /\ HeldInv /\ [Next]_vars => TypeInv'
<1> SUFFICES ASSUME TypeInv, HeldInv, [Next]_vars PROVE TypeInv'
  OBVIOUS
<1> USE DEF TypeInv, master, browser
<1>1. ASSUME NEW a \in Agents, NEW cap \in Capacities, Point(a, cap)
      PROVE  TypeInv'
  <2>1. /\ points' \in 0 .. MaxPoints /\ points' \in Nat
        /\ stored' = [stored EXCEPT ![a] = Append(@, points')]
        /\ relay' = Append(relay, [agent |-> a, point |-> points'])
        /\ UNCHANGED <<sel, view, heard, fetch>>
    BY <1>1, PointGrows
  <2>2. PICK n, o \in Nat : Grows(a, points', n, o)
    BY <1>1, PointGrows
  <2>3. /\ hist' \in [Agents -> Slices] /\ Inside(a, hist[a])'
        /\ \A b \in Agents : b # a => hist'[b] = hist[b]
    BY <2>1, <2>2, WindowGrows
  <2>4. heap' \in [Agents -> Seq(Seq(Nat))]
        /\ \A b \in Agents : b # a => heap'[b] = heap[b]
    BY <2>2 DEF Grows
  <2>5. relay' \in Seq([agent : Agents, point : Nat])
    BY <2>1 DEF MasterType
  <2>6. stored' \in [Agents -> Seq(Nat)]
    BY <2>1 DEF MasterType
  <2>7. \A b \in Agents : Inside(b, hist[b])'
    BY <2>3, <2>4 DEF Inside
  <2>8. QED
    BY <2>1, <2>3, <2>4, <2>5, <2>6, <2>7
      DEF MasterType, BrowserType, FetchType
<1>2. ASSUME NEW f \in Fetches, TakeHistory(f)
      PROVE  TypeInv'
  <2> DEFINE a == fetch[f].agent
  <2>1. fetch[f].at = "asked" /\ a \in Agents
    BY <1>2 DEF TakeHistory, FetchType, Fetched
  <2>2. /\ hist[a] \in Slices
        /\ Read(a, hist[a]) \in Seq(Nat) /\ Len(Read(a, hist[a])) <= Window
    BY <2>1, HistoryIs
  <2>3. fetch' = [fetch EXCEPT ![f] = [fetch[f] EXCEPT !.at = "held",
                      !.slice = hist[a], !.data = Read(a, hist[a])]]
    BY <1>2 DEF TakeHistory
  <2> DEFINE r == [fetch[f] EXCEPT !.at = "held", !.slice = hist[a],
                                   !.data = Read(a, hist[a])]
  <2>4. /\ r \in Fetched /\ r.at = "held" /\ r.agent = a
        /\ r.data = Read(a, hist[a])
    <3>1. fetch[f] \in Fetched
      BY DEF FetchType
    <3>2. QED
      BY <2>1, <2>2, <3>1 DEF Fetched
  <2> HIDE DEF r
  <2>5. fetch' \in [Fetches -> Fetched] /\ fetch' = [fetch EXCEPT ![f] = r]
    BY <2>3, <2>4 DEF FetchType, r
  <2>6. FetchType'
    BY <2>1, <2>2, <2>4, <2>5, MetricsAssumption
    DEF FetchType, MetricsAssumption
  <2>7. UNCHANGED <<points, master, relay, browser>>
    BY <1>2 DEF TakeHistory
  <2>8. QED
    BY <2>6, <2>7 DEF MasterType, BrowserType, Inside
<1>3. ASSUME NEW f \in Fetches, Encode(f)
      PROVE  TypeInv'
  <2> DEFINE g == fetch[f]
  <2>1. g.at = "held" /\ Read(g.agent, g.slice) = g.data
    BY <1>3 DEF Encode, HeldInv, Behind
  <2>2. fetch' = [fetch EXCEPT ![f] = [g EXCEPT !.at = "answered",
                      !.slice = Idle.slice, !.data = g.data]]
    BY <1>3, <2>1 DEF Encode
  <2>3. Idle.slice \in Slices
    BY MetricsAssumption DEF Idle, Slice, Slices, MetricsAssumption
  <2> DEFINE r == [g EXCEPT !.at = "answered", !.slice = Idle.slice,
                            !.data = g.data]
  <2>4. /\ r \in Fetched /\ r.at = "answered" /\ r.agent = g.agent
        /\ r.data = g.data
    <3>1. g \in Fetched
      BY DEF FetchType
    <3>2. QED
      BY <2>3, <3>1 DEF Fetched
  <2> HIDE DEF r
  <2>5. fetch' \in [Fetches -> Fetched] /\ fetch' = [fetch EXCEPT ![f] = r]
    BY <2>2, <2>4 DEF FetchType, r
  <2>6. FetchType'
    BY <2>1, <2>4, <2>5 DEF FetchType
  <2>7. UNCHANGED <<points, master, relay, browser>>
    BY <1>3 DEF Encode
  <2>8. QED
    BY <2>6, <2>7 DEF MasterType, BrowserType, Inside
<1>4. Idle \in Fetched /\ Idle.at = "none" /\ Idle.agent = NoAgent
      /\ Idle.data = <<>>
  BY MetricsAssumption DEF Idle, Slice, Slices, Fetched, MetricsAssumption
<1>5. ASSUME NEW f \in Fetches, fetch' = [fetch EXCEPT ![f] = Idle]
      PROVE  FetchType'
  BY <1>4, <1>5, MetricsAssumption DEF FetchType, MetricsAssumption
<1>6. ASSUME NEW f \in Fetches, Answer(f)
      PROVE  TypeInv'
  <2>1. FetchType'
    BY <1>5, <1>6 DEF Answer
  <2>2. UNCHANGED <<points, master, relay, sel>>
    BY <1>6 DEF Answer
  <2>3. CASE sel = NoAgent \/ fetch[f].data = <<>>
    BY <1>6, <2>1, <2>2, <2>3 DEF Answer, MasterType, BrowserType, Inside
  <2>4. CASE ~(sel = NoAgent \/ fetch[f].data = <<>>)
    <3>1. /\ view' = [view EXCEPT ![sel] = fetch[f].data]
          /\ heard' = [heard EXCEPT ![sel] = <<>>] /\ sel \in Agents
      BY <1>6, <2>4 DEF Answer, BrowserType
    <3>2. fetch[f].data \in Seq(Nat) /\ Len(fetch[f].data) <= Window
      BY DEF FetchType, Fetched
    <3>3. BrowserType'
      BY <2>2, <3>1, <3>2, MetricsAssumption DEF BrowserType, MetricsAssumption
    <3>4. QED
      BY <2>1, <2>2, <3>3 DEF MasterType, Inside
  <2>5. QED
    BY <2>3, <2>4
<1>7. ASSUME NEW f \in Fetches, FetchFails(f)
      PROVE  TypeInv'
  BY <1>5, <1>7 DEF FetchFails, MasterType, BrowserType, Inside
<1>8. ASSUME NEW f \in Fetches, NEW a \in Agents, OpenAgent(f, a)
      PROVE  TypeInv'
  <2> DEFINE r == [Idle EXCEPT !.at = "asked", !.agent = a]
  <2>1. /\ r \in Fetched /\ r.at = "asked" /\ r.agent = a /\ r.data = <<>>
    BY <1>4 DEF Fetched
  <2> HIDE DEF r
  <2>2. FetchType'
    <3>1. fetch' = [fetch EXCEPT ![f] = r]
      BY <1>8 DEF OpenAgent, r
    <3>2. QED
      BY <2>1, <3>1, MetricsAssumption DEF FetchType, MetricsAssumption
  <2>3. sel' \in Agents \cup {NoAgent} /\ UNCHANGED <<points, master, relay, view, heard>>
    BY <1>8 DEF OpenAgent
  <2>4. QED
    BY <2>2, <2>3 DEF MasterType, BrowserType, Inside
<1>9. CASE LeaveAgent
  BY <1>9 DEF LeaveAgent, MasterType, BrowserType, FetchType, Inside
<1>10. CASE Heard
  <2> DEFINE a == Head(relay).agent
             p == Head(relay).point
  <2>1. /\ a \in Agents /\ p \in Nat
        /\ relay' \in Seq([agent : Agents, point : Nat])
    <3>1. Head(relay) \in [agent : Agents, point : Nat]
          /\ Tail(relay) \in Seq([agent : Agents, point : Nat])
      BY <1>10, HeadTail DEF Heard, MasterType
    <3>2. QED
      BY <1>10, <3>1 DEF Heard
  <2>2. /\ view' = [view EXCEPT ![a] = LastOf(Append(view[a], p), Window)]
        /\ heard' = [heard EXCEPT ![a] = LastOf(Append(heard[a], p), Window)]
    BY <1>10 DEF Heard
  <2>3. ASSUME NEW s \in Seq(Nat)
        PROVE  /\ LastOf(Append(s, p), Window) \in Seq(Nat)
               /\ Len(LastOf(Append(s, p), Window)) <= Window
    <3>1. Append(s, p) \in Seq(Nat) /\ Window \in Nat \ {0}
      BY <2>1, MetricsAssumption DEF MetricsAssumption
    <3> DEFINE x == Append(s, p)
               m == IF Len(x) > Window THEN Window ELSE Len(x)
    <3> HIDE DEF x
    <3>2. LastOf(x, Window) \in Seq(Nat) /\ Len(LastOf(x, Window)) = m
      BY <3>1, LastIs DEF x
    <3>3. m <= Window
      BY <3>1 DEF x
    <3>4. QED
      BY <3>2, <3>3 DEF x
  <2> HIDE DEF a, p
  <2>4. view[a] \in Seq(Nat) /\ heard[a] \in Seq(Nat)
    BY <2>1 DEF BrowserType
  <2>5. /\ view' \in [Agents -> Seq(Nat)] /\ heard' \in [Agents -> Seq(Nat)]
        /\ \A b \in Agents : Len(view'[b]) <= Window /\ Len(heard'[b]) <= Window
    BY <2>1, <2>2, <2>3, <2>4 DEF BrowserType
  <2>6. UNCHANGED <<points, master, sel, fetch>>
    BY <1>10 DEF Heard
  <2>7. QED
    BY <2>1, <2>5, <2>6 DEF MasterType, BrowserType, FetchType, Inside
<1>11. CASE NotHeard
  <2>1. relay' \in Seq([agent : Agents, point : Nat])
    BY <1>11 DEF NotHeard, MasterType
  <2>2. QED
    BY <1>11, <2>1 DEF NotHeard, MasterType, BrowserType, FetchType, Inside
<1>12. CASE UNCHANGED vars
  BY <1>12 DEF vars, MasterType, BrowserType, FetchType, Inside
<1>13. QED
  BY <1>1, <1>2, <1>3, <1>6, <1>7, <1>8, <1>9, <1>10, <1>11, <1>12 DEF Next

(* A point does not reach a slice that was handed out.                     *)
LEMMA HeldPoint ==
  ASSUME TypeInv, NEW f \in Fetches, Behind(f), UNCHANGED fetch,
         NEW a \in Agents, NEW p \in Nat, NEW n \in Nat, NEW o \in Nat,
         Grows(a, p, n, o)
  PROVE  Behind(f)'
<1> DEFINE b == fetch[f].agent
           s == fetch[f].slice
<1> SUFFICES ASSUME fetch[f].at = "held"
             PROVE  /\ Inside(b, s)'
                    /\ (s.len > 0 /\ s.array = hist[b].array =>
                          s.off + s.len <= hist[b].off + hist[b].len)'
                    /\ (Read(b, s) = fetch[f].data)'
  BY DEF Behind
<1>1. /\ Inside(b, s) /\ Read(b, s) = fetch[f].data
      /\ s.len > 0 /\ s.array = hist[b].array =>
            s.off + s.len <= hist[b].off + hist[b].len
  BY DEF Behind
<1>2. b' = b /\ s' = s /\ fetch'[f].data = fetch[f].data
  OBVIOUS
<1>3. b \in Agents /\ s \in Slices
  BY DEF TypeInv, FetchType, Fetched
<1>4. /\ \A c \in Agents : c # a => hist'[c] = hist[c] /\ heap'[c] = heap[c]
      /\ hist'[a].array = n
      /\ hist'[a].off + hist'[a].len = o + hist[a].len + 1
  <2>1. \A c \in Agents : c # a => heap'[c] = heap[c]
    BY DEF Grows
  <2>2. /\ \A c \in Agents : c # a => hist'[c] = hist[c]
        /\ hist'[a].array = n
        /\ hist'[a].off + hist'[a].len = o + hist[a].len + 1
    BY WindowGrows
  <2>3. QED
    BY <2>1, <2>2
<1> HIDE DEF b, s
<1>5. CASE s.len = 0 \/ b # a
  BY <1>1, <1>2, <1>3, <1>4, <1>5 DEF Inside, Read
<1>6. CASE s.len # 0 /\ b = a
  <2>1. /\ s.len \in Nat /\ s.len > 0 /\ s.off \in Nat
        /\ s.array \in 1 .. Len(heap[a])
        /\ s.off + s.len <= Len(heap[a][s.array])
    <3>1. s.len \in Nat /\ s.len > 0 /\ s.off \in Nat
      BY <1>3, <1>6, MetricsAssumption DEF Slices, MetricsAssumption
    <3>2. QED
      BY <1>1, <1>6, <3>1 DEF Inside
  <2>2. /\ s.array \in 1 .. Len(heap'[a])
        /\ Len(heap'[a][s.array]) = Len(heap[a][s.array])
        /\ \A i \in 1 .. s.off + s.len :
              heap'[a][s.array][i] = heap[a][s.array][i]
        /\ s.array = n => s.off + s.len <= o + hist[a].len + 1
    <3>0. /\ heap[a] \in Seq(Seq(Nat)) /\ heap'[a] \in Seq(Seq(Nat))
          /\ Len(heap[a]) <= Len(heap'[a])
      BY DEF TypeInv, MasterType, Grows
    <3>1. s.array \in 1 .. Len(heap'[a])
      <4>1. s.array \in 1 .. Len(heap[a])
        BY <2>1
      <4>2. QED
        BY <3>0, <4>1
    <3>2. CASE s.array # n
      <4>1. heap'[a][s.array] = heap[a][s.array]
        BY <2>1, <3>2 DEF Grows
      <4>2. QED
        BY <3>1, <3>2, <4>1
    <3>3. CASE s.array = n
      <4>1. /\ n = hist[a].array /\ o = hist[a].off
            /\ Len(heap'[a][n]) = Len(heap[a][n])
            /\ \A i \in 1 .. hist[a].off + hist[a].len :
                  heap'[a][n][i] = heap[a][n][i]
        BY <2>1, <3>3 DEF Grows
      <4>2. s.off + s.len <= hist[a].off + hist[a].len
        BY <1>1, <1>6, <2>1, <3>3, <4>1
      <4>3. hist[a].off \in Nat /\ hist[a].len \in Nat
        BY MetricsAssumption DEF TypeInv, MasterType, Slices, MetricsAssumption
      <4>4. \A i \in 1 .. s.off + s.len : i \in 1 .. hist[a].off + hist[a].len
        <5>1. s.off \in Nat /\ s.len \in Nat
          BY <2>1
        <5>2. QED
          BY <4>2, <4>3, <5>1
      <4>5. s.off + s.len <= o + hist[a].len + 1
        <5>1. s.off \in Nat /\ s.len \in Nat /\ o = hist[a].off
          BY <2>1, <4>1
        <5>2. QED
          BY <4>2, <4>3, <5>1
      <4>6. QED
        BY <3>1, <3>3, <4>1, <4>4, <4>5
    <3>4. QED
      BY <3>2, <3>3
  <2>3. Inside(b, s)'
    BY <1>2, <1>6, <2>1, <2>2 DEF Inside
  <2>4. (s.len > 0 /\ s.array = hist[b].array =>
            s.off + s.len <= hist[b].off + hist[b].len)'
    BY <1>2, <1>4, <1>6, <2>2
  <2>5. Read(b, s)' = Read(b, s)
    <3> DEFINE A == heap[a][s.array]
               B == heap'[a][s.array]
    <3>1. A \in Seq(Nat) /\ B \in Seq(Nat)
      <4>1. heap[a] \in Seq(Seq(Nat)) /\ heap'[a] \in Seq(Seq(Nat))
        BY DEF TypeInv, MasterType, Grows
      <4>2. QED
        <5>1. s.array \in 1 .. Len(heap[a]) /\ s.array \in 1 .. Len(heap'[a])
          BY <2>1, <2>2
        <5>2. QED
          BY <4>1, <5>1, ElementIn
    <3>2. /\ Read(b, s) = SubSeq(A, s.off + 1, s.off + s.len)
          /\ Read(b, s)' = SubSeq(B, s.off + 1, s.off + s.len)
      BY <1>2, <1>6 DEF Read
    <3>3. \A k \in 1 .. s.len : A[s.off + k] = B[s.off + k]
      <4>1. \A k \in 1 .. s.len : s.off + k \in 1 .. s.off + s.len
        BY <2>1
      <4>2. QED
        BY <2>2, <4>1
    <3>4. s.off + s.len <= Len(A) /\ s.off + s.len <= Len(B)
      BY <2>1, <2>2
    <3>0. s.off \in Nat /\ s.len \in Nat
      BY <2>1
    <3> HIDE DEF A, B
    <3> DEFINE x == SubSeq(A, s.off + 1, s.off + s.len)
               y == SubSeq(B, s.off + 1, s.off + s.len)
    <3>5. /\ x \in Seq(Nat) /\ Len(x) = s.len
          /\ \A k \in 1 .. s.len : x[k] = A[s.off + k]
      BY <3>0, <3>1, <3>4, PartIs
    <3>6. /\ y \in Seq(Nat) /\ Len(y) = s.len
          /\ \A k \in 1 .. s.len : y[k] = B[s.off + k]
      BY <3>0, <3>1, <3>4, PartIs
    <3> HIDE DEF x, y
    <3>7. x = y
      BY <3>3, <3>5, <3>6, SameSeq
    <3>8. QED
      BY <3>2, <3>7 DEF x, y
  <2>6. QED
    BY <1>1, <1>2, <2>3, <2>4, <2>5
<1>7. QED
  BY <1>5, <1>6

LEMMA HeldStep == TypeInv /\ HeldInv /\ [Next]_vars => HeldInv'
<1> SUFFICES ASSUME TypeInv, \A f \in Fetches : Behind(f), [Next]_vars
             PROVE  \A g \in Fetches : Behind(g)'
  BY DEF HeldInv
<1> USE DEF master
<1>1. ASSUME NEW a \in Agents, NEW cap \in Capacities, Point(a, cap)
      PROVE  \A g \in Fetches : Behind(g)'
  <2>1. PICK n, o \in Nat : Grows(a, points', n, o)
    BY <1>1, PointGrows
  <2>2. points' \in Nat /\ UNCHANGED fetch
    BY <1>1, PointGrows
  <2>3. QED
    BY <2>1, <2>2, HeldPoint
<1>2. ASSUME NEW f \in Fetches, UNCHANGED <<heap, hist>>,
             \A g \in Fetches : g # f => fetch'[g] = fetch[g],
             fetch'[f].at # "held"
      PROVE  \A g \in Fetches : Behind(g)'
  BY <1>2 DEF Behind, Inside, Read
<1>3. ASSUME UNCHANGED <<heap, hist, fetch>>
      PROVE  \A g \in Fetches : Behind(g)'
  BY <1>3 DEF Behind, Inside, Read
<1>4. ASSUME NEW f \in Fetches, TakeHistory(f)
      PROVE  \A g \in Fetches : Behind(g)'
  <2> DEFINE a == fetch[f].agent
             r == [fetch[f] EXCEPT !.at = "held", !.slice = hist[a],
                                   !.data = Read(a, hist[a])]
  <2>1. a \in Agents /\ fetch[f] \in Fetched
    BY <1>4 DEF TakeHistory, TypeInv, FetchType, Fetched
  <2>2. r.agent = a /\ r.slice = hist[a] /\ r.data = Read(a, hist[a])
    BY <2>1 DEF Fetched
  <2>3. UNCHANGED <<heap, hist>> /\ fetch' = [fetch EXCEPT ![f] = r]
    BY <1>4 DEF TakeHistory
  <2>4. fetch'[f] = r /\ \A g \in Fetches : g # f => fetch'[g] = fetch[g]
    BY <2>3 DEF TypeInv, FetchType
  <2> HIDE DEF a, r
  <2>5. Inside(a, hist[a]) /\ hist[a].off + hist[a].len \in Nat
    BY <2>1, MetricsAssumption
    DEF TypeInv, MasterType, Slices, MetricsAssumption
  <2>6. Behind(f)'
    <3>1. /\ fetch'[f].agent = a /\ fetch'[f].slice = hist[a]
          /\ fetch'[f].data = Read(a, hist[a])
      BY <2>2, <2>4
    <3>2. Inside(fetch[f].agent, fetch[f].slice)'
      BY <2>3, <2>5, <3>1 DEF Inside
    <3>3. Read(fetch[f].agent, fetch[f].slice)' = fetch'[f].data
      BY <2>3, <3>1 DEF Read
    <3>4. fetch'[f].slice = hist'[fetch'[f].agent]
      BY <2>3, <3>1
    <3>5. fetch'[f].slice.off + fetch'[f].slice.len \in Nat
      BY <2>5, <3>1
    <3>6. QED
      BY <3>2, <3>3, <3>4, <3>5 DEF Behind
  <2>7. ASSUME NEW g \in Fetches, g # f PROVE Behind(g)'
    BY <2>3, <2>4, <2>7 DEF Behind, Inside, Read
  <2>8. QED
    BY <2>6, <2>7
<1>5. fetch \in [Fetches -> Fetched]
  BY DEF TypeInv, FetchType
<1>6. ASSUME NEW f \in Fetches, Encode(f)
      PROVE  \A g \in Fetches : Behind(g)'
  <2>1. fetch'[f].at = "answered"
    BY <1>5, <1>6 DEF Encode, Fetched
  <2>2. QED
    BY <1>2, <1>6, <2>1 DEF Encode
<1>7. ASSUME NEW f \in Fetches, Answer(f) \/ FetchFails(f)
      PROVE  \A g \in Fetches : Behind(g)'
  BY <1>2, <1>5, <1>7 DEF Answer, FetchFails, Idle
<1>8. ASSUME NEW f \in Fetches, NEW a \in Agents, OpenAgent(f, a)
      PROVE  \A g \in Fetches : Behind(g)'
  BY <1>2, <1>5, <1>8 DEF OpenAgent, Idle
<1>9. CASE LeaveAgent \/ Heard \/ NotHeard
  BY <1>3, <1>9 DEF LeaveAgent, Heard, NotHeard
<1>10. CASE UNCHANGED vars
  BY <1>3, <1>10 DEF vars
<1>11. QED
  BY <1>1, <1>4, <1>6, <1>7, <1>8, <1>9, <1>10 DEF Next

LEMMA TypeAlways == Spec => [](TypeInv /\ HeldInv)
<1> DEFINE I == TypeInv /\ HeldInv
<1>1. Init => I
  BY TypeInit
<1>2. I /\ [Next]_vars => I'
  BY TypeStep, HeldStep
<1> HIDE DEF I
<1>3. Spec => []I
  BY <1>1, <1>2, PTL DEF Spec
<1>4. QED
  BY <1>3 DEF I

(* Every variable keeps to its values: a slice lies inside its array, and  *)
(* nobody keeps more points than a window (main.go 131-136, app.js 95).    *)
THEOREM TypeCorrect == Spec => []TypeOK
<1>1. TypeInv => TypeOK
  <2> SUFFICES ASSUME TypeInv PROVE TypeOK
    OBVIOUS
  <2> USE DEF TypeInv
  <2>1. ASSUME NEW a \in Agents
        PROVE  /\ hist[a].len \in 0 .. Window
               /\ hist[a].len > 0 =>
                    hist[a].off + hist[a].len <= Len(heap[a][hist[a].array])
    BY DEF MasterType, Slices, Inside
  <2>2. ASSUME NEW f \in Fetches
        PROVE  /\ fetch[f].at \in {"none", "asked", "held", "answered"}
               /\ fetch[f].agent = NoAgent <=> fetch[f].at = "none"
               /\ Len(fetch[f].data) <= Window
    BY DEF FetchType, Fetched
  <2>3. QED
    BY <2>1, <2>2 DEF TypeOK, MasterType, BrowserType
<1>2. QED
  BY <1>1, TypeAlways, PTL

(* A history that was handed out does not change while it is encoded       *)
(* without the lock: no later point is written inside it (main.go 140-144, *)
(* api_games.go 103).                                                      *)
THEOREM HandedOutStays == Spec => []HeldIsStable
<1>1. TypeInv /\ HeldInv => HeldIsStable
  BY DEF HeldInv, Behind, HeldIsStable
<1>2. QED
  BY <1>1, TypeAlways, PTL

-----------------------------------------------------------------------------
(* The windows                                                             *)

LEMMA WindowStep == TypeInv /\ WindowIsLatest /\ [Next]_vars => WindowIsLatest'
<1> SUFFICES ASSUME TypeInv, WindowIsLatest, [Next]_vars
             PROVE  WindowIsLatest'
  OBVIOUS
<1>1. ASSUME NEW a \in Agents, NEW cap \in Capacities, Point(a, cap)
      PROVE  WindowIsLatest'
  <2>1. /\ points' \in Nat
        /\ stored' = [stored EXCEPT ![a] = Append(@, points')]
    BY <1>1, PointGrows
  <2>2. PICK n, o \in Nat : Grows(a, points', n, o)
    BY <1>1, PointGrows
  <2>3. Read(a, hist[a])' = LastOf(Append(Read(a, hist[a]), points'), Window)
    BY <2>1, <2>2, WindowGrows
  <2>4. Read(a, hist[a]) = LastOf(stored[a], Window)
    BY DEF WindowIsLatest
  <2>5. stored \in [Agents -> Seq(Nat)] /\ Window \in Nat \ {0}
    BY MetricsAssumption DEF TypeInv, MasterType, MetricsAssumption
  <2>6. LastOf(Append(LastOf(stored[a], Window), points'), Window)
          = LastOf(Append(stored[a], points'), Window)
    BY <2>1, <2>5, LastOfTwice
  <2>7. stored'[a] = Append(stored[a], points')
    BY <2>1, <2>5
  <2>8. (Read(a, hist[a]) = LastOf(stored[a], Window))'
    BY <2>3, <2>4, <2>6, <2>7
  <2>9. ASSUME NEW b \in Agents, b # a
        PROVE  (Read(b, hist[b]) = LastOf(stored[b], Window))'
    <3>1. hist'[b] = hist[b] /\ heap'[b] = heap[b]
      BY <2>1, <2>2, <2>9, WindowGrows DEF Grows
    <3>2. stored'[b] = stored[b]
      BY <2>1, <2>5, <2>9
    <3>3. Read(b, hist[b])' = Read(b, hist[b])
      BY <3>1 DEF Read
    <3>4. LastOf(stored[b], Window)' = LastOf(stored[b], Window)
      BY <3>2 DEF LastOf
    <3>5. QED
      BY <3>3, <3>4 DEF WindowIsLatest
  <2>10. QED
    BY <2>8, <2>9 DEF WindowIsLatest
<1>2. CASE UNCHANGED master
  BY <1>2 DEF master, WindowIsLatest, Read, LastOf
<1>3. QED
  BY <1>1, <1>2 DEF Next, TakeHistory, Encode, Answer, FetchFails, OpenAgent,
     LeaveAgent, Heard, NotHeard, vars

(* The master's window is the latest points the agent sent, in order,      *)
(* wherever they lie (main.go 131-136).                                    *)
THEOREM WindowKept == Spec => []WindowIsLatest
<1>1. ASSUME Init PROVE WindowIsLatest
  <2>1. ASSUME NEW a \in Agents PROVE Read(a, hist[a]) = LastOf(stored[a], Window)
    <3>1. hist[a].len = 0 /\ stored[a] = <<>> /\ Window \in Nat \ {0}
      BY <1>1, MetricsAssumption DEF Init, Slice, MetricsAssumption
    <3>2. Read(a, hist[a]) = <<>>
      BY <3>1 DEF Read
    <3>3. Len(<<>>) = 0 /\ ~(0 > Window) /\ SubSeq(<<>>, 1, 0) = <<>>
      BY <3>1
    <3>4. LastOf(<<>>, Window) = <<>>
      BY <3>3 DEF LastOf
    <3>5. QED
      BY <3>1, <3>2, <3>4
  <2>2. QED
    BY <2>1 DEF WindowIsLatest
<1>2. QED
  BY <1>1, TypeAlways, WindowStep, PTL DEF Spec

ViewInv == \A a \in Agents : IsEnd(heard[a], view[a])

LEMMA ViewStep == TypeInv /\ ViewInv /\ [Next]_vars => ViewInv'
<1> SUFFICES ASSUME TypeInv, ViewInv, [Next]_vars PROVE ViewInv'
  OBVIOUS
<1>1. ASSUME NEW f \in Fetches, Answer(f)
      PROVE  ViewInv'
  <2>1. CASE sel = NoAgent \/ fetch[f].data = <<>>
    BY <1>1, <2>1 DEF Answer, ViewInv, IsEnd
  <2>2. CASE ~(sel = NoAgent \/ fetch[f].data = <<>>)
    <3>1. /\ view' = [view EXCEPT ![sel] = fetch[f].data]
          /\ heard' = [heard EXCEPT ![sel] = <<>>] /\ sel \in Agents
      BY <1>1, <2>2 DEF Answer, TypeInv, BrowserType
    <3>2. fetch[f].data \in Seq(Nat)
      BY DEF TypeInv, FetchType, Fetched
    <3>3. IsEnd(<<>>, fetch[f].data)
      BY <3>2 DEF IsEnd
    <3>4. ASSUME NEW b \in Agents PROVE IsEnd(heard'[b], view'[b])
      <4>1. CASE b = sel
        BY <3>1, <3>3, <4>1 DEF TypeInv, BrowserType
      <4>2. CASE b # sel
        <5>1. heard'[b] = heard[b] /\ view'[b] = view[b]
          BY <3>1, <4>2 DEF TypeInv, BrowserType
        <5>2. QED
          BY <5>1 DEF ViewInv
      <4>3. QED
        BY <4>1, <4>2
    <3>5. QED
      BY <3>4 DEF ViewInv, IsEnd
  <2>3. QED
    BY <2>1, <2>2
<1>2. CASE Heard
  <2> DEFINE a == Head(relay).agent
             p == Head(relay).point
  <2>1. a \in Agents /\ p \in Nat
    <3>1. Head(relay) \in [agent : Agents, point : Nat]
      BY <1>2, HeadTail DEF Heard, TypeInv, MasterType
    <3>2. QED
      BY <3>1
  <2>2. /\ view' = [view EXCEPT ![a] = LastOf(Append(view[a], p), Window)]
        /\ heard' = [heard EXCEPT ![a] = LastOf(Append(heard[a], p), Window)]
    BY <1>2 DEF Heard
  <2> HIDE DEF a, p
  <2>3. view \in [Agents -> Seq(Nat)] /\ heard \in [Agents -> Seq(Nat)]
    BY DEF TypeInv, BrowserType
  <2>4. IsEnd(LastOf(Append(heard[a], p), Window),
              LastOf(Append(view[a], p), Window))
    BY <2>1, <2>3, EndGrows, MetricsAssumption DEF ViewInv, MetricsAssumption
  <2>5. ASSUME NEW b \in Agents PROVE IsEnd(heard'[b], view'[b])
    <3>1. CASE b = a
      BY <2>1, <2>2, <2>3, <2>4, <3>1
    <3>2. CASE b # a
      <4>1. heard'[b] = heard[b] /\ view'[b] = view[b]
        BY <2>2, <2>3, <3>2
      <4>2. QED
        BY <4>1 DEF ViewInv
    <3>3. QED
      BY <3>1, <3>2
  <2>6. QED
    BY <2>5 DEF ViewInv, IsEnd
<1>3. CASE UNCHANGED <<view, heard>>
  BY <1>3 DEF ViewInv, IsEnd
<1>4. QED
  BY <1>1, <1>2, <1>3 DEF Next, Point, TakeHistory, Encode, FetchFails,
     OpenAgent, LeaveAgent, NotHeard, vars, browser

(* Once as many points as the window holds have come to the browser since  *)
(* an answer replaced the view, the view is the last of the points that    *)
(* came to it, whatever the answer put there (app.js 95-99).  They need    *)
(* not be the last that were stored: some may never reach a browser.       *)
THEOREM ViewCatchesUp == Spec => []ViewRecovers
<1>1. ASSUME Init PROVE ViewInv
  <2>1. \A a \in Agents : heard[a] = <<>> /\ view[a] = <<>>
    BY <1>1 DEF Init
  <2>2. IsEnd(<<>>, <<>>)
    BY DEF IsEnd
  <2>3. \A a \in Agents : IsEnd(heard[a], view[a])
    BY <2>1, <2>2
  <2>4. QED
    BY <2>3 DEF ViewInv
<1>2. ASSUME TypeInv, ViewInv PROVE ViewRecovers
  <2>1. ASSUME NEW a \in Agents, Len(heard[a]) = Window PROVE view[a] = heard[a]
    <3>1. /\ view[a] \in Seq(Nat) /\ heard[a] \in Seq(Nat)
          /\ Len(view[a]) <= Window
      BY <1>2 DEF TypeInv, BrowserType
    <3>2. IsEnd(heard[a], view[a])
      BY <1>2 DEF ViewInv
    <3>3. Len(view[a]) = Window /\ Window \in Nat
      BY <2>1, <3>1, <3>2, MetricsAssumption DEF IsEnd, MetricsAssumption
    <3>4. ASSUME NEW k \in 1 .. Len(heard[a]) PROVE heard[a][k] = view[a][k]
      <4>1. heard[a][k] = view[a][Len(view[a]) - Len(heard[a]) + k]
        BY <3>2 DEF IsEnd
      <4>2. Len(view[a]) - Len(heard[a]) + k = k
        BY <2>1, <3>3
      <4>3. QED
        BY <4>1, <4>2
    <3>5. QED
      BY <2>1, <3>1, <3>3, <3>4, SameSeq
  <2>2. QED
    BY <2>1 DEF ViewRecovers
<1>3. Spec => []ViewInv
  BY <1>1, TypeAlways, ViewStep, PTL DEF Spec
<1>4. QED
  BY <1>2, <1>3, TypeAlways, PTL
=============================================================================
