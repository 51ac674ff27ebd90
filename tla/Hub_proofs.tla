----------------------------- MODULE Hub_proofs -----------------------------
(***************************************************************************)
(* Proofs about the wallets of a hub, for any devices, callers and numbers *)
(* of wallets and subscriptions.  The merge of refreshWallets is a loop    *)
(* over the devices: what a turn of it keeps is the predicate Loop, and    *)
(* what a whole refresh makes of the list is the lemma Outcome.            *)
(***************************************************************************)
EXTENDS Hub, Integers, FiniteSetTheorems, TLAPS, WellFoundedInduction

-----------------------------------------------------------------------------
(* Induction and recursion over the naturals.                              *)

\* There is a least element in every set of naturals.
LEMMA Least ==
  ASSUME NEW T, T \subseteq Nat, T # {}
  PROVE  \E x \in T : \A y \in T : ~(y < x)
<1> DEFINE R == OpToRel(<, Nat)
<1>1. IsWellFoundedOn(R, Nat)
  BY NatLessThanWellFounded, Zenon
<1>2. T \subseteq Nat /\ T # {}
  BY Zenon
<1>3. \A x, y \in Nat : y < x => <<y, x>> \in R
  BY Zenon DEF OpToRel
<1> HIDE DEF R
<1>4. PICK x \in T : \A y \in T : ~(<<y, x>> \in R)
  BY <1>1, <1>2, WFMin, Zenon
<1> QED BY <1>2, <1>3, <1>4, Zenon

\* What holds at 0 and is kept by every successor up to top holds up to top.
LEMMA Induction ==
  ASSUME NEW S, 0 \in S, NEW top, top \in Nat,
         \A n \in Nat : n < top /\ n \in S => n + 1 \in S
  PROVE  \A n \in 0..top : n \in S
<1> DEFINE T == {n \in Nat : n <= top /\ n \notin S}
<1>1. ASSUME T # {} PROVE FALSE
  <2>1. PICK x \in T : \A y \in T : ~(y < x)
    BY <1>1, Least, T \subseteq Nat, Zenon
  <2>2. x \in Nat /\ x # 0 /\ x <= top /\ x \notin S
    BY <2>1, Zenon
  <2>3. x - 1 \in Nat /\ x - 1 < top /\ x - 1 <= top /\ (x - 1) + 1 = x /\ x - 1 < x
    BY <2>2
  <2>4. x - 1 \in S
    BY <2>1, <2>3, Zenon
  <2> QED BY <2>2, <2>3, <2>4, Zenon
<1>2. \A n \in 0..top : n \in Nat /\ n <= top
  OBVIOUS
<1> QED BY <1>1, <1>2, Zenon

\* The naturals, and their initial segments.
Segment(D) == D = Nat \/ \E m \in Nat : D = 0..m

\* step, applied to an argument and a value of V, gives a value of V.
Stepping(step, V) == \A n \in Nat, v \in V : step[<<n, v>>] \in V

\* g has the value a at 0 and follows step elsewhere.
Follows(g, D, a, step) == g = [n \in D |-> IF n = 0 THEN a ELSE step[<<n, g[n - 1]>>]]

\* A function may be defined by its value at 0 and, elsewhere, from its value
\* one before.
LEMMA Recursion ==
  ASSUME NEW V, NEW a \in V, NEW step, Stepping(step, V), NEW D, Segment(D)
  PROVE  \E g : Follows(g, D, a, step) /\ \A n \in D : g[n] \in V
<1> DEFINE Solves(g, m) == /\ g = [n \in 0..m |-> IF n = 0 THEN a ELSE step[<<n, g[n - 1]>>]]
                           /\ \A n \in 0..m : g[n] \in V
           S == {m \in Nat : \E g : Solves(g, m)}
<1>1. 0 \in S
  <2> DEFINE g == [n \in 0..0 |-> a]
  <2>1. \A n \in 0..0 : n = 0
    OBVIOUS
  <2>2. g = [n \in 0..0 |-> IF n = 0 THEN a ELSE step[<<n, g[n - 1]>>]]
    BY <2>1, Zenon
  <2>3. \A n \in 0..0 : g[n] \in V
    BY Zenon
  <2> HIDE DEF g
  <2>4. \E h : Solves(h, 0)
    BY <2>2, <2>3, Zenon
  <2> QED BY <2>4, 0 \in Nat, Zenon
<1>2. ASSUME NEW m \in Nat, m \in S PROVE m + 1 \in S
  <2>1. PICK f : Solves(f, m)
    BY <1>2, Zenon
  <2> DEFINE g == [n \in 0..(m + 1) |-> IF n = m + 1 THEN step[<<n, f[m]>>] ELSE f[n]]
  <2>2. /\ m + 1 \in Nat /\ m \in 0..m /\ m + 1 # 0 /\ (m + 1) - 1 = m /\ m # m + 1
        /\ m \in 0..(m + 1)
    OBVIOUS
  <2>3. \A n \in 0..(m + 1) : n # m + 1 => n \in 0..m
    OBVIOUS
  <2>4. \A n \in 0..m : n # 0 => n - 1 \in 0..(m + 1) /\ n - 1 # m + 1
    OBVIOUS
  <2>5. \A n \in 0..(m + 1) : g[n] = IF n = 0 THEN a ELSE step[<<n, g[n - 1]>>]
    <3> TAKE n \in 0..(m + 1)
    <3>1. CASE n = m + 1
      <4>1. g[n] = step[<<n, f[m]>>]
        BY <3>1, Zenon
      <4>2. g[n - 1] = f[m]
        BY <2>2, <3>1, Zenon
      <4> HIDE DEF g
      <4> QED BY <2>2, <3>1, <4>1, <4>2, Zenon
    <3>2. CASE n # m + 1
      <4>1. g[n] = f[n] /\ n \in 0..m
        BY <2>3, <3>2, Zenon
      <4>2. f[n] = IF n = 0 THEN a ELSE step[<<n, f[n - 1]>>]
        BY <2>1, <4>1, Zenon
      <4>3. n # 0 => g[n - 1] = f[n - 1]
        BY <2>4, <4>1, Zenon
      <4> HIDE DEF g
      <4> QED BY <4>1, <4>2, <4>3, Zenon
    <3> QED BY <3>1, <3>2, Zenon
  <2>6. \A n \in 0..(m + 1) : g[n] \in V
    <3>1. f[m] \in V
      BY <2>1, <2>2, Zenon
    <3>2. step[<<m + 1, f[m]>>] \in V
      BY <2>2, <3>1, Zenon DEF Stepping
    <3>3. \A n \in 0..m : f[n] \in V
      BY <2>1, Zenon
    <3> QED BY <2>3, <3>2, <3>3, Zenon
  <2>7. g = [n \in 0..(m + 1) |-> g[n]]
    BY Zenon
  <2> HIDE DEF g
  <2>8. g = [n \in 0..(m + 1) |-> IF n = 0 THEN a ELSE step[<<n, g[n - 1]>>]]
    BY <2>5, <2>7, Zenon
  <2>9. \E h : Solves(h, m + 1)
    BY <2>6, <2>8, Zenon
  <2> QED BY <2>2, <2>9, Zenon
<1>3. ASSUME NEW m \in Nat PROVE \E g : Solves(g, m)
  <2> HIDE DEF S
  <2>1. \A n \in Nat : n < m /\ n \in S => n + 1 \in S
    BY <1>2, Zenon
  <2>2. \A n \in 0..m : n \in S
    BY <1>1, <2>1, Induction, Zenon
  <2>3. m \in S
    BY <2>2
  <2> QED BY <2>3, Zenon DEF S
<1> HIDE DEF S
<1>4. ASSUME NEW f, NEW g, NEW k \in Nat, NEW m \in Nat, Solves(f, k), Solves(g, m), k <= m
      PROVE  f[k] = g[k]
  <2> DEFINE E == {n \in 0..k : f[n] = g[n]}
  <2>1. /\ \A n \in 0..k : f[n] = IF n = 0 THEN a ELSE step[<<n, f[n - 1]>>]
        /\ \A n \in 0..m : g[n] = IF n = 0 THEN a ELSE step[<<n, g[n - 1]>>]
    BY <1>4, Zenon
  <2>2. 0 \in 0..k /\ k \in 0..k /\ \A n \in 0..k : n \in 0..m
    BY <1>4
  <2>3. 0 \in E
    BY <2>1, <2>2, Zenon
  <2>4. ASSUME NEW n \in Nat, n < k, n \in E PROVE n + 1 \in E
    <3>1. n + 1 \in 0..k /\ n + 1 # 0 /\ (n + 1) - 1 = n
      BY <2>4
    <3>2. f[n + 1] = step[<<n + 1, f[n]>>] /\ g[n + 1] = step[<<n + 1, g[n]>>]
      BY <2>1, <2>2, <3>1, Zenon
    <3> QED BY <2>4, <3>1, <3>2, Zenon
  <2> HIDE DEF E
  <2>5. \A n \in 0..k : n \in E
    BY <2>3, <2>4, Induction, Zenon
  <2> QED BY <2>2, <2>5, Zenon DEF E
<1> DEFINE G(n) == CHOOSE g : Solves(g, n)
<1>5. \A n \in Nat : Solves(G(n), n)
  BY <1>3, Zenon
<1>6. ASSUME NEW n \in Nat
      PROVE  /\ G(n)[n] = IF n = 0 THEN a ELSE step[<<n, G(n - 1)[n - 1]>>]
             /\ G(n)[n] \in V
  <2> HIDE DEF G
  <2>1. Solves(G(n), n) /\ n \in 0..n
    BY <1>5
  <2>2. G(n)[n] = (IF n = 0 THEN a ELSE step[<<n, G(n)[n - 1]>>]) /\ G(n)[n] \in V
    BY <2>1, Zenon
  <2>3. ASSUME n # 0 PROVE G(n)[n - 1] = G(n - 1)[n - 1]
    <3>1. n - 1 \in Nat /\ n - 1 <= n
      BY <2>3
    <3>2. Solves(G(n - 1), n - 1)
      BY <1>5, <3>1, Zenon
    <3> HIDE DEF Solves
    <3> QED BY <1>4, <2>1, <3>1, <3>2, Zenon
  <2> QED BY <2>2, <2>3, Zenon
<1> HIDE DEF G
<1> DEFINE f == [n \in D |-> G(n)[n]]
<1>7. \A n \in D : n \in Nat /\ (n # 0 => n - 1 \in D)
  <2>1. CASE D = Nat
    BY <2>1
  <2>2. CASE \E m \in Nat : D = 0..m
    <3>1. PICK m \in Nat : D = 0..m
      BY <2>2, Zenon
    <3> QED BY <3>1
  <2> QED BY <2>1, <2>2, Zenon DEF Segment
<1>8. \A n \in D : f[n] = (IF n = 0 THEN a ELSE step[<<n, f[n - 1]>>]) /\ f[n] \in V
  BY <1>6, <1>7, Zenon
<1>9. f = [n \in D |-> f[n]]
  BY Zenon
<1> HIDE DEF f
<1>10. f = [n \in D |-> IF n = 0 THEN a ELSE step[<<n, f[n - 1]>>]]
  BY <1>8, <1>9, Zenon
<1> QED BY <1>8, <1>10, Zenon DEF Follows

-----------------------------------------------------------------------------
(* One turn of the loop.                                                   *)

\* What the lists hold, and the state of the loop.
Wallet == [url : Devices, id : Nat]
Accs == [old : Seq(Wallet), new : Seq(Wallet), made : Nat, arrived : SUBSET Nat, dropped : SUBSET Nat]

\* The wallets dropped at the front are some of them; none when all belong to
\* this device or to later ones.
LEMMA StaleIs ==
  ASSUME HubAssumption, NEW old \in Seq(Wallet), NEW url \in Devices
  PROVE  /\ Stale(old, url) \in 0..Len(old)
         /\ (\A i \in 1..Len(old) : old[i].url >= url) => Stale(old, url) = 0
<1> DEFINE keep == {i \in DOMAIN old : old[i].url >= url \/ old[i].id \notin failed}
           first == CHOOSE i \in keep : \A j \in keep : i <= j
<1>1. Stale(old, url) = IF keep = {} THEN Len(old) ELSE first - 1
  BY Zenon DEF Stale
<1>2. keep \subseteq 1..Len(old) /\ DOMAIN old = 1..Len(old) /\ Len(old) \in Nat
  OBVIOUS
<1>3. (\A i \in 1..Len(old) : old[i].url >= url) => keep = 1..Len(old)
  BY <1>2, Zenon
<1> HIDE DEF keep
<1>4. keep # {} => first \in keep /\ \A j \in keep : first <= j
  <2>1. keep \subseteq Nat
    BY <1>2
  <2>2. ASSUME keep # {} PROVE \E x \in keep : \A y \in keep : x <= y
    <3>1. PICK x \in keep : \A y \in keep : ~(y < x)
      BY <2>1, <2>2, Least, Zenon
    <3>2. \A y \in keep : x <= y
      BY <2>1, <3>1
    <3> QED BY <3>2, Zenon
  <2> QED BY <2>2, Zenon
<1> HIDE DEF first
<1>5. CASE keep = {}
  <2>1. ASSUME \A i \in 1..Len(old) : old[i].url >= url PROVE Len(old) = 0
    <3>1. 1 \notin 1..Len(old)
      BY <1>3, <1>5, <2>1, Zenon
    <3> QED BY <1>2, <3>1
  <2>2. Len(old) \in 0..Len(old)
    BY <1>2
  <2> QED BY <1>1, <1>5, <2>1, <2>2, Zenon
<1>6. CASE keep # {}
  <2>1. first \in 1..Len(old) /\ Stale(old, url) = first - 1
    BY <1>1, <1>2, <1>4, <1>6, Zenon
  <2>2. Stale(old, url) \in 0..Len(old)
    BY <1>2, <2>1
  <2>3. ASSUME \A i \in 1..Len(old) : old[i].url >= url PROVE first = 1
    <3>1. 1 \in 1..Len(old)
      BY <1>2, <2>1
    <3>2. first <= 1
      BY <1>3, <1>4, <1>6, <2>3, <3>1, Zenon
    <3> QED BY <2>1, <3>2
  <2> QED BY <2>1, <2>2, <2>3
<1> QED BY <1>5, <1>6, Zenon

\* One turn of the loop: n wallets are dropped at the front, then the device gets
\* a new wallet, or keeps the one it has, or is passed over.
Turn(acc, url, res, n, rest, gone) ==
  /\ n \in 0..Len(acc.old)
  /\ (\A i \in 1..Len(acc.old) : acc.old[i].url >= url) => n = 0
  /\ rest = SubSeq(acc.old, n + 1, Len(acc.old))
  /\ gone = acc.dropped \cup Ids(SubSeq(acc.old, 1, n))
  /\ \/ /\ rest = <<>> \/ rest[1].url > url
        /\ res = [old |-> rest, new |-> Append(acc.new, [url |-> url, id |-> acc.made + 1]),
                  made |-> acc.made + 1, arrived |-> acc.arrived \cup {acc.made + 1}, dropped |-> gone]
     \/ /\ rest # <<>> /\ rest[1].url = url
        /\ res = [old |-> Tail(rest), new |-> Append(acc.new, rest[1]), made |-> acc.made,
                  arrived |-> acc.arrived, dropped |-> gone]
     \/ /\ rest # <<>> /\ rest[1].url < url
        /\ res = [old |-> rest, new |-> acc.new, made |-> acc.made, arrived |-> acc.arrived,
                  dropped |-> gone]

\* Merge takes such a turn.
LEMMA MergeIs ==
  ASSUME HubAssumption, NEW acc \in Accs, NEW url \in Devices
  PROVE  \E n, rest, gone : Turn(acc, url, Merge(acc, url), n, rest, gone)
<1> DEFINE n == Stale(acc.old, url)
           rest == SubSeq(acc.old, n + 1, Len(acc.old))
           gone == acc.dropped \cup Ids(SubSeq(acc.old, 1, n))
           drop == DropStale(acc, url)
<1>1. acc.old \in Seq(Wallet) /\ acc.new \in Seq(Wallet) /\ acc.made \in Nat
  BY DEF Accs
<1>2. /\ n \in 0..Len(acc.old)
      /\ (\A i \in 1..Len(acc.old) : acc.old[i].url >= url) => n = 0
  BY <1>1, StaleIs, Zenon
<1> HIDE DEF n
<1>3. drop = [old |-> rest, new |-> acc.new, made |-> acc.made, arrived |-> acc.arrived,
              dropped |-> gone]
  BY Zenon DEF DropStale, n
<1>4. rest \in Seq(Wallet)
  BY <1>1, <1>2
<1> HIDE DEF rest, gone, drop
<1>5. drop.old = rest
  BY <1>3, Zenon
<1>6. /\ Wrap(drop, url) = [old |-> rest, new |-> Append(acc.new, [url |-> url, id |-> acc.made + 1]),
                            made |-> acc.made + 1, arrived |-> acc.arrived \cup {acc.made + 1},
                            dropped |-> gone]
      /\ Keep(drop) = [old |-> Tail(rest), new |-> Append(acc.new, Head(rest)), made |-> acc.made,
                       arrived |-> acc.arrived, dropped |-> gone]
  BY <1>3, Zenon DEF Wrap, Keep
<1>7. ASSUME rest # <<>> PROVE Head(rest) = rest[1] /\ rest[1].url \in Nat /\ url \in Nat
  <2>1. Head(rest) = rest[1] /\ rest[1] \in Wallet
    BY <1>4, <1>7
  <2> QED BY <2>1, Zenon DEF Wallet, HubAssumption
<1>8. Merge(acc, url) = IF rest = <<>> THEN Wrap(drop, url)
                        ELSE IF Head(rest).url > url THEN Wrap(drop, url)
                        ELSE IF Head(rest).url = url THEN Keep(drop) ELSE drop
  BY <1>5, Zenon DEF Merge, drop
<1>9. CASE rest = <<>>
  BY <1>2, <1>6, <1>8, <1>9, Zenon DEF Turn, rest, gone
<1>10. CASE rest # <<>>
  <2>1. CASE rest[1].url > url
    <3>1. Merge(acc, url) = Wrap(drop, url)
      BY <1>7, <1>8, <1>10, <2>1, Zenon
    <3> QED BY <1>2, <1>6, <2>1, <3>1, Zenon DEF Turn, rest, gone
  <2>2. CASE rest[1].url = url
    <3>1. ~(rest[1].url > url)
      BY <1>7, <1>10, <2>2
    <3>2. Merge(acc, url) = Keep(drop)
      BY <1>7, <1>8, <1>10, <2>2, <3>1, Zenon
    <3> QED BY <1>2, <1>6, <1>7, <1>10, <2>2, <3>2, Zenon DEF Turn, rest, gone
  <2>3. CASE rest[1].url < url
    <3>1. ~(rest[1].url > url) /\ rest[1].url # url
      BY <1>7, <1>10, <2>3
    <3>2. Merge(acc, url) = drop
      BY <1>7, <1>8, <1>10, <3>1, Zenon
    <3> QED BY <1>2, <1>3, <1>10, <2>3, <3>2, Zenon DEF Turn, rest, gone
  <2>4. rest[1].url > url \/ rest[1].url = url \/ rest[1].url < url
    BY <1>7, <1>10
  <2> QED BY <2>1, <2>2, <2>3, <2>4, Zenon
<1> QED BY <1>9, <1>10, Zenon

\* What is left of the list after n wallets, and the identifiers of those.
LEMMA Parts ==
  ASSUME NEW s \in Seq(Wallet), NEW n \in 0..Len(s)
  PROVE  /\ SubSeq(s, n + 1, Len(s)) \in Seq(Wallet)
         /\ Len(SubSeq(s, n + 1, Len(s))) = Len(s) - n
         /\ \A i \in 1..(Len(s) - n) : SubSeq(s, n + 1, Len(s))[i] = s[n + i]
         /\ Ids(SubSeq(s, 1, n)) = {s[i].id : i \in 1..n}
<1>1. /\ SubSeq(s, n + 1, Len(s)) \in Seq(Wallet)
      /\ Len(SubSeq(s, n + 1, Len(s))) = Len(s) - n
  OBVIOUS
<1>2. ASSUME NEW i \in 1..(Len(s) - n) PROVE SubSeq(s, n + 1, Len(s))[i] = s[n + i]
  OBVIOUS
<1>3. /\ DOMAIN SubSeq(s, 1, n) = 1..n
      /\ \A i \in 1..n : SubSeq(s, 1, n)[i] = s[i]
  OBVIOUS
<1>4. Ids(SubSeq(s, 1, n)) = {s[i].id : i \in 1..n}
  BY <1>3, Zenon DEF Ids
<1> QED BY <1>1, <1>2, <1>4, Zenon

\* Merge keeps the types.
LEMMA MergeType ==
  ASSUME HubAssumption, NEW acc \in Accs, NEW url \in Devices
  PROVE  Merge(acc, url) \in Accs
<1>1. PICK n, rest, gone : Turn(acc, url, Merge(acc, url), n, rest, gone)
  BY MergeIs, Zenon
<1>2. /\ acc.old \in Seq(Wallet) /\ acc.new \in Seq(Wallet) /\ acc.made \in Nat
      /\ acc.arrived \in SUBSET Nat /\ acc.dropped \in SUBSET Nat
  BY DEF Accs
<1>3. n \in 0..Len(acc.old) /\ rest = SubSeq(acc.old, n + 1, Len(acc.old))
      /\ gone = acc.dropped \cup Ids(SubSeq(acc.old, 1, n))
  BY <1>1, Zenon DEF Turn
<1>4. rest \in Seq(Wallet) /\ Ids(SubSeq(acc.old, 1, n)) = {acc.old[i].id : i \in 1..n}
  BY <1>2, <1>3, Parts, Zenon
<1>5. gone \in SUBSET Nat
  <2>1. \A i \in 1..n : acc.old[i] \in Wallet
    BY <1>2, <1>3
  <2>2. \A w \in Wallet : w.id \in Nat
    BY Zenon DEF Wallet
  <2> QED BY <1>2, <1>3, <1>4, <2>1, <2>2, Zenon
<1>6. CASE Merge(acc, url) =
             [old |-> rest, new |-> Append(acc.new, [url |-> url, id |-> acc.made + 1]),
              made |-> acc.made + 1, arrived |-> acc.arrived \cup {acc.made + 1}, dropped |-> gone]
  <2>1. [url |-> url, id |-> acc.made + 1] \in Wallet /\ acc.made + 1 \in Nat
    BY <1>2 DEF Wallet
  <2>2. Append(acc.new, [url |-> url, id |-> acc.made + 1]) \in Seq(Wallet)
    BY <1>2, <2>1
  <2> QED BY <1>2, <1>4, <1>5, <1>6, <2>1, <2>2 DEF Accs
<1>7. CASE /\ rest # <<>>
           /\ Merge(acc, url) =
                [old |-> Tail(rest), new |-> Append(acc.new, rest[1]), made |-> acc.made,
                 arrived |-> acc.arrived, dropped |-> gone]
  <2>1. Tail(rest) \in Seq(Wallet) /\ rest[1] \in Wallet
    BY <1>4, <1>7
  <2>2. Append(acc.new, rest[1]) \in Seq(Wallet)
    BY <1>2, <2>1
  <2> QED BY <1>2, <1>5, <1>7, <2>1, <2>2 DEF Accs
<1>8. CASE Merge(acc, url) =
             [old |-> rest, new |-> acc.new, made |-> acc.made, arrived |-> acc.arrived,
              dropped |-> gone]
  BY <1>2, <1>4, <1>5, <1>8 DEF Accs
<1> QED BY <1>1, <1>6, <1>7, <1>8, Zenon DEF Turn

\* The loop over the devices, turn by turn.
LEMMA MergedIs ==
  ASSUME HubAssumption, NEW devices \in Seq(Devices), Start \in Accs
  PROVE  \E acc : /\ acc[0] = Start /\ Merged(devices) = acc[Len(devices)]
                  /\ \A i \in 0..Len(devices) : acc[i] \in Accs
                  /\ \A i \in 1..Len(devices) : acc[i] = Merge(acc[i - 1], devices[i])
<1> DEFINE D == 0..Len(devices)
           a == Start
           Turned(i, v) == IF i \in 1..Len(devices) THEN Merge(v, devices[i]) ELSE v
           step == [p \in Nat \X Accs |-> Turned(p[1], p[2])]
           Body(f) == [i \in D |-> IF i = 0 THEN a ELSE Merge(f[i - 1], devices[i])]
           loop == CHOOSE f : f = Body(f)
<1>1. Len(devices) \in Nat /\ \A i \in 1..Len(devices) : devices[i] \in Devices
  OBVIOUS
<1>2. \A i \in Nat, v \in Accs : Turned(i, v) \in Accs
  BY <1>1, MergeType, Zenon
<1>3. Merged(devices) = loop[Len(devices)]
  BY Zenon DEF Merged
<1>4. a \in Accs
  BY Zenon
<1> HIDE DEF a
<1>5. \E f : f = Body(f) /\ \A i \in D : f[i] \in Accs
  <2>0. \A i \in D : i \in Nat /\ (i # 0 => i \in 1..Len(devices))
    BY <1>1
  <2>1. \A i \in Nat, v \in Accs : step[<<i, v>>] = Turned(i, v)
    <3> HIDE DEF Turned
    <3> QED BY Zenon
  <2>2. \A i \in D : \A v : i # 0 => Turned(i, v) = Merge(v, devices[i])
    BY <2>0, Zenon
  <2> HIDE DEF step, Turned
  <2>3. Segment(D)
    BY <1>1, Zenon DEF Segment
  <2>4. Stepping(step, Accs)
    BY <1>2, <2>1, Zenon DEF Stepping
  <2>5. \A i \in D : i # 0 => i - 1 \in D
    BY <1>1
  <2> HIDE DEF D
  <2>6. PICK g : Follows(g, D, a, step) /\ \A i \in D : g[i] \in Accs
    BY <1>4, <2>3, <2>4, Recursion, Zenon
  <2>7. \A i \in D : (IF i = 0 THEN a ELSE step[<<i, g[i - 1]>>])
                      = IF i = 0 THEN a ELSE Merge(g[i - 1], devices[i])
    <3> TAKE i \in D
    <3>1. CASE i = 0
      BY <3>1, Zenon
    <3>2. CASE i # 0
      <4>1. g[i - 1] \in Accs
        BY <2>5, <2>6, <3>2, Zenon
      <4>2. step[<<i, g[i - 1]>>] = Merge(g[i - 1], devices[i])
        BY <2>0, <2>1, <2>2, <3>2, <4>1, Zenon
      <4> QED BY <3>2, <4>2, Zenon
    <3> QED BY <3>1, <3>2, Zenon
  <2>8. g = Body(g)
    BY <2>6, <2>7, Zenon DEF Follows
  <2> QED BY <2>6, <2>8, Zenon
<1>6. loop = Body(loop)
  BY <1>5, Zenon
<1> HIDE DEF loop
<1>7. \A i \in D : loop[i] = IF i = 0 THEN a ELSE Merge(loop[i - 1], devices[i])
  BY <1>6, Zenon
<1>8. 0 \in D /\ \A i \in 1..Len(devices) : i \in D /\ i # 0
  BY <1>1
<1>9. /\ loop[0] = a
      /\ \A i \in 1..Len(devices) : loop[i] = Merge(loop[i - 1], devices[i])
  BY <1>7, <1>8, Zenon
<1>10. \A i \in D : loop[i] \in Accs
  <2> DEFINE S == {i \in D : loop[i] \in Accs}
  <2>1. 0 \in S
    BY <1>4, <1>8, <1>9, Zenon
  <2>2. ASSUME NEW i \in Nat, i < Len(devices), i \in S PROVE i + 1 \in S
    <3>1. i + 1 \in 1..Len(devices) /\ i + 1 \in D /\ (i + 1) - 1 = i
      BY <1>1, <2>2
    <3>2. loop[i + 1] = Merge(loop[i], devices[i + 1]) /\ devices[i + 1] \in Devices
      BY <1>1, <1>9, <3>1, Zenon
    <3> QED BY <2>2, <3>1, <3>2, MergeType, Zenon
  <2> HIDE DEF S
  <2>3. \A i \in 0..Len(devices) : i \in S
    BY <1>1, <2>1, <2>2, Induction, Zenon
  <2> QED BY <2>3, Zenon DEF S
<1> QED BY <1>3, <1>9, <1>10, Zenon DEF a

-----------------------------------------------------------------------------
(* The loop.                                                               *)

\* A list is in the order of its devices and has no wallet twice.
Increasing(list) ==
  \A i, j \in 1..Len(list) : i < j => list[i].url < list[j].url /\ list[i].id # list[j].id

\* The list of wallets between two refreshes.
ListOk ==
  /\ wallets \in Seq(Wallet) /\ made \in Nat
  /\ \A i \in 1..Len(wallets) : wallets[i].id \in 1..made
  /\ Increasing(wallets)

\* A scan: some devices in their order.
Scanned(devices) ==
  /\ devices \in Seq(Devices)
  /\ \A i, j \in 1..Len(devices) : i < j => devices[i] < devices[j]

\* Every wallet of the list has its device in the scan.
AllThere(devices) ==
  \A i \in 1..Len(wallets) : \E j \in 1..Len(devices) : wallets[i].url = devices[j]

First(p) == {wallets[i].id : i \in 1..p}

\* The wallets of a list belong to the first k devices of a scan, and each of those
\* has a wallet.
OfDevices(list, devices, k) == \A i \in 1..Len(list) : \E j \in 1..k : list[i].url = devices[j]
Complete(list, devices, k) == \A j \in 1..k : \E i \in 1..Len(list) : list[i].url = devices[j]

\* The loop after k devices, p wallets of the list being done with.
Loop(devices, k, p, old, new, m, arrived, dropped) ==
  /\ p \in 0..Len(wallets) /\ Len(old) = Len(wallets) - p
  /\ \A i \in 1..Len(old) : old[i] = wallets[p + i]
  /\ m \in Nat /\ m >= made
  /\ arrived \subseteq (made + 1)..m
  /\ dropped \subseteq First(p)
  /\ Ids(new) = (First(p) \ dropped) \cup arrived
  /\ OfDevices(new, devices, k) /\ Increasing(new)
  /\ AllThere(devices) =>
       /\ \A i \in 1..Len(old), j \in 1..k : old[i].url > devices[j]
       /\ Complete(new, devices, k)

\* The wallets dropped at the front of the list.
LEMMA DropKeeps ==
  ASSUME HubAssumption, ListOk, NEW devices, Scanned(devices),
         NEW k \in 0..(Len(devices) - 1), NEW p,
         NEW old \in Seq(Wallet), NEW new \in Seq(Wallet), NEW m, NEW arrived, NEW dropped,
         Loop(devices, k, p, old, new, m, arrived, dropped), NEW n \in 0..Len(old),
         (\A i \in 1..Len(old) : old[i].url >= devices[k + 1]) => n = 0
  PROVE  /\ Loop(devices, k, p + n, SubSeq(old, n + 1, Len(old)), new, m, arrived,
                 dropped \cup Ids(SubSeq(old, 1, n)))
         /\ AllThere(devices) => \A i \in 1..(Len(old) - n) : old[n + i].url >= devices[k + 1]
<1> DEFINE rest == SubSeq(old, n + 1, Len(old))
           gone == {old[i].id : i \in 1..n}
<1>1. /\ p \in 0..Len(wallets) /\ Len(old) = Len(wallets) - p
      /\ \A i \in 1..Len(old) : old[i] = wallets[p + i]
      /\ Len(wallets) \in Nat /\ Len(old) \in Nat /\ p \in Nat /\ n \in Nat
  BY DEF Loop, ListOk
<1>2. /\ rest \in Seq(Wallet) /\ Len(rest) = Len(old) - n
      /\ \A i \in 1..(Len(old) - n) : rest[i] = old[n + i]
      /\ Ids(SubSeq(old, 1, n)) = gone
  BY Parts, Zenon
<1> HIDE DEF rest, gone
<1> DEFINE LW == Len(wallets)
           LO == Len(old)
           LR == Len(rest)
<1>0. p \in 0..LW /\ LO = LW - p /\ LR = LO - n /\ LW \in Nat /\ LO \in Nat /\ n \in 0..LO
  BY <1>1, <1>2, Zenon
<1> HIDE DEF LW, LO, LR
<1>3. p + n \in 0..Len(wallets) /\ Len(rest) = Len(wallets) - (p + n)
  <2>1. p + n \in 0..LW /\ LR = LW - (p + n)
    BY <1>0
  <2> QED BY <2>1, Zenon DEF LW, LR
<1>4. \A i \in 1..Len(rest) : rest[i] = wallets[(p + n) + i]
  <2> TAKE i \in 1..Len(rest)
  <2>1. \A j \in 1..LR : j \in 1..(LO - n) /\ n + j \in 1..LO /\ p + (n + j) = (p + n) + j
    BY <1>0
  <2> QED BY <1>1, <1>2, <2>1, Zenon DEF LO, LR
<1>5. First(p + n) = First(p) \cup gone
  <2>1. \A i \in 1..(p + n) : i \in 1..p \/ (i - p \in 1..n /\ p + (i - p) = i /\ i - p \in 1..Len(old))
    BY <1>1
  <2>2. \A i \in 1..n : i \in 1..Len(old) /\ p + i \in 1..(p + n)
    BY <1>1
  <2>3. \A i \in 1..p : i \in 1..(p + n)
    BY <1>1
  <2>4. First(p + n) \subseteq First(p) \cup gone
    <3> SUFFICES ASSUME NEW x \in First(p + n) PROVE x \in First(p) \cup gone
      BY Zenon
    <3>1. PICK i \in 1..(p + n) : x = wallets[i].id
      BY Zenon DEF First
    <3>2. CASE i \in 1..p
      BY <3>1, <3>2, Zenon DEF First
    <3>3. CASE i - p \in 1..n /\ p + (i - p) = i /\ i - p \in 1..Len(old)
      <4>1. old[i - p] = wallets[i]
        BY <1>1, <3>3, Zenon
      <4> QED BY <3>1, <3>3, <4>1, Zenon DEF gone
    <3> QED BY <2>1, <3>2, <3>3, Zenon
  <2>5. gone \subseteq First(p + n)
    <3> SUFFICES ASSUME NEW x \in gone PROVE x \in First(p + n)
      BY Zenon
    <3>1. PICK i \in 1..n : x = old[i].id
      BY Zenon DEF gone
    <3> QED BY <1>1, <2>2, <3>1, Zenon DEF First
  <2>6. First(p) \subseteq First(p + n)
    BY <2>3, Zenon DEF First
  <2> QED BY <2>4, <2>5, <2>6, Zenon
<1>6. First(p) \cap gone = {}
  <2> SUFFICES ASSUME NEW x \in First(p), x \in gone PROVE FALSE
    BY Zenon
  <2>1. PICK i \in 1..p : x = wallets[i].id
    BY Zenon DEF First
  <2>2. PICK j \in 1..n : x = old[j].id
    BY Zenon DEF gone
  <2>3. /\ i \in 1..Len(wallets) /\ p + j \in 1..Len(wallets) /\ i < p + j /\ j \in 1..Len(old)
    BY <1>1
  <2>4. wallets[i].id # wallets[p + j].id /\ old[j] = wallets[p + j]
    BY <1>1, <2>3, Zenon DEF ListOk, Increasing
  <2> QED BY <2>1, <2>2, <2>4, Zenon
<1>7. arrived \cap gone = {}
  <2> SUFFICES ASSUME NEW x \in arrived, x \in gone PROVE FALSE
    BY Zenon
  <2>1. PICK j \in 1..n : x = old[j].id
    BY Zenon DEF gone
  <2>2. p + j \in 1..Len(wallets) /\ j \in 1..Len(old)
    BY <1>1
  <2>3. x \in 1..made
    BY <1>1, <2>1, <2>2, Zenon DEF ListOk
  <2>4. x \in (made + 1)..m /\ made \in Nat /\ m \in Nat
    BY Zenon DEF Loop, ListOk
  <2> QED BY <2>3, <2>4
<1>8. Ids(new) = (First(p + n) \ (dropped \cup gone)) \cup arrived
  <2>1. Ids(new) = (First(p) \ dropped) \cup arrived
    BY Zenon DEF Loop
  <2> QED BY <1>5, <1>6, <2>1
<1>9. dropped \cup gone \subseteq First(p + n)
  BY <1>5, Zenon DEF Loop
<1>10. ASSUME AllThere(devices)
       PROVE  /\ \A i \in 1..Len(rest), j \in 1..k : rest[i].url > devices[j]
              /\ \A i \in 1..(Len(old) - n) : old[n + i].url >= devices[k + 1]
  <2>1. \A i \in 1..Len(old), j \in 1..k : old[i].url > devices[j]
    BY <1>10, Zenon DEF Loop
  <2>2. \A i \in 1..Len(rest) : n + i \in 1..Len(old) /\ i \in 1..(Len(old) - n) /\ rest[i] = old[n + i]
    BY <1>1, <1>2
  <2>3. \A i \in 1..(Len(old) - n) : n + i \in 1..Len(old)
    <3>1. Len(old) \in Nat /\ n \in Nat
      BY <1>1, Zenon
    <3> QED BY <3>1
  <2>4. \A i \in 1..Len(old) : old[i].url >= devices[k + 1]
    <3> TAKE i \in 1..Len(old)
    <3>1. p + i \in 1..Len(wallets)
      BY <1>1
    <3>2. PICK j \in 1..Len(devices) : old[i].url = devices[j]
      BY <1>1, <1>10, <3>1, Zenon DEF AllThere
    <3>3. Len(devices) \in Nat /\ k + 1 \in 1..Len(devices)
      BY DEF Scanned
    <3>4. devices[j] \in Nat /\ devices[k + 1] \in Nat
      <4>1. devices \in Seq(Devices)
        BY Zenon DEF Scanned
      <4>2. devices[j] \in Devices /\ devices[k + 1] \in Devices
        BY <3>3, <4>1
      <4> QED BY <4>2, Zenon DEF HubAssumption
    <3>5. ~(j \in 1..k)
      <4> SUFFICES ASSUME j \in 1..k PROVE FALSE
        BY Zenon
      <4>1. devices[j] > devices[j]
        BY <2>1, <3>2, Zenon
      <4> QED BY <3>4, <4>1
    <3>6. j = k + 1 \/ k + 1 < j
      BY <3>3, <3>5
    <3>7. devices[j] = devices[k + 1] \/ devices[k + 1] < devices[j]
      BY <3>3, <3>6, Zenon DEF Scanned
    <3> QED BY <3>2, <3>4, <3>7
  <2> QED BY <2>1, <2>2, <2>3, <2>4, Zenon
<1>11. Loop(devices, k, p + n, rest, new, m, arrived, dropped \cup gone)
  BY <1>3, <1>4, <1>8, <1>9, <1>10, Zenon DEF Loop
<1> QED BY <1>2, <1>10, <1>11, Zenon DEF rest

\* A list with one wallet more.
LEMMA Added ==
  ASSUME NEW s \in Seq(Wallet), NEW w \in Wallet
  PROVE  /\ Append(s, w) \in Seq(Wallet) /\ Len(Append(s, w)) = Len(s) + 1 /\ Len(s) \in Nat
         /\ \A i \in 1..Len(s) : Append(s, w)[i] = s[i]
         /\ Append(s, w)[Len(s) + 1] = w
         /\ \A i \in 1..(Len(s) + 1) : i \in 1..Len(s) \/ i = Len(s) + 1
         /\ \A i \in 1..Len(s) : i \in 1..(Len(s) + 1) /\ i < Len(s) + 1
         /\ Len(s) + 1 \in 1..(Len(s) + 1)
         /\ Ids(Append(s, w)) = Ids(s) \cup {w.id}
<1>1. /\ Append(s, w) \in Seq(Wallet) /\ Len(Append(s, w)) = Len(s) + 1 /\ Len(s) \in Nat
  OBVIOUS
<1>2. /\ \A i \in 1..Len(s) : Append(s, w)[i] = s[i]
      /\ Append(s, w)[Len(s) + 1] = w
  OBVIOUS
<1>3. DOMAIN Append(s, w) = 1..(Len(s) + 1) /\ DOMAIN s = 1..Len(s)
  OBVIOUS
<1>4. /\ \A i \in 1..(Len(s) + 1) : i \in 1..Len(s) \/ i = Len(s) + 1
      /\ \A i \in 1..Len(s) : i \in 1..(Len(s) + 1) /\ i < Len(s) + 1
      /\ Len(s) + 1 \in 1..(Len(s) + 1)
  BY <1>1
<1>5. Ids(Append(s, w)) = Ids(s) \cup {w.id}
  <2>1. ASSUME NEW x \in Ids(Append(s, w)) PROVE x \in Ids(s) \cup {w.id}
    <3>1. PICK i \in 1..(Len(s) + 1) : x = Append(s, w)[i].id
      BY <1>3, Zenon DEF Ids
    <3> QED BY <1>2, <1>3, <1>4, <3>1, Zenon DEF Ids
  <2>2. ASSUME NEW x \in Ids(s) PROVE x \in Ids(Append(s, w))
    <3>1. PICK i \in 1..Len(s) : x = s[i].id
      BY <1>3, Zenon DEF Ids
    <3> QED BY <1>2, <1>3, <1>4, <3>1, Zenon DEF Ids
  <2>3. w.id \in Ids(Append(s, w))
    BY <1>2, <1>3, <1>4, Zenon DEF Ids
  <2> QED BY <2>1, <2>2, <2>3, Zenon
<1> QED BY <1>1, <1>2, <1>4, <1>5, Zenon

\* The numbers up to k + 1.
LEMMA OneMore ==
  ASSUME NEW k \in Nat
  PROVE  /\ \A j \in 1..(k + 1) : j \in 1..k \/ j = k + 1
         /\ \A j \in 1..k : j \in 1..(k + 1)
         /\ k + 1 \in 1..(k + 1)
OBVIOUS

\* The devices of a scan.
LEMMA ScannedIs ==
  ASSUME HubAssumption, NEW devices, Scanned(devices), NEW k \in 0..(Len(devices) - 1)
  PROVE  /\ k \in Nat /\ k + 1 \in 1..Len(devices) /\ devices[k + 1] \in Devices
         /\ Len(devices) \in Nat
         /\ \A i \in 1..Len(devices) : devices[i] \in Nat
         /\ \A j \in 1..k : j \in 1..Len(devices) /\ devices[j] < devices[k + 1]
<1>1. devices \in Seq(Devices)
  BY Zenon DEF Scanned
<1>2. Len(devices) \in Nat
  BY <1>1
<1>3. k \in Nat /\ k + 1 \in 1..Len(devices) /\ \A j \in 1..k : j \in 1..Len(devices) /\ j < k + 1
  BY <1>2
<1>4. \A i \in 1..Len(devices) : devices[i] \in Devices
  BY <1>1
<1> QED BY <1>2, <1>3, <1>4, Zenon DEF Scanned, HubAssumption

\* The list being made with a wallet of the next device at its end: w is new to it.
LEMMA Extended ==
  ASSUME HubAssumption, NEW devices, Scanned(devices), NEW k \in 0..(Len(devices) - 1),
         NEW new \in Seq(Wallet), NEW w \in Wallet, w.url = devices[k + 1], w.id \notin Ids(new),
         OfDevices(new, devices, k), Increasing(new)
  PROVE  /\ OfDevices(Append(new, w), devices, k + 1) /\ Increasing(Append(new, w))
         /\ Complete(new, devices, k) => Complete(Append(new, w), devices, k + 1)
<1> DEFINE list == Append(new, w)
           n == Len(new)
<1>1. /\ Len(list) = n + 1 /\ n \in Nat
      /\ \A i \in 1..n : list[i] = new[i]
      /\ list[n + 1] = w
      /\ \A i \in 1..(n + 1) : i \in 1..n \/ i = n + 1
      /\ \A i \in 1..n : i \in 1..(n + 1) /\ i < n + 1
      /\ n + 1 \in 1..(n + 1)
  BY Added
<1>2. DOMAIN new = 1..n
  OBVIOUS
<1> HIDE DEF list, n
<1>3. /\ \A j \in 1..(k + 1) : j \in 1..k \/ j = k + 1
      /\ \A j \in 1..k : j \in 1..(k + 1)
      /\ k + 1 \in 1..(k + 1)
  BY ScannedIs, OneMore, Zenon
<1>4. ASSUME NEW i \in 1..Len(list) PROVE \E j \in 1..(k + 1) : list[i].url = devices[j]
  <2>1. CASE i \in 1..n
    <3>1. PICK j \in 1..k : new[i].url = devices[j]
      BY <2>1, Zenon DEF n, OfDevices
    <3> QED BY <1>1, <1>3, <2>1, <3>1, Zenon
  <2>2. CASE i = n + 1
    BY <1>1, <1>3, <2>2, Zenon
  <2> QED BY <1>1, <1>4, <2>1, <2>2, Zenon
<1>5. ASSUME NEW i \in 1..Len(list), NEW j \in 1..Len(list), i < j
      PROVE  list[i].url < list[j].url /\ list[i].id # list[j].id
  <2>1. CASE i \in 1..n /\ j \in 1..n
    BY <1>1, <1>5, <2>1, Zenon DEF n, Increasing
  <2>2. CASE i \in 1..n /\ j = n + 1
    <3>1. PICK l \in 1..k : new[i].url = devices[l]
      BY <2>2, Zenon DEF n, OfDevices
    <3>2. new[i].url < w.url
      <4>1. devices[l] < devices[k + 1]
        BY ScannedIs, Zenon
      <4> QED BY <3>1, <4>1, Zenon
    <3>3. new[i].id # w.id
      BY <1>2, <2>2, Zenon DEF Ids
    <3> QED BY <1>1, <2>2, <3>2, <3>3, Zenon
  <2>3. i \in 1..(n + 1) /\ j \in 1..(n + 1)
    BY <1>1, <1>5, Zenon
  <2>4. ~(i = n + 1)
    BY <1>1, <1>5, <2>3
  <2> QED BY <1>1, <2>1, <2>2, <2>3, <2>4, Zenon
<1>6. ASSUME Complete(new, devices, k)
      PROVE  \A j \in 1..(k + 1) : \E i \in 1..Len(list) : list[i].url = devices[j]
  <2> TAKE j \in 1..(k + 1)
  <2>1. CASE j \in 1..k
    <3>1. PICK i \in 1..n : new[i].url = devices[j]
      BY <1>6, <2>1, Zenon DEF n, Complete
    <3> QED BY <1>1, <3>1, Zenon
  <2>2. CASE j = k + 1
    BY <1>1, <2>2, Zenon
  <2> QED BY <1>3, <2>1, <2>2, Zenon
<1>7. /\ OfDevices(list, devices, k + 1) /\ Increasing(list)
      /\ Complete(new, devices, k) => Complete(list, devices, k + 1)
  BY <1>4, <1>5, <1>6, Zenon DEF OfDevices, Increasing, Complete
<1> QED BY <1>7, Zenon DEF list

\* The identifiers of the list being made are of wallets that were made.
LEMMA MadeIds ==
  ASSUME ListOk, NEW devices, NEW k, NEW p, NEW old, NEW new, NEW m, NEW arrived, NEW dropped,
         Loop(devices, k, p, old, new, m, arrived, dropped)
  PROVE  /\ \A x \in Ids(new) : x \in 1..m
         /\ made \in Nat /\ m \in Nat /\ made <= m
<1>1. made \in Nat /\ m \in Nat /\ made <= m
  BY DEF Loop, ListOk
<1>2. /\ p \in 0..Len(wallets) /\ Len(wallets) \in Nat
      /\ arrived \subseteq (made + 1)..m
      /\ Ids(new) = (First(p) \ dropped) \cup arrived
  <2>1. wallets \in Seq(Wallet)
    BY Zenon DEF ListOk
  <2>2. Len(wallets) \in Nat
    BY <2>1
  <2> QED BY <2>2, Zenon DEF Loop
<1>3. ASSUME NEW x \in First(p) PROVE x \in 1..m
  <2>1. PICK i \in 1..p : x = wallets[i].id
    BY Zenon DEF First
  <2>2. i \in 1..Len(wallets)
    BY <1>2
  <2>3. x \in 1..made
    BY <2>1, <2>2, Zenon DEF ListOk
  <2> QED BY <1>1, <2>3
<1>4. ASSUME NEW x \in arrived PROVE x \in 1..m
  <2>1. x \in (made + 1)..m
    BY <1>2, Zenon
  <2> QED BY <1>1, <2>1
<1> QED BY <1>1, <1>2, <1>3, <1>4, Zenon

\* The device has no wallet: it gets one.
LEMMA WrapKeeps ==
  ASSUME HubAssumption, ListOk, NEW devices, Scanned(devices),
         NEW k \in 0..(Len(devices) - 1), NEW p,
         NEW old \in Seq(Wallet), NEW new \in Seq(Wallet), NEW m, NEW arrived, NEW dropped,
         Loop(devices, k, p, old, new, m, arrived, dropped),
         old = <<>> \/ old[1].url > devices[k + 1]
  PROVE  Loop(devices, k + 1, p, old, Append(new, [url |-> devices[k + 1], id |-> m + 1]), m + 1,
              arrived \cup {m + 1}, dropped)
<1> DEFINE w == [url |-> devices[k + 1], id |-> m + 1]
           list == Append(new, w)
<1>1. /\ \A x \in Ids(new) : x \in 1..m
      /\ made \in Nat /\ m \in Nat /\ made <= m
  BY MadeIds, Zenon
<1>2. m + 1 \in Nat /\ m + 1 >= made /\ ~(m + 1 \in 1..m) /\ m + 1 \in (made + 1)..(m + 1)
      /\ \A x \in (made + 1)..m : x \in (made + 1)..(m + 1)
  BY <1>1
<1>3. /\ k \in Nat /\ devices[k + 1] \in Devices /\ devices[k + 1] \in Nat
      /\ \A j \in 1..k : devices[j] \in Nat /\ devices[j] < devices[k + 1]
  BY ScannedIs, Zenon
<1>4. w \in Wallet /\ w.url = devices[k + 1] /\ w.id = m + 1
  BY <1>2, <1>3, Zenon DEF Wallet
<1>5. w.id \notin Ids(new)
  BY <1>1, <1>2, <1>4, Zenon
<1> HIDE DEF w
<1>6. Ids(list) = Ids(new) \cup {m + 1}
  <2>1. Ids(list) = Ids(new) \cup {w.id}
    BY <1>4, Added, Zenon
  <2> QED BY <1>4, <2>1, Zenon
<1> HIDE DEF list
<1>7. /\ p \in 0..Len(wallets) /\ Len(old) = Len(wallets) - p
      /\ \A i \in 1..Len(old) : old[i] = wallets[p + i]
      /\ arrived \subseteq (made + 1)..m
      /\ dropped \subseteq First(p)
      /\ Ids(new) = (First(p) \ dropped) \cup arrived
  BY Zenon DEF Loop
<1>8. arrived \cup {m + 1} \subseteq (made + 1)..(m + 1)
  BY <1>2, <1>7, Zenon
<1>9. Ids(list) = (First(p) \ dropped) \cup (arrived \cup {m + 1})
  BY <1>6, <1>7, Zenon
<1>10. /\ OfDevices(new, devices, k) /\ Increasing(new)
       /\ AllThere(devices) =>
            /\ \A i \in 1..Len(old), j \in 1..k : old[i].url > devices[j]
            /\ Complete(new, devices, k)
  BY Zenon DEF Loop
<1>11. /\ OfDevices(list, devices, k + 1) /\ Increasing(list)
       /\ Complete(new, devices, k) => Complete(list, devices, k + 1)
  BY <1>4, <1>5, <1>10, Extended, Zenon DEF list
<1>12. \A i \in 1..Len(old) : old[i].url > devices[k + 1]
  <2> TAKE i \in 1..Len(old)
  <2>1. Len(old) \in Nat /\ 1 \in 1..Len(old) /\ old # <<>> /\ old[1] \in Wallet /\ old[i] \in Wallet
    OBVIOUS
  <2>2. old[1].url > devices[k + 1] /\ old[1].url \in Nat /\ old[i].url \in Nat
    BY <2>1, Zenon DEF Wallet, HubAssumption
  <2>3. CASE i = 1
    BY <2>2, <2>3
  <2>4. CASE i # 1
    <3>1. wallets \in Seq(Wallet)
      BY Zenon DEF ListOk
    <3>2. Len(wallets) \in Nat
      BY <3>1
    <3>3. p + 1 \in 1..Len(wallets) /\ p + i \in 1..Len(wallets) /\ p + 1 < p + i
      <4>1. p \in 0..Len(wallets) /\ Len(old) = Len(wallets) - p
        BY <1>7, Zenon
      <4> QED BY <2>4, <3>2, <4>1
    <3>4. old[1].url < old[i].url
      BY <1>7, <2>1, <3>3, Zenon DEF ListOk, Increasing
    <3> QED BY <1>3, <2>2, <3>4
  <2> QED BY <2>3, <2>4, Zenon
<1>13. AllThere(devices) => \A i \in 1..Len(old), j \in 1..(k + 1) : old[i].url > devices[j]
  <2>1. \A j \in 1..(k + 1) : j \in 1..k \/ j = k + 1
    BY <1>3
  <2> QED BY <1>10, <1>12, <2>1, Zenon
<1>14. Loop(devices, k + 1, p, old, list, m + 1, arrived \cup {m + 1}, dropped)
  BY <1>2, <1>7, <1>8, <1>9, <1>10, <1>11, <1>13, Zenon DEF Loop
<1> QED BY <1>14, Zenon DEF list, w

\* The device is that of the first wallet left: it keeps it.
LEMMA KeepKeeps ==
  ASSUME HubAssumption, ListOk, NEW devices, Scanned(devices),
         NEW k \in 0..(Len(devices) - 1), NEW p,
         NEW old \in Seq(Wallet), NEW new \in Seq(Wallet), NEW m, NEW arrived, NEW dropped,
         Loop(devices, k, p, old, new, m, arrived, dropped),
         old # <<>>, old[1].url = devices[k + 1]
  PROVE  Loop(devices, k + 1, p + 1, Tail(old), Append(new, old[1]), m, arrived, dropped)
<1> DEFINE w == old[1]
           list == Append(new, w)
           rest == Tail(old)
<1>1. /\ Len(old) \in Nat /\ Len(old) # 0 /\ w \in Wallet
      /\ rest \in Seq(Wallet) /\ Len(rest) = Len(old) - 1
      /\ \A i \in 1..Len(rest) : rest[i] = old[i + 1]
  OBVIOUS
<1>2. /\ p \in 0..Len(wallets) /\ Len(old) = Len(wallets) - p
      /\ \A i \in 1..Len(old) : old[i] = wallets[p + i]
      /\ m \in Nat /\ m >= made
      /\ arrived \subseteq (made + 1)..m
      /\ dropped \subseteq First(p)
      /\ Ids(new) = (First(p) \ dropped) \cup arrived
  BY Zenon DEF Loop
<1>3. Len(wallets) \in Nat
  <2>1. wallets \in Seq(Wallet)
    BY Zenon DEF ListOk
  <2> QED BY <2>1
<1> HIDE DEF rest
<1> DEFINE LW == Len(wallets)
           LO == Len(old)
           LR == Len(rest)
<1>4. LW \in Nat /\ LO \in Nat /\ LO # 0 /\ p \in 0..LW /\ LO = LW - p /\ LR = LO - 1
  BY <1>1, <1>2, <1>3, Zenon
<1> HIDE DEF LW, LO, LR
<1>5. /\ p + 1 \in 0..LW /\ LR = LW - (p + 1) /\ 1 \in 1..LO /\ p + 1 \in 1..LW
      /\ \A i \in 1..LR : i + 1 \in 1..LO /\ p + (i + 1) = (p + 1) + i /\ 1 < i + 1
                          /\ p + 1 < p + (i + 1) /\ p + (i + 1) \in 1..LW
      /\ \A i \in 1..p : i \in 1..(p + 1) /\ i \in 1..LW /\ i < p + 1
      /\ \A i \in 1..(p + 1) : i \in 1..p \/ i = p + 1
      /\ p + 1 \in 1..(p + 1)
  BY <1>4
<1>6. w = wallets[p + 1] /\ \A i \in 1..LR : rest[i] = wallets[(p + 1) + i] /\ rest[i] = old[i + 1]
  BY <1>1, <1>2, <1>5, Zenon DEF LO, LR
<1>14. w.url = devices[k + 1] /\ w \in Wallet
  BY <1>1, Zenon
<1> HIDE DEF w
<1>7. First(p + 1) = First(p) \cup {w.id}
  <2>1. \A x : x \in First(p + 1) <=> \E i \in 1..(p + 1) : x = wallets[i].id
    BY Zenon DEF First
  <2>2. \A x : x \in First(p) <=> \E i \in 1..p : x = wallets[i].id
    BY Zenon DEF First
  <2>3. ASSUME NEW x \in First(p + 1) PROVE x \in First(p) \cup {w.id}
    <3>1. PICK i \in 1..(p + 1) : x = wallets[i].id
      BY <2>1, <2>3, Zenon
    <3>2. CASE i \in 1..p
      BY <2>2, <3>1, <3>2, Zenon
    <3>3. CASE i = p + 1
      BY <1>6, <3>1, <3>3, Zenon
    <3> QED BY <1>5, <3>2, <3>3, Zenon
  <2>4. ASSUME NEW x \in First(p) PROVE x \in First(p + 1)
    BY <1>5, <2>1, <2>2, <2>4, Zenon
  <2>5. w.id \in First(p + 1)
    BY <1>5, <1>6, <2>1, Zenon
  <2> QED BY <2>3, <2>4, <2>5, Zenon
<1>8. w.id \notin First(p)
  <2>1. \A i \in 1..p : wallets[i].id # wallets[p + 1].id
    BY <1>5, Zenon DEF ListOk, Increasing, LW
  <2> QED BY <1>6, <2>1, Zenon DEF First
<1>9. w.id \notin arrived
  <2>1. w.id \in 1..made /\ made \in Nat
    BY <1>5, <1>6, Zenon DEF ListOk, Increasing, LW
  <2>2. ~(w.id \in (made + 1)..m)
    BY <1>2, <2>1
  <2> QED BY <1>2, <2>2, Zenon
<1>10. w.id \notin Ids(new)
  BY <1>2, <1>8, <1>9, Zenon
<1>11. Ids(list) = Ids(new) \cup {w.id}
  BY <1>14, Added, Zenon
<1> HIDE DEF list
<1>12. Ids(list) = (First(p + 1) \ dropped) \cup arrived
  <2>1. w.id \notin dropped
    BY <1>2, <1>8, Zenon
  <2> QED BY <1>2, <1>7, <1>11, <2>1, Zenon
<1>13. /\ OfDevices(new, devices, k) /\ Increasing(new)
       /\ AllThere(devices) =>
            /\ \A i \in 1..Len(old), j \in 1..k : old[i].url > devices[j]
            /\ Complete(new, devices, k)
  BY Zenon DEF Loop
<1>15. /\ OfDevices(list, devices, k + 1) /\ Increasing(list)
       /\ Complete(new, devices, k) => Complete(list, devices, k + 1)
  BY <1>10, <1>13, <1>14, Extended, Zenon DEF list
<1>16. AllThere(devices) => \A i \in 1..LR, j \in 1..(k + 1) : rest[i].url > devices[j]
  <2>1. k \in Nat
    BY ScannedIs, Zenon
  <2>2. \A j \in 1..(k + 1) : j \in 1..k \/ j = k + 1
    BY <2>1
  <2>3. ASSUME NEW i \in 1..LR PROVE rest[i].url > devices[k + 1]
    <3>1. w.url < old[i + 1].url
      <4>1. wallets[p + 1].url < wallets[p + (i + 1)].url
        BY <1>5, <2>3, Zenon DEF ListOk, Increasing, LW
      <4>2. old[i + 1] = wallets[p + (i + 1)]
        BY <1>2, <1>5, <2>3, Zenon DEF LO
      <4> QED BY <1>6, <4>1, <4>2, Zenon
    <3>2. old[i + 1].url > w.url
      <4>1. old[i + 1] \in Wallet
        <5>1. i + 1 \in 1..Len(old)
          BY <1>5, <2>3, Zenon DEF LO
        <5> QED BY <5>1
      <4>2. old[i + 1].url \in Nat /\ w.url \in Nat
        BY <1>14, <4>1, Zenon DEF Wallet, HubAssumption
      <4> QED BY <3>1, <4>2
    <3> QED BY <1>6, <1>14, <2>3, <3>2, Zenon
  <2>4. ASSUME AllThere(devices), NEW i \in 1..LR, NEW j \in 1..k PROVE rest[i].url > devices[j]
    BY <1>5, <1>6, <1>13, <2>4, Zenon DEF LO
  <2> QED BY <2>2, <2>3, <2>4, Zenon
<1>17. p + 1 \in 0..Len(wallets) /\ Len(rest) = Len(wallets) - (p + 1)
       /\ \A i \in 1..Len(rest) : rest[i] = wallets[(p + 1) + i]
  BY <1>5, <1>6, Zenon DEF LW, LR
<1>18. dropped \subseteq First(p + 1)
  BY <1>2, <1>7, Zenon
<1>19. Loop(devices, k + 1, p + 1, rest, list, m, arrived, dropped)
  BY <1>2, <1>12, <1>13, <1>15, <1>16, <1>17, <1>18, Zenon DEF Loop, LR
<1> QED BY <1>19, Zenon DEF list, w, rest

\* The first wallet left lies before the device and has not failed: the device is
\* passed over, which does not happen when every wallet has its device.
LEMMA SkipKeeps ==
  ASSUME HubAssumption, NEW devices, Scanned(devices),
         NEW k \in 0..(Len(devices) - 1), NEW p,
         NEW old \in Seq(Wallet), NEW new, NEW m, NEW arrived, NEW dropped,
         Loop(devices, k, p, old, new, m, arrived, dropped),
         AllThere(devices) => \A i \in 1..Len(old) : old[i].url >= devices[k + 1],
         old # <<>>, old[1].url < devices[k + 1]
  PROVE  Loop(devices, k + 1, p, old, new, m, arrived, dropped)
<1>1. 1 \in 1..Len(old) /\ old[1] \in Wallet
  OBVIOUS
<1>2. old[1].url \in Nat /\ devices[k + 1] \in Nat /\ k \in Nat
  BY <1>1, ScannedIs, Zenon DEF Wallet, HubAssumption
<1>3. ~(old[1].url >= devices[k + 1])
  BY <1>2
<1>4. ~AllThere(devices)
  BY <1>1, <1>3, Zenon
<1>5. OfDevices(new, devices, k) => OfDevices(new, devices, k + 1)
  <2>1. \A j \in 1..k : j \in 1..(k + 1)
    BY <1>2
  <2> QED BY <2>1, Zenon DEF OfDevices
<1> QED BY <1>4, <1>5, Zenon DEF Loop

\* The same of the record that Merge takes.
LoopAt(acc, devices, k) ==
  \E p : Loop(devices, k, p, acc.old, acc.new, acc.made, acc.arrived, acc.dropped)

\* One turn of the loop.
LEMMA TurnKeeps ==
  ASSUME HubAssumption, ListOk, NEW devices, Scanned(devices),
         NEW k \in 0..(Len(devices) - 1), NEW acc \in Accs, LoopAt(acc, devices, k)
  PROVE  LoopAt(Merge(acc, devices[k + 1]), devices, k + 1)
<1> DEFINE url == devices[k + 1]
           res == Merge(acc, url)
<1>1. PICK p : Loop(devices, k, p, acc.old, acc.new, acc.made, acc.arrived, acc.dropped)
  BY Zenon DEF LoopAt
<1>2. url \in Devices
  BY ScannedIs, Zenon
<1>3. PICK n, rest, gone : Turn(acc, url, res, n, rest, gone)
  BY <1>2, MergeIs, Zenon
<1>4. acc.old \in Seq(Wallet) /\ acc.new \in Seq(Wallet)
  BY DEF Accs
<1> HIDE DEF res
<1>5. /\ n \in 0..Len(acc.old)
      /\ (\A i \in 1..Len(acc.old) : acc.old[i].url >= url) => n = 0
      /\ rest = SubSeq(acc.old, n + 1, Len(acc.old))
      /\ gone = acc.dropped \cup Ids(SubSeq(acc.old, 1, n))
  BY <1>3, Zenon DEF Turn
<1>6. /\ Loop(devices, k, p + n, rest, acc.new, acc.made, acc.arrived, gone)
      /\ AllThere(devices) => \A i \in 1..(Len(acc.old) - n) : acc.old[n + i].url >= url
  BY <1>1, <1>4, <1>5, DropKeeps, Zenon
<1>7. /\ rest \in Seq(Wallet) /\ Len(rest) = Len(acc.old) - n
      /\ \A i \in 1..(Len(acc.old) - n) : rest[i] = acc.old[n + i]
  BY <1>4, <1>5, Parts, Zenon
<1>8. AllThere(devices) => \A i \in 1..Len(rest) : rest[i].url >= url
  BY <1>6, <1>7, Zenon
<1>9. CASE /\ rest = <<>> \/ rest[1].url > url
           /\ res = [old |-> rest, new |-> Append(acc.new, [url |-> url, id |-> acc.made + 1]),
                     made |-> acc.made + 1, arrived |-> acc.arrived \cup {acc.made + 1}, dropped |-> gone]
  <2>1. Loop(devices, k + 1, p + n, rest, Append(acc.new, [url |-> url, id |-> acc.made + 1]),
             acc.made + 1, acc.arrived \cup {acc.made + 1}, gone)
    BY <1>4, <1>6, <1>7, <1>9, WrapKeeps, Zenon
  <2>2. /\ res.old = rest /\ res.new = Append(acc.new, [url |-> url, id |-> acc.made + 1])
        /\ res.made = acc.made + 1 /\ res.arrived = acc.arrived \cup {acc.made + 1} /\ res.dropped = gone
    BY <1>9, Zenon
  <2>3. LoopAt(res, devices, k + 1)
    BY <2>1, <2>2, Zenon DEF LoopAt
  <2> QED BY <2>3, Zenon DEF res
<1>10. CASE /\ rest # <<>> /\ rest[1].url = url
            /\ res = [old |-> Tail(rest), new |-> Append(acc.new, rest[1]), made |-> acc.made,
                      arrived |-> acc.arrived, dropped |-> gone]
  <2>1. Loop(devices, k + 1, (p + n) + 1, Tail(rest), Append(acc.new, rest[1]), acc.made, acc.arrived, gone)
    BY <1>4, <1>6, <1>7, <1>10, KeepKeeps, Zenon
  <2>2. /\ res.old = Tail(rest) /\ res.new = Append(acc.new, rest[1])
        /\ res.made = acc.made /\ res.arrived = acc.arrived /\ res.dropped = gone
    BY <1>10, Zenon
  <2>3. LoopAt(res, devices, k + 1)
    BY <2>1, <2>2, Zenon DEF LoopAt
  <2> QED BY <2>3, Zenon DEF res
<1>11. CASE /\ rest # <<>> /\ rest[1].url < url
            /\ res = [old |-> rest, new |-> acc.new, made |-> acc.made, arrived |-> acc.arrived,
                      dropped |-> gone]
  <2>1. Loop(devices, k + 1, p + n, rest, acc.new, acc.made, acc.arrived, gone)
    BY <1>6, <1>7, <1>8, <1>11, SkipKeeps, Zenon
  <2>2. /\ res.old = rest /\ res.new = acc.new
        /\ res.made = acc.made /\ res.arrived = acc.arrived /\ res.dropped = gone
    BY <1>11, Zenon
  <2>3. LoopAt(res, devices, k + 1)
    BY <2>1, <2>2, Zenon DEF LoopAt
  <2> QED BY <2>3, Zenon DEF res
<1> QED BY <1>3, <1>9, <1>10, <1>11, Zenon DEF Turn

\* A whole refresh: what comes of the list, the devices and the events.
LEMMA RefreshIs ==
  ASSUME HubAssumption, ListOk, NEW devices, Scanned(devices)
  PROVE  LET res == Merged(devices)
         IN /\ res \in Accs /\ LoopAt(res, devices, Len(devices))
<1>1. devices \in Seq(Devices)
  BY Zenon DEF Scanned
<1>2. Len(devices) \in Nat
  BY <1>1
<1>3. wallets \in Seq(Wallet) /\ made \in Nat
  BY Zenon DEF ListOk
<1>4. Start \in Accs
  BY <1>3 DEF Start, Accs
<1>5. PICK acc : /\ acc[0] = Start /\ Merged(devices) = acc[Len(devices)]
                 /\ \A i \in 0..Len(devices) : acc[i] \in Accs
                 /\ \A i \in 1..Len(devices) : acc[i] = Merge(acc[i - 1], devices[i])
  BY <1>1, <1>4, MergedIs, Zenon
<1> DEFINE S == {i \in 0..Len(devices) : LoopAt(acc[i], devices, i)}
<1>6. 0 \in S
  <2>1. First(0) = {}
    <3>1. 1..0 = {}
      OBVIOUS
    <3> QED BY <3>1, Zenon DEF First
  <2>2. Ids(<<>>) = {} /\ Len(<<>>) = 0
    BY DEF Ids
  <2>3. OfDevices(<<>>, devices, 0) /\ Increasing(<<>>) /\ Complete(<<>>, devices, 0)
    <3>1. 1..0 = {}
      OBVIOUS
    <3> QED BY <2>2, <3>1, Zenon DEF OfDevices, Increasing, Complete
  <2>4. /\ Len(wallets) \in Nat /\ 0 \in 0..Len(wallets) /\ Len(wallets) = Len(wallets) - 0
        /\ \A i \in 1..Len(wallets) : i = 0 + i
    BY <1>3
  <2>5. \A j \in 1..0 : FALSE
    OBVIOUS
  <2>6. made >= made
    BY <1>3
  <2>7. Loop(devices, 0, 0, wallets, <<>>, made, {}, {})
    BY <1>3, <2>1, <2>2, <2>3, <2>4, <2>5, <2>6, Zenon DEF Loop
  <2>8. /\ Start.old = wallets /\ Start.new = <<>> /\ Start.made = made
        /\ Start.arrived = {} /\ Start.dropped = {}
    BY Zenon DEF Start
  <2>9. LoopAt(acc[0], devices, 0)
    BY <1>5, <2>7, <2>8, Zenon DEF LoopAt
  <2>10. 0 \in 0..Len(devices)
    BY <1>2
  <2> QED BY <2>9, <2>10, Zenon
<1>7. ASSUME NEW i \in Nat, i < Len(devices), i \in S PROVE i + 1 \in S
  <2>1. /\ i \in 0..(Len(devices) - 1) /\ i + 1 \in 1..Len(devices) /\ (i + 1) - 1 = i
        /\ i + 1 \in 0..Len(devices) /\ i \in 0..Len(devices)
    BY <1>2, <1>7
  <2>2. acc[i + 1] = Merge(acc[i], devices[i + 1]) /\ acc[i] \in Accs
    BY <1>5, <2>1, Zenon
  <2>3. LoopAt(acc[i], devices, i)
    BY <1>7, Zenon
  <2>4. LoopAt(acc[i + 1], devices, i + 1)
    BY <2>1, <2>2, <2>3, TurnKeeps, Zenon
  <2> QED BY <2>1, <2>4, Zenon
<1> HIDE DEF S
<1>8. \A i \in 0..Len(devices) : i \in S
  BY <1>2, <1>6, <1>7, Induction, Zenon
<1>9. Len(devices) \in 0..Len(devices)
  BY <1>2
<1>10. LoopAt(acc[Len(devices)], devices, Len(devices)) /\ acc[Len(devices)] \in Accs
  BY <1>5, <1>8, <1>9, Zenon DEF S
<1> QED BY <1>5, <1>10, Zenon

\* The devices of a scan as a set.
Listing(devices) == {devices[i] : i \in DOMAIN devices}

\* What a refresh makes of the list and of what a subscriber knows.
LEMMA Outcome ==
  ASSUME HubAssumption, ListOk, NEW devices, Scanned(devices), NEW res, res = Merged(devices)
  PROVE  /\ res.new \in Seq(Wallet) /\ res.made \in Nat
         /\ \A i \in 1..Len(res.new) : res.new[i].id \in 1..res.made
         /\ Increasing(res.new)
         /\ (Ids(wallets) \ (res.dropped \cup Ids(res.old))) \cup res.arrived = Ids(res.new)
         /\ res.dropped \cup Ids(res.old) \subseteq Ids(wallets)
         /\ res.arrived \subseteq (made + 1)..res.made /\ res.made >= made
         /\ UrlsOf(res.new) \subseteq Listing(devices)
         /\ UrlsOf(wallets) \subseteq Listing(devices) => UrlsOf(res.new) = Listing(devices)
<1> DEFINE old == res.old
           new == res.new
           n == Len(devices)
<1>1. res \in Accs /\ LoopAt(res, devices, n)
  BY RefreshIs, Zenon
<1>2. old \in Seq(Wallet) /\ new \in Seq(Wallet) /\ res.made \in Nat
  BY <1>1 DEF Accs
<1>3. PICK p : Loop(devices, n, p, old, new, res.made, res.arrived, res.dropped)
  BY <1>1, Zenon DEF LoopAt
<1> HIDE DEF old, new
<1>4. \A x \in Ids(new) : x \in 1..res.made
  BY <1>3, MadeIds, Zenon
<1>5. /\ DOMAIN new = 1..Len(new) /\ DOMAIN old = 1..Len(old) /\ DOMAIN devices = 1..n
      /\ DOMAIN wallets = 1..Len(wallets) /\ Len(wallets) \in Nat
  <2>1. wallets \in Seq(Wallet) /\ devices \in Seq(Devices)
    BY Zenon DEF ListOk, Scanned
  <2> QED BY <1>2, <2>1
<1> HIDE DEF n
<1>6. \A i \in 1..Len(new) : new[i].id \in 1..res.made
  BY <1>4, <1>5, Zenon DEF Ids
<1>7. /\ p \in 0..Len(wallets) /\ Len(old) = Len(wallets) - p
      /\ \A i \in 1..Len(old) : old[i] = wallets[p + i]
      /\ res.arrived \subseteq (made + 1)..res.made /\ res.made >= made
      /\ res.dropped \subseteq First(p)
      /\ Ids(new) = (First(p) \ res.dropped) \cup res.arrived
      /\ OfDevices(new, devices, n) /\ Increasing(new)
      /\ AllThere(devices) => Complete(new, devices, n)
  BY <1>3, Zenon DEF Loop
<1>8. /\ (Ids(wallets) \ (res.dropped \cup Ids(old))) \cup res.arrived = Ids(new)
      /\ res.dropped \cup Ids(old) \subseteq Ids(wallets)
  <2>0. /\ \A i \in 1..Len(old) : p + i \in 1..Len(wallets)
        /\ \A i \in 1..Len(wallets) : i \in 1..p \/ (i - p \in 1..Len(old) /\ p + (i - p) = i)
        /\ \A i \in 1..p : i \in 1..Len(wallets) /\ \A j \in 1..Len(old) : i < p + j
    <3> DEFINE LO == Len(old)
               LW == Len(wallets)
    <3>1. p \in 0..LW /\ LO = LW - p /\ LW \in Nat
      BY <1>5, <1>7, Zenon
    <3> HIDE DEF LO, LW
    <3>2. /\ \A i \in 1..LO : p + i \in 1..LW
          /\ \A i \in 1..LW : i \in 1..p \/ (i - p \in 1..LO /\ p + (i - p) = i)
          /\ \A i \in 1..p : i \in 1..LW /\ \A j \in 1..LO : i < p + j
      BY <3>1
    <3> QED BY <3>2, Zenon DEF LO, LW
  <2>1. \A x : x \in Ids(wallets) <=> \E i \in 1..Len(wallets) : x = wallets[i].id
    BY <1>5, Zenon DEF Ids
  <2>2. \A x : x \in Ids(old) <=> \E i \in 1..Len(old) : x = old[i].id
    BY <1>5, Zenon DEF Ids
  <2>3. \A x : x \in First(p) <=> \E i \in 1..p : x = wallets[i].id
    BY Zenon DEF First
  <2>4. ASSUME NEW x \in Ids(wallets) PROVE x \in First(p) \cup Ids(old)
    <3>1. PICK i \in 1..Len(wallets) : x = wallets[i].id
      BY <2>1, <2>4, Zenon
    <3>2. CASE i \in 1..p
      BY <2>3, <3>1, <3>2, Zenon
    <3>3. CASE i - p \in 1..Len(old) /\ p + (i - p) = i
      <4>1. old[i - p] = wallets[i]
        BY <1>7, <3>3, Zenon
      <4> QED BY <2>2, <3>1, <3>3, <4>1, Zenon
    <3> QED BY <2>0, <3>2, <3>3, Zenon
  <2>5. First(p) \subseteq Ids(wallets)
    BY <2>0, <2>1, <2>3, Zenon
  <2>6. ASSUME NEW x \in First(p), x \in Ids(old) PROVE FALSE
    <3>1. PICK i \in 1..p : x = wallets[i].id
      BY <2>3, <2>6, Zenon
    <3>2. PICK j \in 1..Len(old) : x = old[j].id
      BY <2>2, <2>6, Zenon
    <3>3. wallets[i].id # wallets[p + j].id /\ old[j] = wallets[p + j]
      BY <1>7, <2>0, Zenon DEF ListOk, Increasing
    <3> QED BY <3>1, <3>2, <3>3, Zenon
  <2>7. Ids(wallets) \ (res.dropped \cup Ids(old)) = First(p) \ res.dropped
    BY <2>4, <2>5, <2>6, Zenon
  <2>8. Ids(old) \subseteq Ids(wallets)
    <3> SUFFICES ASSUME NEW x \in Ids(old) PROVE x \in Ids(wallets)
      OBVIOUS
    <3>1. PICK j \in 1..Len(old) : x = old[j].id
      BY <2>2, Zenon
    <3>2. p + j \in 1..Len(wallets) /\ x = wallets[p + j].id
      BY <1>7, <2>0, <3>1, Zenon
    <3> QED BY <2>1, <3>2, Zenon
  <2> QED BY <1>7, <2>5, <2>7, <2>8, Zenon
<1>9. UrlsOf(new) \subseteq Listing(devices)
  <2> SUFFICES ASSUME NEW i \in 1..Len(new) PROVE new[i].url \in Listing(devices)
    BY <1>5, Zenon DEF UrlsOf
  <2>1. PICK j \in 1..n : new[i].url = devices[j]
    BY <1>7, Zenon DEF OfDevices
  <2> QED BY <1>5, <2>1, Zenon DEF Listing
<1>10. ASSUME UrlsOf(wallets) \subseteq Listing(devices) PROVE Listing(devices) \subseteq UrlsOf(new)
  <2>1. AllThere(devices)
    <3> SUFFICES ASSUME NEW i \in 1..Len(wallets)
                 PROVE  \E j \in 1..Len(devices) : wallets[i].url = devices[j]
      BY Zenon DEF AllThere
    <3>1. wallets[i].url \in UrlsOf(wallets)
      BY <1>5, Zenon DEF UrlsOf
    <3> QED BY <1>5, <1>10, <3>1, Zenon DEF Listing, n
  <2>2. Complete(new, devices, n)
    BY <1>7, <2>1, Zenon
  <2> QED BY <1>5, <2>2, Zenon DEF Complete, UrlsOf, Listing
<1> QED BY <1>2, <1>6, <1>7, <1>8, <1>9, <1>10, Zenon DEF old, new

-----------------------------------------------------------------------------
(* The invariant: the list, the events sent and to be sent, the scans and  *)
(* the devices, the refreshes since the last change, and the updater.      *)

ScanState == [on : BOOLEAN, devices : Seq(Devices), current : BOOLEAN]
EventState == [arrived : SUBSET Nat, dropped : SUBSET Nat]
Known == heard \cup Arriving
EventInv ==
  /\ telling \in [HubUsers -> EventState]
  /\ Known \cup Dropping \subseteq 1..made
  /\ heard \cap Arriving = {}
  /\ \A r, q \in HubUsers : r # q => telling[r].arrived \cap telling[q].arrived = {}
  /\ Ids(wallets) \subseteq Known
  /\ Ids(wallets) \cap Dropping = {}
  /\ Known \ Ids(wallets) \subseteq Dropping \cup overtaken
ListInv == ListOk /\ EventInv
IdleInv == \A r \in HubUsers : scan[r].on => telling[r] = NoEvents
ScanInv ==
  /\ attached \in SUBSET Devices
  /\ scan \in [HubUsers -> ScanState]
  /\ \A r \in HubUsers : /\ Scanned(scan[r].devices)
                         /\ scan[r].on /\ scan[r].current => Listing(scan[r].devices) = attached
SettledInv ==
  /\ settled \in 0..2
  /\ settled # 0 => UrlsOf(wallets) \subseteq attached
  /\ settled = 2 => UrlsOf(wallets) = attached
UpdaterInv ==
  /\ updaters \in Seq({"sleep", "count"}) /\ subs \in Nat /\ updating \in BOOLEAN
  /\ updating => Len(updaters) = 1
  /\ ~updating => Len(updaters) = 0
  /\ subs > 0 => updating
HubInv == ListInv /\ IdleInv /\ ScanInv /\ SettledInv /\ UpdaterInv

\* What is being sent, event by event.
LEMMA UnderWay ==
  /\ \A x : x \in Arriving <=> \E r \in HubUsers : x \in telling[r].arrived
  /\ \A x : x \in Dropping <=> \E r \in HubUsers : x \in telling[r].dropped
BY Zenon DEF Arriving, Dropping

\* Likewise after a step.
LEMMA UnderWayNext ==
  /\ \A x : x \in Arriving' <=> \E r \in HubUsers : x \in telling'[r].arrived
  /\ \A x : x \in Dropping' <=> \E r \in HubUsers : x \in telling'[r].dropped
BY Zenon DEF Arriving, Dropping

\* The scan of a caller that has none under way.
LEMMA EmptyScan == Scanned(<<>>)
<1>1. 1..0 = {} /\ Len(<<>>) = 0 /\ <<>> \in Seq(Devices)
  OBVIOUS
<1> QED BY <1>1, Zenon DEF Scanned

\* A new hub.
LEMMA HubStarts == HubAssumption /\ HubInit => HubInv
<1> SUFFICES ASSUME HubAssumption, HubInit PROVE HubInv
  OBVIOUS
<1>0. 1..0 = {} /\ Len(<<>>) = 0
  OBVIOUS
<1>1. ListInv
  <2>1. ListOk
    <3>1. wallets \in Seq(Wallet) /\ made \in Nat
      BY DEF HubInit
    <3> QED BY <1>0, <3>1, Zenon DEF HubInit, ListOk, Increasing
  <2>2. Ids(<<>>) = {}
    BY DEF Ids
  <2>3. NoEvents \in EventState /\ NoEvents.arrived = {} /\ NoEvents.dropped = {}
    BY DEF NoEvents, EventState
  <2>4. telling \in [HubUsers -> EventState] /\ \A r \in HubUsers : telling[r] = NoEvents
    BY <2>3, Zenon DEF HubInit
  <2>5. Arriving = {} /\ Dropping = {}
    BY <2>3, <2>4, UnderWay, Zenon
  <2>6. heard = {} /\ wallets = <<>>
    BY Zenon DEF HubInit
  <2>7. EventInv
    BY <2>2, <2>3, <2>4, <2>5, <2>6, Zenon DEF EventInv, Known
  <2> QED BY <2>1, <2>7, Zenon DEF ListInv
<1>2. ScanInv
  <2>1. NoScan \in ScanState /\ NoScan.devices = <<>> /\ NoScan.on = FALSE
    BY DEF NoScan, ScanState
  <2>2. Scanned(<<>>)
    BY EmptyScan, Zenon
  <2>3. scan = [r \in HubUsers |-> NoScan] /\ attached \in SUBSET Devices
    BY Zenon DEF HubInit
  <2>4. scan \in [HubUsers -> ScanState] /\ \A r \in HubUsers : scan[r] = NoScan
    BY <2>1, <2>3, Zenon
  <2> QED BY <2>1, <2>2, <2>3, <2>4, Zenon DEF ScanInv
<1>5. IdleInv
  BY Zenon DEF HubInit, IdleInv
<1>3. SettledInv
  BY DEF HubInit, SettledInv
<1>4. UpdaterInv
  <2>1. updaters \in Seq({"sleep", "count"}) /\ Len(updaters) = 0 /\ subs \in Nat /\ ~(subs > 0)
    BY DEF HubInit
  <2>2. ~updating /\ updating \in BOOLEAN
    BY Zenon DEF HubInit
  <2> QED BY <2>1, <2>2, Zenon DEF UpdaterInv
<1> QED BY <1>1, <1>2, <1>3, <1>4, <1>5, Zenon DEF HubInv

\* A step that leaves the list and the events alone keeps what was known of them.
LEMMA ListStays == ListInv /\ UNCHANGED <<wallets, made, eventVars>> => ListInv'
<1> SUFFICES ASSUME ListInv, UNCHANGED <<wallets, made, eventVars>> PROVE ListInv'
  OBVIOUS
<1>1. UNCHANGED <<wallets, made, telling, heard, overtaken>>
  BY Zenon DEF eventVars
<1>2. Arriving' = Arriving /\ Dropping' = Dropping
  BY <1>1, Zenon DEF Arriving, Dropping
<1>3. Known' = Known
  BY <1>1, <1>2, Zenon DEF Known
<1>4. ListOk'
  BY <1>1, Zenon DEF ListInv, ListOk
<1>5. EventInv'
  BY <1>1, <1>2, <1>3, Zenon DEF ListInv, EventInv
<1> QED BY <1>4, <1>5, Zenon DEF ListInv

\* A refresh whose events are under way has no scan.
LEMMA IdleStays == IdleInv /\ UNCHANGED <<eventVars, scan>> => IdleInv'
BY Zenon DEF IdleInv, eventVars

\* Likewise for the count of refreshes.
LEMMA SettledStays == SettledInv /\ UNCHANGED <<wallets, attached, settled>> => SettledInv'
BY Zenon DEF SettledInv

\* Likewise for the updater.
LEMMA UpdaterStays == UpdaterInv /\ UNCHANGED <<updaters, subs, updating>> => UpdaterInv'
<1> SUFFICES ASSUME UpdaterInv, updaters' = updaters, subs' = subs, updating' = updating
             PROVE  UpdaterInv'
  OBVIOUS
<1>1. updating' <=> updating
  OBVIOUS
<1>2. updating \in BOOLEAN /\ updating' \in BOOLEAN
  BY Zenon DEF UpdaterInv
<1> QED BY <1>1, <1>2, Zenon DEF UpdaterInv

\* Likewise for the scans.
LEMMA ScanStays == ScanInv /\ UNCHANGED <<attached, scan>> => ScanInv'
BY Zenon DEF ScanInv

\* The enumeration of the devices that are attached.
LEMMA EnumerateKeeps ==
  ASSUME HubAssumption, HubInv, NEW r \in HubUsers, Enumerate(r)
  PROVE  ListInv' /\ IdleInv' /\ ScanInv' /\ SettledInv'
<1>1. /\ UNCHANGED <<attached, wallets, made, failed, eventVars, settled>>
      /\ telling[r] = NoEvents /\ telling' = telling
      /\ \E s \in InOrder(attached) :
           scan' = [scan EXCEPT ![r] = [on |-> TRUE, devices |-> s, current |-> TRUE]]
  BY Zenon DEF Enumerate, eventVars
<1>2. PICK s \in InOrder(attached) :
        scan' = [scan EXCEPT ![r] = [on |-> TRUE, devices |-> s, current |-> TRUE]]
  BY <1>1, Zenon
<1> DEFINE new == [on |-> TRUE, devices |-> s, current |-> TRUE]
<1>3. attached \in SUBSET Devices /\ scan \in [HubUsers -> ScanState]
  BY Zenon DEF HubInv, ScanInv
<1>4. /\ s \in [1..Cardinality(attached) -> attached]
      /\ {s[i] : i \in DOMAIN s} = attached /\ \A i, j \in DOMAIN s : i < j => s[i] < s[j]
  BY Zenon DEF InOrder
<1>5. s \in Seq(Devices) /\ DOMAIN s = 1..Len(s)
  <2>1. IsFiniteSet(attached)
    BY <1>3, FS_Subset, Zenon DEF HubAssumption
  <2>2. Cardinality(attached) \in Nat
    BY <2>1, FS_CardinalityType, Zenon
  <2> QED BY <1>3, <1>4, <2>2
<1>6. Scanned(s) /\ Listing(s) = attached
  BY <1>4, <1>5, Zenon DEF Scanned, Listing
<1>7. new \in ScanState /\ new.devices = s
  BY <1>5, Zenon DEF ScanState
<1> HIDE DEF new
<1>8. /\ scan' \in [HubUsers -> ScanState] /\ scan'[r] = new
      /\ \A q \in HubUsers : q # r => scan'[q] = scan[q]
  BY <1>2, <1>3, <1>7, Zenon DEF new
<1>9. ScanInv'
  <2>1. attached' \in SUBSET Devices
    BY <1>1, <1>3, Zenon
  <2>2. ASSUME NEW q \in HubUsers
        PROVE  /\ Scanned(scan'[q].devices)
               /\ scan'[q].on /\ scan'[q].current => Listing(scan'[q].devices) = attached
    <3>1. CASE q = r
      BY <1>6, <1>7, <1>8, <3>1, Zenon
    <3>2. CASE q # r
      BY <1>8, <3>2, Zenon DEF HubInv, ScanInv
    <3> QED BY <3>1, <3>2, Zenon
  <2> QED BY <1>1, <1>8, <2>1, <2>2, Zenon DEF ScanInv
<1>10. IdleInv'
  BY <1>1, <1>8, Zenon DEF HubInv, IdleInv
<1> QED BY <1>1, <1>9, <1>10, ListStays, SettledStays, Zenon DEF HubInv

\* The events of a merge: gone are the wallets it drops, fresh those it makes.
LEMMA MergeTells ==
  ASSUME ListInv, NEW r \in HubUsers, telling[r] = NoEvents, NEW fresh, NEW gone,
         ListOk', Ids(wallets') = (Ids(wallets) \ gone) \cup fresh,
         gone \subseteq Ids(wallets), fresh \subseteq (made + 1)..made', made' >= made,
         telling' = [telling EXCEPT ![r] = [arrived |-> fresh, dropped |-> gone]],
         UNCHANGED <<heard, overtaken>>
  PROVE  EventInv'
<1> DEFINE tell == [arrived |-> fresh, dropped |-> gone]
<1>1. made \in Nat /\ made' \in Nat
  BY Zenon DEF ListInv, ListOk
<1>2. /\ \A x \in fresh : x \notin 1..made
      /\ 1..made \subseteq 1..made' /\ fresh \subseteq 1..made'
      /\ fresh \subseteq Nat /\ 1..made \subseteq Nat
  BY <1>1
<1>3. /\ telling \in [HubUsers -> EventState] /\ Known \cup Dropping \subseteq 1..made
      /\ heard \cap Arriving = {}
      /\ \A p, q \in HubUsers : p # q => telling[p].arrived \cap telling[q].arrived = {}
      /\ Ids(wallets) \subseteq Known /\ Ids(wallets) \cap Dropping = {}
      /\ Known \ Ids(wallets) \subseteq Dropping \cup overtaken
  BY Zenon DEF ListInv, EventInv
<1>4. tell \in EventState /\ tell.arrived = fresh /\ tell.dropped = gone
  <2>1. gone \subseteq Nat
    BY <1>2, <1>3, Zenon
  <2> QED BY <1>2, <2>1, Zenon DEF EventState
<1> HIDE DEF tell
<1>5. /\ telling' \in [HubUsers -> EventState] /\ telling'[r] = tell
      /\ \A q \in HubUsers : q # r => telling'[q] = telling[q]
  BY <1>3, <1>4, Zenon DEF tell
<1>6. NoEvents.arrived = {} /\ NoEvents.dropped = {}
  BY DEF NoEvents
<1>7. \A x : x \in Arriving' <=> x \in Arriving \/ x \in fresh
  <2>1. ASSUME NEW x, x \in Arriving' PROVE x \in Arriving \/ x \in fresh
    <3>1. PICK q \in HubUsers : x \in telling'[q].arrived
      BY <2>1, UnderWayNext, Zenon
    <3>2. CASE q = r
      BY <1>4, <1>5, <3>1, <3>2, Zenon
    <3>3. CASE q # r
      BY <1>5, <3>1, <3>3, UnderWay, Zenon
    <3> QED BY <3>2, <3>3, Zenon
  <2>2. ASSUME NEW x, x \in Arriving PROVE x \in Arriving'
    <3>1. PICK q \in HubUsers : x \in telling[q].arrived
      BY <2>2, UnderWay, Zenon
    <3>2. q # r
      BY <1>6, <3>1, Zenon
    <3> QED BY <1>5, <3>1, <3>2, UnderWayNext, Zenon
  <2>3. ASSUME NEW x, x \in fresh PROVE x \in Arriving'
    BY <1>4, <1>5, <2>3, UnderWayNext, Zenon
  <2> QED BY <2>1, <2>2, <2>3, Zenon
<1>8. \A x : x \in Dropping' <=> x \in Dropping \/ x \in gone
  <2>1. ASSUME NEW x, x \in Dropping' PROVE x \in Dropping \/ x \in gone
    <3>1. PICK q \in HubUsers : x \in telling'[q].dropped
      BY <2>1, UnderWayNext, Zenon
    <3>2. CASE q = r
      BY <1>4, <1>5, <3>1, <3>2, Zenon
    <3>3. CASE q # r
      BY <1>5, <3>1, <3>3, UnderWay, Zenon
    <3> QED BY <3>2, <3>3, Zenon
  <2>2. ASSUME NEW x, x \in Dropping PROVE x \in Dropping'
    <3>1. PICK q \in HubUsers : x \in telling[q].dropped
      BY <2>2, UnderWay, Zenon
    <3>2. q # r
      BY <1>6, <3>1, Zenon
    <3> QED BY <1>5, <3>1, <3>2, UnderWayNext, Zenon
  <2>3. ASSUME NEW x, x \in gone PROVE x \in Dropping'
    BY <1>4, <1>5, <2>3, UnderWayNext, Zenon
  <2> QED BY <2>1, <2>2, <2>3, Zenon
<1>9. \A x : x \in Known' <=> x \in Known \/ x \in fresh
  BY <1>7, Zenon DEF Known
<1>10. Known' \cup Dropping' \subseteq 1..made'
  BY <1>2, <1>3, <1>8, <1>9, Zenon
<1>11. heard' \cap Arriving' = {}
  <2>1. ASSUME NEW x \in heard', x \in Arriving' PROVE FALSE
    <3>1. x \in heard /\ x \in Known
      BY <2>1, Zenon DEF Known
    <3> QED BY <1>2, <1>3, <1>7, <2>1, <3>1, Zenon
  <2> QED BY <2>1, Zenon
<1>12. ASSUME NEW p \in HubUsers, NEW q \in HubUsers, p # q
       PROVE  telling'[p].arrived \cap telling'[q].arrived = {}
  <2>1. ASSUME NEW u \in HubUsers, u # r PROVE telling'[u].arrived \cap fresh = {}
    <3>1. \A x \in telling'[u].arrived : x \in Known
      BY <1>5, <2>1, UnderWay, Zenon DEF Known
    <3> QED BY <1>2, <1>3, <3>1, Zenon
  <2>2. CASE p = r
    BY <1>4, <1>5, <1>12, <2>1, <2>2, Zenon
  <2>3. CASE q = r
    BY <1>4, <1>5, <1>12, <2>1, <2>3, Zenon
  <2>4. CASE p # r /\ q # r
    BY <1>3, <1>5, <1>12, <2>4, Zenon
  <2> QED BY <2>2, <2>3, <2>4, Zenon
<1>13. Ids(wallets') \subseteq Known'
  BY <1>3, <1>9, Zenon
<1>14. Ids(wallets') \cap Dropping' = {}
  <2>1. ASSUME NEW x \in Ids(wallets'), x \in Dropping' PROVE FALSE
    <3>1. CASE x \in fresh
      BY <1>2, <1>3, <1>8, <2>1, <3>1, Zenon
    <3>2. CASE x \in Ids(wallets) /\ x \notin gone
      BY <1>3, <1>8, <2>1, <3>2, Zenon
    <3> QED BY <2>1, <3>1, <3>2, Zenon
  <2> QED BY <2>1, Zenon
<1>15. Known' \ Ids(wallets') \subseteq Dropping' \cup overtaken'
  <2>1. ASSUME NEW x \in Known', x \notin Ids(wallets') PROVE x \in Dropping' \/ x \in overtaken
    <3>1. x \notin fresh /\ x \in Known
      BY <1>9, <2>1, Zenon
    <3>2. CASE x \in Ids(wallets)
      BY <1>8, <2>1, <3>1, <3>2, Zenon
    <3>3. CASE x \notin Ids(wallets)
      BY <1>3, <1>8, <3>1, <3>3, Zenon
    <3> QED BY <3>2, <3>3, Zenon
  <2> QED BY <2>1, Zenon
<1> QED BY <1>5, <1>10, <1>11, <1>12, <1>13, <1>14, <1>15, Zenon DEF EventInv

\* The merge of the devices into the list.
LEMMA RefreshKeeps ==
  ASSUME HubAssumption, HubInv, NEW r \in HubUsers, refreshWallets(r)
  PROVE  ListInv' /\ IdleInv' /\ ScanInv' /\ SettledInv'
<1> DEFINE devices == scan[r].devices
           res == Merged(devices)
<1>1. /\ scan[r].on /\ wallets' = res.new /\ made' = res.made
      /\ telling' = [telling EXCEPT ![r] = [arrived |-> res.arrived,
                                            dropped |-> res.dropped \cup Ids(res.old)]]
      /\ UNCHANGED <<heard, overtaken>>
      /\ settled' = IF ~scan[r].current THEN 0 ELSE IF settled < 2 THEN settled + 1 ELSE 2
      /\ scan' = [scan EXCEPT ![r] = NoScan]
      /\ attached' = attached
  BY Zenon DEF refreshWallets
<1>2. ListInv /\ ListOk /\ scan \in [HubUsers -> ScanState] /\ attached \in SUBSET Devices
  BY Zenon DEF HubInv, ListInv, ScanInv
<1>3. Scanned(devices) /\ (scan[r].current => Listing(devices) = attached)
  BY <1>1, Zenon DEF HubInv, ScanInv
<1>4. /\ res.new \in Seq(Wallet) /\ res.made \in Nat
      /\ \A i \in 1..Len(res.new) : res.new[i].id \in 1..res.made
      /\ Increasing(res.new)
      /\ (Ids(wallets) \ (res.dropped \cup Ids(res.old))) \cup res.arrived = Ids(res.new)
      /\ res.dropped \cup Ids(res.old) \subseteq Ids(wallets)
      /\ res.arrived \subseteq (made + 1)..res.made /\ res.made >= made
      /\ UrlsOf(res.new) \subseteq Listing(devices)
      /\ UrlsOf(wallets) \subseteq Listing(devices) => UrlsOf(res.new) = Listing(devices)
  BY <1>2, <1>3, Outcome, Zenon
<1> HIDE DEF res, devices
<1>5. ListInv'
  <2>1. ListOk'
    BY <1>1, <1>2, <1>4, Zenon DEF ListOk
  <2>2. telling[r] = NoEvents
    BY <1>1, Zenon DEF HubInv, IdleInv
  <2>3. EventInv'
    BY <1>1, <1>2, <1>4, <2>1, <2>2, MergeTells, Zenon
  <2> QED BY <2>1, <2>3, Zenon DEF ListInv
<1>6. ScanInv'
  <2>1. NoScan \in ScanState /\ NoScan.devices = <<>> /\ NoScan.on = FALSE
    BY DEF NoScan, ScanState
  <2>2. Scanned(<<>>)
    BY EmptyScan, Zenon
  <2>3. /\ scan' \in [HubUsers -> ScanState] /\ scan'[r] = NoScan
        /\ \A q \in HubUsers : q # r => scan'[q] = scan[q]
    BY <1>1, <1>2, <2>1, Zenon
  <2>4. ASSUME NEW q \in HubUsers
        PROVE  /\ Scanned(scan'[q].devices)
               /\ scan'[q].on /\ scan'[q].current => Listing(scan'[q].devices) = attached
    <3>1. CASE q = r
      BY <2>1, <2>2, <2>3, <3>1, Zenon
    <3>2. CASE q # r
      BY <2>3, <3>2, Zenon DEF HubInv, ScanInv
    <3> QED BY <3>1, <3>2, Zenon
  <2> QED BY <1>1, <1>2, <2>3, <2>4, Zenon DEF ScanInv
<1>7. SettledInv'
  <2>1. /\ settled \in 0..2 /\ (settled # 0 => UrlsOf(wallets) \subseteq attached)
    BY Zenon DEF HubInv, SettledInv
  <2>2. CASE ~scan[r].current
    <3>1. settled' = 0
      BY <1>1, <2>2, Zenon
    <3>2. settled' \in 0..2 /\ settled' # 2
      BY <3>1
    <3> QED BY <3>1, <3>2, Zenon DEF SettledInv
  <2>3. CASE scan[r].current
    <3>1. settled' = IF settled < 2 THEN settled + 1 ELSE 2
      BY <1>1, <2>3, Zenon
    <3>2. settled' \in 0..2 /\ (settled' = 2 => settled # 0)
      BY <2>1, <3>1
    <3>3. UrlsOf(wallets') \subseteq attached
      BY <1>1, <1>3, <1>4, <2>3, Zenon
    <3>4. settled # 0 => UrlsOf(wallets') = attached
      BY <1>1, <1>3, <1>4, <2>1, <2>3, Zenon
    <3> QED BY <1>1, <3>2, <3>3, <3>4, Zenon DEF SettledInv
  <2> QED BY <2>2, <2>3, Zenon
<1>8. IdleInv'
  <2>1. NoScan.on = FALSE
    BY DEF NoScan
  <2>2. telling \in [HubUsers -> EventState]
    BY <1>2, Zenon DEF ListInv, EventInv
  <2>3. /\ scan'[r] = NoScan
        /\ \A q \in HubUsers : q # r => scan'[q] = scan[q] /\ telling'[q] = telling[q]
    BY <1>1, <1>2, <2>2, Zenon
  <2> QED BY <2>1, <2>3, Zenon DEF HubInv, IdleInv
<1> QED BY <1>5, <1>6, <1>7, <1>8, Zenon

\* An event is sent: one arrival less is under way, or one drop.
LEMMA SendKeeps ==
  ASSUME HubInv, NEW r \in HubUsers, Send(r)
  PROVE  ListInv' /\ IdleInv'
<1>1. UNCHANGED <<wallets, made, scan>>
  BY Zenon DEF Send
<1>2. /\ ListOk /\ telling \in [HubUsers -> EventState] /\ Known \cup Dropping \subseteq 1..made
      /\ heard \cap Arriving = {}
      /\ \A p, q \in HubUsers : p # q => telling[p].arrived \cap telling[q].arrived = {}
      /\ Ids(wallets) \subseteq Known /\ Ids(wallets) \cap Dropping = {}
      /\ Known \ Ids(wallets) \subseteq Dropping \cup overtaken
  BY Zenon DEF HubInv, ListInv, EventInv
<1>3. ListOk'
  BY <1>1, <1>2, Zenon DEF ListOk
<1>4. telling[r] \in EventState /\ NoEvents.arrived = {} /\ NoEvents.dropped = {}
  BY <1>2, Zenon DEF NoEvents
<1>5. ASSUME SendArrived(r) PROVE EventInv' /\ IdleInv'
  <2>1. PICK id \in telling[r].arrived :
          /\ heard' = heard \cup {id} /\ overtaken' = overtaken
          /\ telling' = [telling EXCEPT ![r] = [arrived |-> telling[r].arrived \ {id},
                                                dropped |-> telling[r].dropped]]
    BY <1>5, Zenon DEF SendArrived
  <2> DEFINE tell == [arrived |-> telling[r].arrived \ {id}, dropped |-> telling[r].dropped]
  <2>2. /\ tell \in EventState /\ tell.arrived = telling[r].arrived \ {id}
        /\ tell.dropped = telling[r].dropped
    BY <1>4, Zenon DEF EventState
  <2> HIDE DEF tell
  <2>3. /\ telling' \in [HubUsers -> EventState] /\ telling'[r] = tell
        /\ \A q \in HubUsers : q # r => telling'[q] = telling[q]
    BY <1>2, <2>1, <2>2, Zenon DEF tell
  <2>4. \A q \in HubUsers : /\ telling'[q].arrived \subseteq telling[q].arrived
                            /\ telling'[q].dropped = telling[q].dropped
    BY <2>2, <2>3, Zenon
  <2>5. id \in Arriving /\ id \in Known
    BY UnderWay, Zenon DEF Known
  <2>6. \A x : x \in Arriving' <=> x \in Arriving /\ x # id
    <3>1. ASSUME NEW x, x \in Arriving' PROVE x \in Arriving /\ x # id
      <4>1. PICK q \in HubUsers : x \in telling'[q].arrived
        BY <3>1, UnderWayNext, Zenon
      <4>2. x \in Arriving
        BY <2>4, <4>1, UnderWay, Zenon
      <4>3. CASE q = r
        BY <2>2, <2>3, <4>1, <4>2, <4>3, Zenon
      <4>4. CASE q # r
        BY <1>2, <2>3, <4>1, <4>2, <4>4, Zenon
      <4> QED BY <4>3, <4>4, Zenon
    <3>2. ASSUME NEW x, x \in Arriving, x # id PROVE x \in Arriving'
      <4>1. PICK q \in HubUsers : x \in telling[q].arrived
        BY <3>2, UnderWay, Zenon
      <4>2. x \in telling'[q].arrived
        BY <2>2, <2>3, <3>2, <4>1, Zenon
      <4> QED BY <4>1, <4>2, UnderWayNext, Zenon
    <3> QED BY <3>1, <3>2, Zenon
  <2>7. \A x : x \in Dropping' <=> x \in Dropping
    BY <2>4, UnderWay, UnderWayNext, Zenon
  <2>8. \A x : x \in Known' <=> x \in Known
    <3>1. \A x : x \in Known' <=> x \in heard \/ x = id \/ x \in Arriving
      BY <2>1, <2>6, Zenon DEF Known
    <3> QED BY <2>5, <3>1, Zenon DEF Known
  <2>9. heard' \cap Arriving' = {}
    BY <1>2, <2>1, <2>6, Zenon
  <2>10. \A p, q \in HubUsers : p # q => telling'[p].arrived \cap telling'[q].arrived = {}
    BY <1>2, <2>4, Zenon
  <2>11. /\ Known' \cup Dropping' \subseteq 1..made'
         /\ Ids(wallets') \subseteq Known' /\ Ids(wallets') \cap Dropping' = {}
         /\ Known' \ Ids(wallets') \subseteq Dropping' \cup overtaken'
    BY <1>1, <1>2, <2>1, <2>7, <2>8, Zenon
  <2>12. IdleInv'
    <3>1. scan[r].on => FALSE
      BY <1>4, Zenon DEF HubInv, IdleInv
    <3> QED BY <1>1, <2>3, <3>1, Zenon DEF HubInv, IdleInv
  <2> QED BY <2>3, <2>9, <2>10, <2>11, <2>12, Zenon DEF EventInv
<1>6. ASSUME SendDropped(r) PROVE EventInv' /\ IdleInv'
  <2>1. PICK id \in telling[r].dropped :
          /\ heard' = heard \ {id} /\ overtaken' = overtaken \cup ({id} \cap Arriving)
          /\ telling' = [telling EXCEPT ![r] = [arrived |-> telling[r].arrived,
                                                dropped |-> telling[r].dropped \ {id}]]
    BY <1>6, Zenon DEF SendDropped
  <2> DEFINE tell == [arrived |-> telling[r].arrived, dropped |-> telling[r].dropped \ {id}]
  <2>2. /\ tell \in EventState /\ tell.arrived = telling[r].arrived
        /\ tell.dropped = telling[r].dropped \ {id}
    BY <1>4, Zenon DEF EventState
  <2> HIDE DEF tell
  <2>3. /\ telling' \in [HubUsers -> EventState] /\ telling'[r] = tell
        /\ \A q \in HubUsers : q # r => telling'[q] = telling[q]
    BY <1>2, <2>1, <2>2, Zenon DEF tell
  <2>4. \A q \in HubUsers : /\ telling'[q].dropped \subseteq telling[q].dropped
                            /\ telling'[q].arrived = telling[q].arrived
                            /\ \A x \in telling[q].dropped : x # id => x \in telling'[q].dropped
    BY <2>2, <2>3, Zenon
  <2>5. id \in Dropping
    BY UnderWay, Zenon
  <2>6. \A x : x \in Arriving' <=> x \in Arriving
    BY <2>4, UnderWay, UnderWayNext, Zenon
  <2>7. /\ \A x : x \in Dropping' => x \in Dropping
        /\ \A x : x \in Dropping /\ x # id => x \in Dropping'
    BY <2>4, UnderWay, UnderWayNext, Zenon
  <2>8. \A x : x \in Known' <=> (x \in heard /\ x # id) \/ x \in Arriving
    BY <2>1, <2>6, Zenon DEF Known
  <2>9. \A x : x \in Known' => x \in Known
    BY <2>8, Zenon DEF Known
  <2>10. heard' \cap Arriving' = {}
    BY <1>2, <2>1, <2>6, Zenon
  <2>11. \A p, q \in HubUsers : p # q => telling'[p].arrived \cap telling'[q].arrived = {}
    BY <1>2, <2>4, Zenon
  <2>12. Known' \cup Dropping' \subseteq 1..made' /\ Ids(wallets') \cap Dropping' = {}
    BY <1>1, <1>2, <2>7, <2>9, Zenon
  <2>13. Ids(wallets') \subseteq Known'
    <3>1. ASSUME NEW x \in Ids(wallets) PROVE x \in Known'
      <4>1. x # id /\ x \in Known
        BY <1>2, <2>5, <3>1, Zenon
      <4> QED BY <2>8, <4>1, Zenon DEF Known
    <3> QED BY <1>1, <3>1, Zenon
  <2>14. Known' \ Ids(wallets') \subseteq Dropping' \cup overtaken'
    <3>1. ASSUME NEW x \in Known', x \notin Ids(wallets) PROVE x \in Dropping' \/ x \in overtaken'
      <4>1. CASE x = id
        BY <2>1, <2>8, <3>1, <4>1, Zenon
      <4>2. CASE x # id
        BY <1>2, <2>1, <2>7, <2>9, <3>1, <4>2, Zenon
      <4> QED BY <4>1, <4>2, Zenon
    <3> QED BY <1>1, <3>1, Zenon
  <2>15. IdleInv'
    <3>1. scan[r].on => FALSE
      BY <1>4, Zenon DEF HubInv, IdleInv
    <3> QED BY <1>1, <2>3, <3>1, Zenon DEF HubInv, IdleInv
  <2> QED BY <2>3, <2>10, <2>11, <2>12, <2>13, <2>14, <2>15, Zenon DEF EventInv
<1> QED BY <1>3, <1>5, <1>6, Zenon DEF Send, ListInv

\* Subscribe starts an updater if there is none.
LEMMA SubscribeKeeps == UpdaterInv /\ Subscribe => UpdaterInv'
<1> SUFFICES ASSUME UpdaterInv, Subscribe PROVE UpdaterInv'
  OBVIOUS
<1>1. updaters \in Seq({"sleep", "count"}) /\ subs \in Nat /\ updating \in BOOLEAN
  BY Zenon DEF UpdaterInv
<1>2. subs' \in Nat /\ updating' = TRUE
  BY <1>1 DEF Subscribe
<1>3. CASE updating
  <2>1. updaters' = updaters /\ Len(updaters) = 1
    BY <1>3, Zenon DEF Subscribe, UpdaterInv
  <2> QED BY <1>1, <1>2, <2>1, Zenon DEF UpdaterInv
<1>4. CASE ~updating
  <2>1. updaters' = Append(updaters, "sleep") /\ Len(updaters) = 0
    BY <1>4, Zenon DEF Subscribe, UpdaterInv
  <2>2. updaters' \in Seq({"sleep", "count"}) /\ Len(updaters') = 1
    BY <1>1, <2>1
  <2> QED BY <1>2, <2>2, Zenon DEF UpdaterInv
<1> QED BY <1>3, <1>4, Zenon

\* The updater runs on when a subscriber leaves.
LEMMA UnsubscribeKeeps == UpdaterInv /\ Unsubscribe => UpdaterInv'
<1> SUFFICES ASSUME UpdaterInv, Unsubscribe PROVE UpdaterInv'
  OBVIOUS
<1>1. subs \in Nat /\ subs > 0 /\ subs' = subs - 1 /\ updaters' = updaters /\ updating' = updating
  BY Zenon DEF UpdaterInv, Unsubscribe
<1>2. subs' \in Nat
  BY <1>1
<1> QED BY <1>1, <1>2, Zenon DEF UpdaterInv

\* The updater goes on to count, or back to sleep.
LEMMA MarkKeeps ==
  ASSUME UpdaterInv, NEW i \in DOMAIN updaters, NEW x \in {"sleep", "count"},
         updaters' = [updaters EXCEPT ![i] = x], UNCHANGED <<subs, updating>>
  PROVE  UpdaterInv'
<1>1. updaters \in Seq({"sleep", "count"})
  BY Zenon DEF UpdaterInv
<1>2. updaters' \in Seq({"sleep", "count"}) /\ Len(updaters') = Len(updaters)
  BY <1>1
<1> QED BY <1>2, Zenon DEF UpdaterInv

\* The updater ends when nobody listens.
LEMMA CountKeeps == UpdaterInv /\ UpdaterCount => UpdaterInv'
<1> SUFFICES ASSUME UpdaterInv, UpdaterCount PROVE UpdaterInv'
  OBVIOUS
<1>1. PICK i \in DOMAIN updaters :
        /\ IF subs = 0
           THEN /\ updating' = FALSE
                /\ updaters' = SubSeq(updaters, 1, i - 1) \o SubSeq(updaters, i + 1, Len(updaters))
           ELSE updaters' = [updaters EXCEPT ![i] = "sleep"] /\ UNCHANGED updating
        /\ subs' = subs
  BY Zenon DEF UpdaterCount
<1>2. /\ updaters \in Seq({"sleep", "count"}) /\ subs \in Nat
      /\ (updating => Len(updaters) = 1) /\ (~updating => Len(updaters) = 0)
  BY Zenon DEF UpdaterInv
<1>3. CASE subs = 0
  <2>1. /\ updating' = FALSE
        /\ updaters' = SubSeq(updaters, 1, i - 1) \o SubSeq(updaters, i + 1, Len(updaters))
    BY <1>1, <1>3, Zenon
  <2>2. Len(updaters) = 1 \/ Len(updaters) = 0
    BY <1>2, Zenon
  <2>3. i = 1 /\ Len(updaters) = 1
    BY <1>2, <2>2
  <2>4. SubSeq(updaters, 1, i - 1) = <<>> /\ SubSeq(updaters, i + 1, Len(updaters)) = <<>>
    BY <1>2, <2>3
  <2>5. updaters' \in Seq({"sleep", "count"}) /\ Len(updaters') = 0
    <3>1. <<>> \o <<>> = <<>> /\ <<>> \in Seq({"sleep", "count"}) /\ Len(<<>>) = 0
      OBVIOUS
    <3> QED BY <2>1, <2>4, <3>1, Zenon
  <2>6. ~(subs' > 0) /\ subs' \in Nat
    BY <1>1, <1>3
  <2> QED BY <2>1, <2>5, <2>6, Zenon DEF UpdaterInv
<1>4. CASE subs # 0
  <2>1. updaters' = [updaters EXCEPT ![i] = "sleep"] /\ UNCHANGED <<subs, updating>>
    BY <1>1, <1>4, Zenon
  <2> QED BY <2>1, MarkKeeps, Zenon
<1> QED BY <1>3, <1>4, Zenon

\* A device comes or goes: no scan is current any more.
LEMMA PlugKeeps ==
  ASSUME HubInv, NEW d \in Devices, Plug(d)
  PROVE  IdleInv' /\ ScanInv' /\ SettledInv'
<1>1. /\ attached' = IF d \in attached THEN attached \ {d} ELSE attached \cup {d}
      /\ settled' = 0
  BY Zenon DEF Plug
<1>2. attached \in SUBSET Devices /\ scan \in [HubUsers -> ScanState]
  BY Zenon DEF HubInv, ScanInv
<1>3. attached' \in SUBSET Devices
  BY <1>1, <1>2
<1>4. ASSUME NEW r \in HubUsers
      PROVE  /\ scan'[r] \in ScanState /\ scan'[r].devices = scan[r].devices
             /\ scan'[r].current = FALSE /\ (scan'[r].on => scan[r].on)
  <2>1. scan[r] \in ScanState /\ scan'[r] = [scan[r] EXCEPT !.current = FALSE]
    BY <1>2, Zenon DEF Plug
  <2> QED BY <2>1, Zenon DEF ScanState
<1>5. ScanInv'
  <2>1. scan' \in [HubUsers -> ScanState]
    BY <1>4, Zenon DEF Plug
  <2>2. \A r \in HubUsers : Scanned(scan'[r].devices) /\ ~scan'[r].current
    BY <1>4, Zenon DEF HubInv, ScanInv
  <2> QED BY <1>3, <2>1, <2>2, Zenon DEF ScanInv
<1>6. SettledInv'
  <2>1. settled' \in 0..2 /\ settled' # 2
    BY <1>1
  <2> QED BY <1>1, <2>1, Zenon DEF SettledInv
<1>7. IdleInv'
  BY <1>4, Zenon DEF HubInv, IdleInv, Plug, eventVars
<1> QED BY <1>5, <1>6, <1>7, Zenon

\* Every step of the hub keeps the invariant.
LEMMA HubSteps == HubAssumption /\ HubInv /\ [HubNext]_hubVars => HubInv'
<1> SUFFICES ASSUME HubAssumption, HubInv, [HubNext]_hubVars PROVE HubInv'
  OBVIOUS
<1>1. ListInv /\ IdleInv /\ ScanInv /\ SettledInv /\ UpdaterInv
  BY Zenon DEF HubInv
<1>2. ASSUME NEW c \in HubCallers, Wallets(c) PROVE HubInv'
  <2>1. c \in HubUsers
    BY Zenon DEF HubUsers
  <2>2. UNCHANGED <<updaters, subs, updating>>
    BY <1>2, Zenon DEF Wallets, Enumerate, refreshWallets
  <2>3. UpdaterInv'
    BY <1>1, <2>2, UpdaterStays, Zenon
  <2>4. ListInv' /\ IdleInv' /\ ScanInv' /\ SettledInv'
    BY <1>2, <2>1, EnumerateKeeps, RefreshKeeps, Zenon DEF Wallets
  <2> QED BY <2>3, <2>4, Zenon DEF HubInv
<1>3. ASSUME Subscribe PROVE HubInv'
  <2>1. UNCHANGED <<attached, wallets, made, eventVars, scan, settled>>
    BY <1>3, Zenon DEF Subscribe
  <2> QED BY <1>1, <1>3, <2>1, ListStays, IdleStays, ScanStays, SettledStays, SubscribeKeeps, Zenon DEF HubInv
<1>4. ASSUME Unsubscribe PROVE HubInv'
  <2>1. UNCHANGED <<attached, wallets, made, eventVars, scan, settled>>
    BY <1>4, Zenon DEF Unsubscribe
  <2> QED BY <1>1, <1>4, <2>1, ListStays, IdleStays, ScanStays, SettledStays, UnsubscribeKeeps, Zenon DEF HubInv
<1>5. ASSUME UpdaterRefresh PROVE HubInv'
  <2>1. Updater \in HubUsers
    BY Zenon DEF HubUsers
  <2>2. PICK i \in DOMAIN updaters :
          \/ Enumerate(Updater) /\ UNCHANGED updaters
          \/ refreshWallets(Updater) /\ updaters' = [updaters EXCEPT ![i] = "count"]
          \/ /\ updaters' = [updaters EXCEPT ![i] = "count"]
             /\ UNCHANGED <<attached, wallets, made, eventVars, updating, subs, scan, settled>>
    BY <1>5, Zenon DEF UpdaterRefresh
  <2>3. UNCHANGED <<subs, updating>>
    BY <2>2, Zenon DEF Enumerate, refreshWallets
  <2>4. UpdaterInv'
    <3>1. "count" \in {"sleep", "count"}
      OBVIOUS
    <3>2. CASE UNCHANGED updaters
      BY <1>1, <2>3, <3>2, UpdaterStays, Zenon
    <3>3. CASE updaters' = [updaters EXCEPT ![i] = "count"]
      BY <1>1, <2>3, <3>1, <3>3, MarkKeeps, Zenon
    <3> QED BY <2>2, <3>2, <3>3, Zenon
  <2>5. ListInv' /\ IdleInv' /\ ScanInv' /\ SettledInv'
    BY <1>1, <2>1, <2>2, EnumerateKeeps, RefreshKeeps, ListStays, IdleStays, ScanStays,
       SettledStays, Zenon
  <2> QED BY <2>4, <2>5, Zenon DEF HubInv
<1>6. ASSUME UpdaterCount PROVE HubInv'
  <2>1. UNCHANGED <<attached, wallets, made, eventVars, scan, settled>>
    BY <1>6, Zenon DEF UpdaterCount
  <2> QED BY <1>1, <1>6, <2>1, ListStays, IdleStays, ScanStays, SettledStays, CountKeeps, Zenon DEF HubInv
<1>7. ASSUME NEW d \in Devices, Plug(d) PROVE HubInv'
  <2>1. UNCHANGED <<wallets, made, eventVars, updaters, subs, updating>>
    BY <1>7, Zenon DEF Plug
  <2> QED BY <1>1, <1>7, <2>1, ListStays, UpdaterStays, PlugKeeps, Zenon DEF HubInv
<1>8. ASSUME NEW i \in DOMAIN wallets, Fail(i) PROVE HubInv'
  <2>1. UNCHANGED <<attached, wallets, made, eventVars, scan, settled, updaters, subs, updating>>
    BY <1>8, Zenon DEF Fail
  <2> QED BY <1>1, <2>1, ListStays, IdleStays, ScanStays, SettledStays, UpdaterStays, Zenon DEF HubInv
<1>10. ASSUME NEW r \in HubUsers, Send(r) PROVE HubInv'
  <2>1. UNCHANGED <<attached, wallets, scan, settled, updaters, subs, updating>>
    BY <1>10, Zenon DEF Send
  <2> QED BY <1>1, <1>10, <2>1, SendKeeps, ScanStays, SettledStays, UpdaterStays, Zenon DEF HubInv
<1>9. CASE UNCHANGED hubVars
  <2>1. UNCHANGED <<attached, wallets, made, eventVars, scan, settled, updaters, subs, updating>>
    BY <1>9, Zenon DEF hubVars, eventVars
  <2> QED BY <1>1, <2>1, ListStays, IdleStays, ScanStays, SettledStays, UpdaterStays, Zenon DEF HubInv
<1> QED BY <1>2, <1>3, <1>4, <1>5, <1>6, <1>7, <1>8, <1>9, <1>10, Zenon DEF HubNext

\* Whatever devices come and go and however the calls of Wallets, Subscribe and
\* the updater interleave, also while events are being sent, the events tell the
\* list unless a drop overtook an arrival, two refreshes from current scans repair
\* it, and one updater runs exactly while updating is set.
THEOREM HubIsExact ==
  ASSUME HubAssumption
  PROVE  HubSpec => [](HubEventsExact /\ SecondRefreshRepairs /\ OneUpdater)
<1>1. HubInv => HubEventsExact
  <2> SUFFICES ASSUME HubInv PROVE HubEventsExact
    OBVIOUS
  <2>1. wallets \in Seq(Wallet) /\ Increasing(wallets)
    BY Zenon DEF HubInv, ListInv, ListOk
  <2>2. DOMAIN wallets = 1..Len(wallets)
    BY <2>1
  <2>3. \A i \in Ids(wallets) : (i \in heard <=> i \notin Arriving) /\ i \notin Dropping
    BY Zenon DEF HubInv, ListInv, EventInv, Known
  <2>4. heard \ Ids(wallets) \subseteq Dropping \cup overtaken
    BY Zenon DEF HubInv, ListInv, EventInv, Known
  <2> QED BY <2>1, <2>2, <2>3, <2>4, Zenon DEF HubEventsExact, Increasing
<1>2. HubInv => SecondRefreshRepairs
  BY Zenon DEF HubInv, SettledInv, SecondRefreshRepairs
<1>3. HubInv => OneUpdater
  <2> SUFFICES ASSUME HubInv PROVE OneUpdater
    OBVIOUS
  <2>1. CASE updating
    BY <2>1, Zenon DEF HubInv, UpdaterInv, OneUpdater
  <2>2. CASE ~updating
    BY <2>2, Zenon DEF HubInv, UpdaterInv, OneUpdater
  <2> QED BY <2>1, <2>2, Zenon
<1>4. HubInit => HubInv
  BY HubStarts, Zenon
<1>5. HubInv /\ [HubNext]_hubVars => HubInv'
  BY HubSteps, Zenon
<1> QED BY <1>1, <1>2, <1>3, <1>4, <1>5, PTL DEF HubSpec
=============================================================================
