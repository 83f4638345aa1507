---------------------------- MODULE NodeSystemProofs ----------------------------
(***************************************************************************)
(* Proofs about what an apply leaves on a node, for every set of             *)
(* configurations and any number of calls, failures, crashes and edits.      *)
(***************************************************************************)
EXTENDS NodeSystem, DataLemmas, SequenceTheorems

\* The lines outside of p .. q are the administrator's; p and q are the markers.
Frame(text, p, q) ==
    /\ p \in DOMAIN text /\ q \in DOMAIN text /\ p < q
    /\ text[p] = Start /\ text[q] = End
    /\ \A i \in DOMAIN text : i < p \/ q < i => text[i] \in UserLines

\* One managed block, or none; the line between its markers may have been removed.
Shaped(text) ==
    \/ text \in Seq(UserLines)
    \/ \E p, q \in DOMAIN text : Frame(text, p, q) /\ (q = p + 1 \/ (q = p + 2 /\ text[p + 1] \in Blocks))

Holds(text, block) ==
    \E p \in DOMAIN text : Frame(text, p, p + 2) /\ text[p + 1] = block

\* The commands after the hosts file, and after the kernel values, were done.
HostsDone == pc \in {"sysctl", "install sysctl", "load", "resolv", "install resolv", "config"} \/ Succeeded
SysctlDone == pc \in {"resolv", "install resolv", "config"} \/ Succeeded

HostsInv ==
    "hosts" \notin damaged =>
        /\ Shaped(hosts)
        /\ HostsDone => Holds(hosts, cfg.block)

\* A call that goes on from sysctl -p knows that the kernel has all of its keys,
\* so that a boot, which loads the file again, gives the same values.
SysctlInv ==
    /\ pc \in {"install sysctl", "load"} => ~NoValues
    /\ pc = "load" => sysctl = cfg.sysctl
    /\ SysctlDone =>
          /\ sysctl = IF NoValues THEN Absent ELSE cfg.sysctl
          /\ DOMAIN cfg.sysctl \subseteq KernelKeys
          /\ \A k \in DOMAIN cfg.sysctl : kernel[k] = cfg.sysctl[k]

\* What ResolvInPlace says of the file that config.yaml names.
Usable(conf) ==
    /\ conf \notin {Absent, Torn}
    /\ Len(conf.servers) \in 1 .. MaxNameservers
    /\ Range(conf.servers) \cap Loopback = {}

\* A call that writes the file, or is past it, has nameservers to write.
DnsInv ==
    /\ pc = "install resolv" => cfg.dns
    /\ pc \in {"install resolv", "config"} /\ cfg.dns => WantedResolv.servers # <<>>
    /\ pc = "config" => (cfg.dns => resolv = WantedResolv)
    /\ Succeeded => named = cfg.dns /\ (cfg.dns => resolv = WantedResolv)
    /\ named /\ "resolv" \notin damaged => Usable(resolv)

Inv == TypeOK /\ HostsInv /\ SysctlInv /\ DnsInv

-----------------------------------------------------------------------------
(* Selected: the entries of a sequence that are in a set *)

\* f[n] are the selected ones of the first n entries, up to last.
Selects(f, s, S, last) ==
    /\ f[0] = <<>>
    /\ \A n \in 1 .. last : f[n] = IF s[n] \in S THEN Append(f[n - 1], s[n]) ELSE f[n - 1]

\* Such a function can be extended by one entry.
LEMMA SelectsNext ==
    ASSUME NEW T, NEW S, NEW s \in Seq(T), NEW n \in Nat, n + 1 <= Len(s),
           NEW f \in [0 .. n -> Seq(T \cap S)], Selects(f, s, S, n)
    PROVE  \E g \in [0 .. n + 1 -> Seq(T \cap S)] : Selects(g, s, S, n + 1)
<1> DEFINE next == IF s[n + 1] \in S THEN Append(f[n], s[n + 1]) ELSE f[n]
           g == [m \in 0 .. n + 1 |-> IF m = n + 1 THEN next ELSE f[m]]
<1>1. next \in Seq(T \cap S)
    <2>1. f[n] \in Seq(T \cap S) /\ s[n + 1] \in T
        OBVIOUS
    <2> QED
        BY <2>1
<1>2. g \in [0 .. n + 1 -> Seq(T \cap S)]
    <2> HIDE DEF next
    <2> QED
        BY <1>1
<1>3. g[0] = <<>>
    BY DEF Selects
<1>4. g[n + 1] = next /\ \A m \in 0 .. n : g[m] = f[m]
    OBVIOUS
<1>5. ASSUME NEW m \in 1 .. n + 1
      PROVE  g[m] = IF s[m] \in S THEN Append(g[m - 1], s[m]) ELSE g[m - 1]
    <2> HIDE DEF g
    <2>1. m - 1 \in 0 .. n /\ g[m - 1] = f[m - 1]
        BY <1>4
    <2>2. CASE m = n + 1
        BY <1>4, <2>1, <2>2
    <2>3. CASE m \in 1 .. n
        <3>1. f[m] = IF s[m] \in S THEN Append(f[m - 1], s[m]) ELSE f[m - 1]
            BY <2>3 DEF Selects
        <3>2. g[m] = f[m]
            BY <1>4, <2>3
        <3> QED
            BY <2>1, <3>1, <3>2
    <2> QED
        BY <2>2, <2>3
<1> HIDE DEF g
<1>6. Selects(g, s, S, n + 1)
    BY <1>3, <1>5 DEF Selects
<1> QED
    BY <1>2, <1>6

LEMMA SelectsExists ==
    ASSUME NEW T, NEW S, NEW s \in Seq(T)
    PROVE  \E f \in [0 .. Len(s) -> Seq(T \cap S)] : Selects(f, s, S, Len(s))
<1> DEFINE Good(n) == n <= Len(s) => \E f \in [0 .. n -> Seq(T \cap S)] : Selects(f, s, S, n)
           C == {n \in Nat : Good(n)}
<1>1. Good(0)
    <2> DEFINE f == [n \in 0 .. 0 |-> <<>>]
    <2>1. f \in [0 .. 0 -> Seq(T \cap S)] /\ Selects(f, s, S, 0)
        BY DEF Selects
    <2> QED
        BY <2>1
<1>2. ASSUME NEW n \in Nat, Good(n)
      PROVE  Good(n + 1)
    BY <1>2, SelectsNext
<1>3. Nat \subseteq C
    <2> HIDE DEF Good
    <2>1. 0 \in C /\ \A n \in Nat : n \in C => n + 1 \in C
        BY <1>1, <1>2
    <2> HIDE DEF C
    <2> QED
        BY <2>1, NatSetInduction
<1>4. Good(Len(s))
    <2> HIDE DEF Good
    <2> QED
        BY <1>3
<1> QED
    BY <1>4

\* All such functions are equal.
LEMMA SelectsUnique ==
    ASSUME NEW s, NEW S, NEW last \in Nat, NEW f, NEW g, Selects(f, s, S, last), Selects(g, s, S, last)
    PROVE  \A n \in 0 .. last : f[n] = g[n]
<1> DEFINE C == {n \in Nat : n <= last => f[n] = g[n]}
<1>1. 0 \in C
    BY DEF Selects
<1>2. ASSUME NEW n \in Nat, n \in C
      PROVE  n + 1 \in C
    <2> SUFFICES ASSUME n + 1 <= last
                 PROVE  f[n + 1] = g[n + 1]
        OBVIOUS
    <2>1. f[n] = g[n] /\ n + 1 \in 1 .. last /\ (n + 1) - 1 = n
        BY <1>2
    <2> QED
        BY <2>1 DEF Selects
<1>3. Nat \subseteq C
    <2> HIDE DEF C
    <2> QED
        BY <1>1, <1>2, NatSetInduction
<1> QED
    BY <1>3

\* Any function that selects is the one Selected is defined by.
LEMMA SelectedIs ==
    ASSUME NEW T, NEW S, NEW s \in Seq(T), NEW g, Selects(g, s, S, Len(s))
    PROVE  Selected(s, S) = g[Len(s)] /\ Selected(s, S) \in Seq(T \cap S)
<1> DEFINE Body(h) == [n \in 0 .. Len(s) |->
              IF n = 0 THEN <<>>
              ELSE IF s[n] \in S THEN Append(h[n - 1], s[n]) ELSE h[n - 1]]
           upTo == CHOOSE h : h = Body(h)
<1>1. PICK f \in [0 .. Len(s) -> Seq(T \cap S)] : Selects(f, s, S, Len(s))
    BY SelectsExists
<1>2. f = Body(f)
    <2>1. ASSUME NEW n \in 0 .. Len(s)
          PROVE  f[n] = Body(f)[n]
        <3>1. CASE n = 0
            BY <1>1, <3>1 DEF Selects
        <3>2. CASE n \in 1 .. Len(s)
            <4>1. f[n] = IF s[n] \in S THEN Append(f[n - 1], s[n]) ELSE f[n - 1]
                BY <1>1, <3>2 DEF Selects
            <4> QED
                BY <3>2, <4>1
        <3> QED
            BY <3>1, <3>2
    <2>2. f = [n \in 0 .. Len(s) |-> f[n]] /\ Body(f) = [n \in 0 .. Len(s) |-> Body(f)[n]]
        OBVIOUS
    <2> HIDE DEF Body
    <2> QED
        BY <2>1, <2>2
<1>3. upTo = Body(upTo)
    <2> HIDE DEF Body
    <2> QED
        BY <1>2
<1>4. Selected(s, S) = upTo[Len(s)]
    BY DEF Selected
<1>5. Selects(upTo, s, S, Len(s))
    <2> HIDE DEF upTo
    <2>1. \A n \in 0 .. Len(s) : upTo[n] = Body(upTo)[n]
        <3> HIDE DEF Body
        <3> QED
            BY <1>3
    <2> QED
        BY <2>1 DEF Selects
<1> HIDE DEF upTo
<1>6. upTo[Len(s)] = f[Len(s)] /\ upTo[Len(s)] = g[Len(s)]
    BY <1>1, <1>5, SelectsUnique
<1> QED
    BY <1>1, <1>4, <1>6

LEMMA SelectedType ==
    ASSUME NEW T, NEW S, NEW s \in Seq(T)
    PROVE  Selected(s, S) \in Seq(T \cap S)
BY SelectsExists, SelectedIs

LEMMA SelectedAll ==
    ASSUME NEW S, NEW s \in Seq(S)
    PROVE  Selected(s, S) = s
<1> DEFINE g == [n \in 0 .. Len(s) |-> SubSeq(s, 1, n)]
<1>1. g[0] = <<>>
    OBVIOUS
<1>2. ASSUME NEW n \in 1 .. Len(s)
      PROVE  s[n] \in S /\ g[n] = Append(g[n - 1], s[n])
    <2>1. SubSeq(s, 1, n) = Append(SubSeq(s, 1, n - 1), s[n])
        OBVIOUS
    <2> QED
        BY <2>1
<1>3. g[Len(s)] = s
    OBVIOUS
<1> HIDE DEF g
<1>4. Selects(g, s, S, Len(s))
    BY <1>1, <1>2 DEF Selects
<1> QED
    BY <1>3, <1>4, SelectedIs

LEMMA SelectedNone ==
    ASSUME NEW T, NEW S, NEW s \in Seq(T), T \cap S = {}
    PROVE  Selected(s, S) = <<>>
<1> DEFINE g == [n \in 0 .. Len(s) |-> <<>>]
<1>1. \A n \in 1 .. Len(s) : s[n] \notin S
    OBVIOUS
<1>2. Selects(g, s, S, Len(s))
    BY <1>1 DEF Selects
<1>3. g[Len(s)] = <<>>
    OBVIOUS
<1> HIDE DEF g
<1> QED
    BY <1>2, <1>3, SelectedIs

LEMMA ConcatAppend ==
    ASSUME NEW R, NEW a \in Seq(R), NEW b \in Seq(R), NEW e \in R
    PROVE  a \o Append(b, e) = Append(a \o b, e)
OBVIOUS

LEMMA SelectedConcat ==
    ASSUME NEW T, NEW S, NEW s \in Seq(T), NEW t \in Seq(T)
    PROVE  Selected(s \o t, S) = Selected(s, S) \o Selected(t, S)
<1>1. PICK f \in [0 .. Len(s) -> Seq(T \cap S)] : Selects(f, s, S, Len(s))
    BY SelectsExists
<1>2. PICK g \in [0 .. Len(t) -> Seq(T \cap S)] : Selects(g, t, S, Len(t))
    BY SelectsExists
<1> DEFINE last == Len(s) + Len(t)
           h == [n \in 0 .. last |-> IF n <= Len(s) THEN f[n] ELSE f[Len(s)] \o g[n - Len(s)]]
<1>3. /\ s \o t \in Seq(T) /\ Len(s \o t) = last
      /\ \A n \in 1 .. Len(s) : (s \o t)[n] = s[n]
      /\ \A n \in 1 .. Len(t) : (s \o t)[Len(s) + n] = t[n]
    OBVIOUS
<1>4. \A n \in 0 .. Len(s) : h[n] = f[n]
    OBVIOUS
<1>5. ASSUME NEW n \in 0 .. Len(t)
      PROVE  h[Len(s) + n] = f[Len(s)] \o g[n]
    <2>1. CASE n = 0
        <3>0. h[Len(s) + 0] = f[Len(s)]
            BY <1>4
        <3>1. f[Len(s)] \in Seq(T \cap S) /\ g[0] = <<>>
            BY <1>1, <1>2 DEF Selects
        <3>2. f[Len(s)] \o <<>> = f[Len(s)]
            BY <3>1
        <3>3. h[Len(s) + 0] = f[Len(s)] \o g[0]
            BY <3>0, <3>1, <3>2, Zenon
        <3> HIDE DEF last
        <3> QED
            BY <2>1, <3>3, Zenon
    <2>2. CASE n \in 1 .. Len(t)
        <3>1. Len(s) + n \in 0 .. last /\ ~(Len(s) + n <= Len(s)) /\ (Len(s) + n) - Len(s) = n
            BY <2>2
        <3> QED
            BY <3>1
    <2>3. n = 0 \/ n \in 1 .. Len(t)
        OBVIOUS
    <2> HIDE DEF h
    <2> QED
        BY <2>1, <2>2, <2>3, Zenon
<1> HIDE DEF h
<1>6. ASSUME NEW n \in 1 .. Len(s)
      PROVE  h[n] = IF (s \o t)[n] \in S THEN Append(h[n - 1], (s \o t)[n]) ELSE h[n - 1]
    <2>1. f[n] = IF s[n] \in S THEN Append(f[n - 1], s[n]) ELSE f[n - 1]
        BY <1>1 DEF Selects
    <2>2. h[n] = f[n] /\ h[n - 1] = f[n - 1] /\ (s \o t)[n] = s[n]
        BY <1>3, <1>4
    <2> QED
        BY <2>1, <2>2
<1>7. ASSUME NEW n \in 1 .. Len(t)
      PROVE  h[Len(s) + n] = IF (s \o t)[Len(s) + n] \in S
                             THEN Append(h[Len(s) + n - 1], (s \o t)[Len(s) + n])
                             ELSE h[Len(s) + n - 1]
    <2>1. g[n] = IF t[n] \in S THEN Append(g[n - 1], t[n]) ELSE g[n - 1]
        BY <1>2 DEF Selects
    <2>2. h[Len(s) + n] = f[Len(s)] \o g[n] /\ h[Len(s) + (n - 1)] = f[Len(s)] \o g[n - 1]
        <3>1. n \in 0 .. Len(t) /\ n - 1 \in 0 .. Len(t)
            OBVIOUS
        <3> QED
            BY <1>5, <3>1
    <2>3. Len(s) + (n - 1) = Len(s) + n - 1 /\ (s \o t)[Len(s) + n] = t[n]
        BY <1>3
    <2>4. CASE t[n] \in S
        <3>1. f[Len(s)] \in Seq(T \cap S)
            BY <1>1
        <3>2. g[n - 1] \in Seq(T \cap S)
            <4>1. n - 1 \in 0 .. Len(t)
                OBVIOUS
            <4> QED
                BY <1>2, <4>1
        <3>3. t[n] \in T \cap S
            BY <2>4
        <3>4. f[Len(s)] \o Append(g[n - 1], t[n]) = Append(f[Len(s)] \o g[n - 1], t[n])
            <4>1. \A a, b \in Seq(T \cap S) : \A e \in T \cap S : a \o Append(b, e) = Append(a \o b, e)
                BY ConcatAppend
            <4> QED
                BY <3>1, <3>2, <3>3, <4>1, Zenon
        <3> QED
            BY <2>1, <2>2, <2>3, <2>4, <3>4
    <2>5. CASE t[n] \notin S
        BY <2>1, <2>2, <2>3, <2>5
    <2> QED
        BY <2>4, <2>5
<1>8. ASSUME NEW n \in 1 .. last
      PROVE  h[n] = IF (s \o t)[n] \in S THEN Append(h[n - 1], (s \o t)[n]) ELSE h[n - 1]
    <2>1. CASE n <= Len(s)
        BY <1>6, <2>1
    <2>2. CASE n > Len(s)
        <3>1. n - Len(s) \in 1 .. Len(t) /\ Len(s) + (n - Len(s)) = n
            BY <2>2
        <3>2. h[Len(s) + (n - Len(s))] = IF (s \o t)[Len(s) + (n - Len(s))] \in S
                                          THEN Append(h[Len(s) + (n - Len(s)) - 1], (s \o t)[Len(s) + (n - Len(s))])
                                          ELSE h[Len(s) + (n - Len(s)) - 1]
            BY <1>7, <3>1
        <3> QED
            BY <3>1, <3>2
    <2> QED
        BY <2>1, <2>2
<1>9. h[0] = <<>>
    BY <1>1, <1>4 DEF Selects
<1>10. Selects(h, s \o t, S, Len(s \o t))
    BY <1>3, <1>8, <1>9 DEF Selects
<1>11. Selected(s \o t, S) = h[last]
    <2>1. s \o t \in Seq(T)
        BY <1>3
    <2>2. Selected(s \o t, S) = h[Len(s \o t)]
        BY <1>10, <2>1, SelectedIs, Zenon
    <2> QED
        BY <1>3, <2>2
<1>12. Selected(s, S) = f[Len(s)] /\ Selected(t, S) = g[Len(t)]
    BY <1>1, <1>2, SelectedIs
<1>13. h[last] = f[Len(s)] \o g[Len(t)]
    <2>1. Len(t) \in 0 .. Len(t)
        OBVIOUS
    <2> QED
        BY <1>5, <2>1
<1> QED
    BY <1>11, <1>12, <1>13

-----------------------------------------------------------------------------
(* /etc/hosts *)

\* The first place of a line of the text.
LEMMA FirstPlace ==
    ASSUME NEW S, NEW text \in Seq(S), NEW line, NEW i \in DOMAIN text, text[i] = line
    PROVE  /\ First(text, line) \in DOMAIN text /\ text[First(text, line)] = line
           /\ \A j \in DOMAIN text : text[j] = line => First(text, line) <= j
<1> DEFINE I == {j \in 1 .. Len(text) : text[j] = line}
<1>1. I \in SUBSET Nat /\ i \in I /\ \A j \in DOMAIN text : text[j] = line => j \in I
    OBVIOUS
<1>2. First(text, line) = Min(I)
    BY <1>1 DEF First, SelectInSeq
<1>3. \A j \in I : j \in DOMAIN text /\ text[j] = line
    OBVIOUS
<1> HIDE DEF I
<1>4. Min(I) \in I /\ \A j \in I : Min(I) <= j
    BY <1>1, MinIsLeast
<1> QED
    BY <1>1, <1>2, <1>3, <1>4

LEMMA ContainsPlace ==
    ASSUME NEW S, NEW text \in Seq(S), NEW line
    PROVE  Contains(text, line) <=> \E i \in DOMAIN text : text[i] = line
BY DEF Contains

LEMMA LinesDiffer ==
    ASSUME NEW block \in Blocks
    PROVE  /\ Start \in Line /\ End \in Line /\ block \in Line
           /\ Start \notin UserLines /\ End \notin UserLines /\ block \notin UserLines
           /\ Start # End /\ block # Start /\ block # End
BY ConstantAssumption DEF Line, Start, End

\* The parts of a text before and after given lines.
LEMMA Parts ==
    ASSUME NEW S, NEW text \in Seq(S), NEW p \in 1 .. Len(text), NEW q \in 1 .. Len(text)
    PROVE  /\ SubSeq(text, 1, p - 1) \in Seq(S) /\ Len(SubSeq(text, 1, p - 1)) = p - 1
           /\ \A i \in 1 .. p - 1 : SubSeq(text, 1, p - 1)[i] = text[i]
           /\ SubSeq(text, q + 1, Len(text)) \in Seq(S)
           /\ Len(SubSeq(text, q + 1, Len(text))) = Len(text) - q
           /\ \A i \in 1 .. Len(text) - q : SubSeq(text, q + 1, Len(text))[i] = text[q + i]
OBVIOUS

LEMMA Joined ==
    ASSUME NEW S, NEW u \in Seq(S), NEW v \in Seq(S), NEW a \in S, NEW b \in S, NEW c \in S
    PROVE  LET text == u \o <<a, b, c>> \o v
           IN  /\ text \in Seq(S) /\ Len(text) = Len(u) + 3 + Len(v)
               /\ \A i \in 1 .. Len(u) : text[i] = u[i]
               /\ text[Len(u) + 1] = a /\ text[Len(u) + 2] = b /\ text[Len(u) + 3] = c
               /\ \A i \in 1 .. Len(v) : text[Len(u) + 3 + i] = v[i]
OBVIOUS

LEMMA WithBlockType ==
    ASSUME NEW text \in Seq(Line), NEW block \in Blocks
    PROVE  WithBlock(text, block) \in Seq(Line)
<1>1. Managed(block) \in Seq(Line)
    BY LinesDiffer DEF Managed
<1>2. CASE Contains(text, Start) /\ Contains(text, End)
    <2> DEFINE p == First(text, Start)
               q == First(text, End)
    <2>1. p \in DOMAIN text /\ q \in DOMAIN text
        BY <1>2, ContainsPlace, FirstPlace
    <2> HIDE DEF p, q
    <2>2. SubSeq(text, 1, p - 1) \in Seq(Line) /\ SubSeq(text, q + 1, Len(text)) \in Seq(Line)
        BY <2>1, Parts
    <2>3. WithBlock(text, block) = SubSeq(text, 1, p - 1) \o Managed(block) \o SubSeq(text, q + 1, Len(text))
        BY <1>2 DEF WithBlock, p, q
    <2> QED
        BY <1>1, <2>2, <2>3
<1>3. CASE ~(Contains(text, Start) /\ Contains(text, End))
    BY <1>1, <1>3 DEF WithBlock
<1> QED
    BY <1>2, <1>3

\* A text is put together again from its parts.
LEMMA ThreeParts ==
    ASSUME NEW S, NEW text \in Seq(S), NEW p \in 1 .. Len(text), NEW q \in 1 .. Len(text), p <= q
    PROVE  /\ SubSeq(text, p, q) \in Seq(S) /\ Len(SubSeq(text, p, q)) = q - p + 1
           /\ \A i \in 1 .. q - p + 1 : SubSeq(text, p, q)[i] = text[p + i - 1]
           /\ text = SubSeq(text, 1, p - 1) \o SubSeq(text, p, q) \o SubSeq(text, q + 1, Len(text))
<1>1. /\ SubSeq(text, p, q) \in Seq(S) /\ Len(SubSeq(text, p, q)) = q - p + 1
      /\ \A i \in 1 .. q - p + 1 : SubSeq(text, p, q)[i] = text[p + i - 1]
    OBVIOUS
<1>2. \A m \in 1 .. Len(text) + 1 : \A k \in m - 1 .. Len(text) : \A n \in k .. Len(text) :
          SubSeq(text, m, k) \o SubSeq(text, k + 1, n) = SubSeq(text, m, n)
    BY ConcatAdjacentSubSeq
<1>3. SubSeq(text, 1, p - 1) \o SubSeq(text, (p - 1) + 1, q) = SubSeq(text, 1, q)
    <2>1. 1 \in 1 .. Len(text) + 1 /\ p - 1 \in 1 - 1 .. Len(text) /\ q \in p - 1 .. Len(text)
        OBVIOUS
    <2> QED
        BY <1>2, <2>1, Zenon
<1>4. SubSeq(text, 1, q) \o SubSeq(text, q + 1, Len(text)) = SubSeq(text, 1, Len(text))
    <2>1. 1 \in 1 .. Len(text) + 1 /\ q \in 1 - 1 .. Len(text) /\ Len(text) \in q .. Len(text)
        OBVIOUS
    <2> QED
        BY <1>2, <2>1, Zenon
<1>5. SubSeq(text, 1, Len(text)) = text
    BY SubSeqFull
<1>6. (p - 1) + 1 = p
    OBVIOUS
<1> QED
    BY <1>1, <1>3, <1>4, <1>5, <1>6, Zenon

LEMMA ElementsIn ==
    ASSUME NEW S, NEW T, NEW s \in Seq(S), \A i \in 1 .. Len(s) : s[i] \in T
    PROVE  s \in Seq(T)
OBVIOUS

\* The script replaces what is not the administrator's, and nothing else.
LEMMA WithBlockReplaces ==
    ASSUME NEW text \in Seq(Line), Shaped(text), NEW block \in Blocks
    PROVE  \E u, v \in Seq(UserLines) : \E m \in Seq(Line \ UserLines) :
               text = u \o m \o v /\ WithBlock(text, block) = u \o Managed(block) \o v
<1>1. CASE text \in Seq(UserLines)
    <2>1. ~Contains(text, Start)
        <3>1. \A i \in DOMAIN text : text[i] \in UserLines
            BY <1>1
        <3> QED
            BY <3>1, LinesDiffer, ContainsPlace
    <2>2. WithBlock(text, block) = text \o Managed(block)
        BY <2>1 DEF WithBlock
    <2>3. text = text \o <<>> \o <<>>
        OBVIOUS
    <2>4. Managed(block) \in Seq(Line)
        BY LinesDiffer DEF Managed
    <2>5. text \o Managed(block) = text \o Managed(block) \o <<>>
        BY <2>4
    <2>6. <<>> \in Seq(UserLines) /\ <<>> \in Seq(Line \ UserLines)
        OBVIOUS
    <2> QED
        BY <1>1, <2>2, <2>3, <2>5, <2>6, Zenon
<1>2. ASSUME NEW p \in DOMAIN text, NEW q \in DOMAIN text, Frame(text, p, q),
             q = p + 1 \/ (q = p + 2 /\ text[p + 1] \in Blocks)
      PROVE  \E u, v \in Seq(UserLines) : \E m \in Seq(Line \ UserLines) :
                 text = u \o m \o v /\ WithBlock(text, block) = u \o Managed(block) \o v
    <2> DEFINE u == SubSeq(text, 1, p - 1)
               m == SubSeq(text, p, q)
               v == SubSeq(text, q + 1, Len(text))
    <2>1. /\ p < q /\ text[p] = Start /\ text[q] = End
          /\ \A i \in DOMAIN text : i < p \/ q < i => text[i] \in UserLines
          /\ \A i \in DOMAIN text : p < i /\ i < q => text[i] \in Blocks
        BY <1>2 DEF Frame
    <2>2. First(text, Start) = p
        <3>1. \A j \in DOMAIN text : text[j] = Start => j = p
            BY <2>1, LinesDiffer
        <3> QED
            BY <2>1, <3>1, FirstPlace
    <2>3. First(text, End) = q
        <3>1. \A j \in DOMAIN text : text[j] = End => j = q
            BY <2>1, LinesDiffer
        <3> QED
            BY <2>1, <3>1, FirstPlace
    <2>4. Contains(text, Start) /\ Contains(text, End)
        BY <2>1, ContainsPlace
    <2>5. WithBlock(text, block) = u \o Managed(block) \o v
        BY <2>2, <2>3, <2>4 DEF WithBlock
    <2>6. text = u \o m \o v
        <3>1. p <= q /\ p \in 1 .. Len(text) /\ q \in 1 .. Len(text)
            BY <2>1
        <3> QED
            BY <3>1, ThreeParts, Zenon
    <2>7. u \in Seq(UserLines)
        <3>1. u \in Seq(Line) /\ Len(u) = p - 1 /\ \A i \in 1 .. p - 1 : u[i] = text[i]
            BY Parts
        <3> HIDE DEF u
        <3>2. \A i \in 1 .. Len(u) : u[i] \in UserLines
            BY <2>1, <3>1
        <3> QED
            BY <3>1, <3>2, ElementsIn
    <2>8. v \in Seq(UserLines)
        <3>1. /\ v \in Seq(Line) /\ Len(v) = Len(text) - q
              /\ \A i \in 1 .. Len(text) - q : v[i] = text[q + i]
            BY Parts
        <3> HIDE DEF v
        <3>2. ASSUME NEW i \in 1 .. Len(v)
              PROVE  v[i] \in UserLines
            <4>1. q + i \in DOMAIN text /\ q < q + i
                BY <3>1
            <4> QED
                BY <2>1, <3>1, <4>1
        <3> QED
            BY <3>1, <3>2, ElementsIn
    <2>9. m \in Seq(Line \ UserLines)
        <3>1. /\ m \in Seq(Line) /\ Len(m) = q - p + 1
              /\ \A i \in 1 .. q - p + 1 : m[i] = text[p + i - 1]
            BY <2>1, ThreeParts
        <3> HIDE DEF m
        <3>2. ASSUME NEW i \in 1 .. Len(m)
              PROVE  m[i] \in Line \ UserLines
            <4>1. /\ p + i - 1 \in DOMAIN text
                  /\ p + i - 1 = p \/ p + i - 1 = q \/ (p < p + i - 1 /\ p + i - 1 < q)
                BY <2>1, <3>1
            <4> QED
                BY <2>1, <3>1, <4>1, LinesDiffer
        <3> QED
            BY <3>1, <3>2, ElementsIn
    <2> HIDE DEF u, m, v
    <2> QED
        BY <2>5, <2>6, <2>7, <2>8, <2>9
<1> QED
    BY <1>1, <1>2 DEF Shaped

LEMMA WithBlockHolds ==
    ASSUME NEW text \in Seq(Line), Shaped(text), NEW block \in Blocks
    PROVE  Holds(WithBlock(text, block), block)
<1>1. PICK u \in Seq(UserLines), v \in Seq(UserLines) : WithBlock(text, block) = u \o Managed(block) \o v
    BY WithBlockReplaces
<1> DEFINE all == u \o <<Start, block, End>> \o v
<1>2. u \in Seq(Line) /\ v \in Seq(Line)
    BY DEF Line
<1>3. /\ all \in Seq(Line) /\ Len(all) = Len(u) + 3 + Len(v)
      /\ \A i \in 1 .. Len(u) : all[i] = u[i]
      /\ all[Len(u) + 1] = Start /\ all[Len(u) + 2] = block /\ all[Len(u) + 3] = End
      /\ \A i \in 1 .. Len(v) : all[Len(u) + 3 + i] = v[i]
    BY <1>2, LinesDiffer, Joined
<1>4. WithBlock(text, block) = all
    BY <1>1 DEF Managed
<1> HIDE DEF all
<1> DEFINE p == Len(u) + 1
<1>5. p \in DOMAIN all /\ p + 2 \in DOMAIN all
    BY <1>3
<1>6. ASSUME NEW i \in 1 .. Len(all)
      PROVE  i < p \/ p + 2 < i => all[i] \in UserLines
    <2>1. ASSUME i < p
          PROVE  all[i] \in UserLines
        <3>1. i \in 1 .. Len(u)
            BY <2>1
        <3>2. all[i] = u[i]
            BY <1>3, <3>1, Zenon
        <3>3. u[i] \in UserLines
            BY <3>1
        <3> QED
            BY <3>2, <3>3
    <2>2. ASSUME p + 2 < i
          PROVE  all[i] \in UserLines
        <3>1. Len(all) = Len(u) + 3 + Len(v) /\ Len(u) \in Nat /\ Len(v) \in Nat
            BY <1>3
        <3>2. i - p - 2 \in 1 .. Len(v) /\ i = Len(u) + 3 + (i - p - 2)
            BY <2>2, <3>1
        <3>3. PICK j \in 1 .. Len(v) : i = Len(u) + 3 + j
            BY <3>2, Zenon
        <3>4. all[Len(u) + 3 + j] = v[j]
            BY <1>3, <3>3, Zenon
        <3>5. v[j] \in UserLines
            BY <3>3
        <3> QED
            BY <3>3, <3>4, <3>5
    <2> QED
        BY <2>1, <2>2
<1>7. Frame(all, p, p + 2) /\ all[p + 1] = block
    BY <1>3, <1>5, <1>6 DEF Frame
<1> QED
    BY <1>4, <1>5, <1>7 DEF Holds

LEMMA HoldsShaped ==
    ASSUME NEW text, NEW block \in Blocks, Holds(text, block)
    PROVE  Shaped(text)
<1>1. PICK p \in DOMAIN text : Frame(text, p, p + 2) /\ text[p + 1] = block
    BY DEF Holds
<1>2. p + 2 \in DOMAIN text
    BY <1>1 DEF Frame
<1> QED
    BY <1>1, <1>2 DEF Shaped

\* A text with the block has its lines and no other line that is not the administrator's.
LEMMA HoldsSelected ==
    ASSUME NEW text \in Seq(Line), NEW block \in Blocks, Holds(text, block)
    PROVE  Selected(text, Line \ UserLines) = Managed(block)
<1>1. Shaped(text)
    BY HoldsShaped
<1>2. PICK p \in DOMAIN text : Frame(text, p, p + 2) /\ text[p + 1] = block
    BY DEF Holds
<1> DEFINE u == SubSeq(text, 1, p - 1)
           m == SubSeq(text, p, p + 2)
           v == SubSeq(text, (p + 2) + 1, Len(text))
<1>3. /\ p \in 1 .. Len(text) /\ p + 2 \in 1 .. Len(text) /\ p <= p + 2
      /\ text[p] = Start /\ text[p + 2] = End
      /\ \A i \in 1 .. Len(text) : i < p \/ p + 2 < i => text[i] \in UserLines
    BY <1>2 DEF Frame
<1>4. text = u \o m \o v
    BY <1>3, ThreeParts, Zenon
<1>5. m = Managed(block)
    <2>1. m \in Seq(Line) /\ Len(m) = 3 /\ m[1] = text[p] /\ m[2] = text[p + 1] /\ m[3] = text[p + 2]
        <3>1. /\ m \in Seq(Line) /\ Len(m) = (p + 2) - p + 1
              /\ \A i \in 1 .. (p + 2) - p + 1 : m[i] = text[p + i - 1]
            BY <1>3, ThreeParts, Zenon
        <3>2. (p + 2) - p + 1 = 3 /\ p + 1 - 1 = p /\ p + 2 - 1 = p + 1 /\ p + 3 - 1 = p + 2
            OBVIOUS
        <3> HIDE DEF m
        <3> QED
            BY <3>1, <3>2
    <2> HIDE DEF m
    <2> QED
        BY <1>2, <1>3, <2>1 DEF Managed
<1>6. u \in Seq(UserLines)
    <2>1. u \in Seq(Line) /\ Len(u) = p - 1 /\ \A i \in 1 .. p - 1 : u[i] = text[i]
        BY <1>3
    <2> HIDE DEF u
    <2>2. ASSUME NEW i \in 1 .. Len(u)
          PROVE  u[i] \in UserLines
        <3>1. i \in 1 .. p - 1 /\ i \in 1 .. Len(text) /\ i < p
            BY <1>3, <2>1
        <3> QED
            BY <1>3, <2>1, <3>1
    <2> QED
        BY <2>1, <2>2, ElementsIn
<1>7. v \in Seq(UserLines)
    <2>1. /\ v \in Seq(Line) /\ Len(v) = Len(text) - (p + 2)
          /\ \A i \in 1 .. Len(text) - (p + 2) : v[i] = text[(p + 2) + i]
        BY <1>3
    <2> HIDE DEF v
    <2>2. ASSUME NEW i \in 1 .. Len(v)
          PROVE  v[i] \in UserLines
        <3>0. i \in Nat /\ 1 <= i /\ i <= Len(text) - (p + 2) /\ p \in Nat /\ Len(text) \in Nat
            BY <1>3, <2>1
        <3>1. (p + 2) + i \in 1 .. Len(text) /\ p + 2 < (p + 2) + i
            BY <3>0
        <3> QED
            BY <1>3, <2>1, <3>1
    <2> QED
        BY <2>1, <2>2, ElementsIn
<1> HIDE DEF u, m, v
<1>8. u \in Seq(Line) /\ v \in Seq(Line) /\ m \in Seq(Line) /\ u \o m \in Seq(Line)
    <2>1. u \in Seq(Line) /\ v \in Seq(Line)
        BY <1>6, <1>7 DEF Line
    <2>2. m \in Seq(Line) /\ m \in Seq(Line \ UserLines)
        BY <1>5, LinesDiffer DEF Managed
    <2> QED
        BY <2>1, <2>2
<1>9. m \in Seq(Line \ UserLines)
    BY <1>5, LinesDiffer DEF Managed
<1>10. Selected(u, Line \ UserLines) = <<>> /\ Selected(v, Line \ UserLines) = <<>>
    <2>1. UserLines \cap (Line \ UserLines) = {}
        OBVIOUS
    <2> QED
        BY <1>6, <1>7, <2>1, SelectedNone
<1>11. Selected(m, Line \ UserLines) = m
    BY <1>9, SelectedAll
<1>12. Selected((u \o m) \o v, Line \ UserLines) =
           (Selected(u, Line \ UserLines) \o Selected(m, Line \ UserLines)) \o Selected(v, Line \ UserLines)
    <2>1. Selected((u \o m) \o v, Line \ UserLines) =
              Selected(u \o m, Line \ UserLines) \o Selected(v, Line \ UserLines)
        BY <1>8, SelectedConcat, Zenon
    <2>2. Selected(u \o m, Line \ UserLines) =
              Selected(u, Line \ UserLines) \o Selected(m, Line \ UserLines)
        BY <1>8, SelectedConcat, Zenon
    <2> QED
        BY <2>1, <2>2, Zenon
<1>13. (<<>> \o m) \o <<>> = m
    BY <1>9
<1> QED
    BY <1>4, <1>5, <1>10, <1>11, <1>12, <1>13, Zenon

\* Whatever is written between the administrator's lines, they are selected as they were.
LEMMA WithBlockKeepsLines ==
    ASSUME NEW text \in Seq(Line), Shaped(text), NEW block \in Blocks
    PROVE  Selected(WithBlock(text, block), UserLines) = Selected(text, UserLines)
<1>1. PICK u \in Seq(UserLines), v \in Seq(UserLines), m \in Seq(Line \ UserLines) :
          text = u \o m \o v /\ WithBlock(text, block) = u \o Managed(block) \o v
    BY WithBlockReplaces
<1>2. u \in Seq(Line) /\ v \in Seq(Line) /\ m \in Seq(Line)
    BY DEF Line
<1>3. Managed(block) \in Seq(Line) /\ Managed(block) \in Seq(Line \ UserLines)
    BY LinesDiffer DEF Managed
<1>4. ASSUME NEW w \in Seq(Line), w \in Seq(Line \ UserLines)
      PROVE  Selected(u \o w \o v, UserLines) = Selected(u, UserLines) \o <<>> \o Selected(v, UserLines)
    <2>1. u \o w \in Seq(Line)
        BY <1>2
    <2>2. Selected(u \o w \o v, UserLines) = Selected(u \o w, UserLines) \o Selected(v, UserLines)
        BY <1>2, <2>1, SelectedConcat
    <2>3. Selected(u \o w, UserLines) = Selected(u, UserLines) \o Selected(w, UserLines)
        BY <1>2, SelectedConcat
    <2>4. (Line \ UserLines) \cap UserLines = {}
        OBVIOUS
    <2>5. Selected(w, UserLines) = <<>>
        BY <1>4, <2>4, SelectedNone
    <2> QED
        BY <2>2, <2>3, <2>5
<1>5. m \in Seq(Line \ UserLines)
    OBVIOUS
<1> QED
    BY <1>1, <1>2, <1>3, <1>4, <1>5, Zenon

\* Edits that spare the markers keep the shape.
LEMMA ShapedAppend ==
    ASSUME NEW text \in Seq(Line), Shaped(text), NEW l \in UserLines
    PROVE  Shaped(Append(text, l))
<1>1. CASE text \in Seq(UserLines)
    <2>1. Append(text, l) \in Seq(UserLines)
        BY <1>1
    <2> QED
        BY <2>1 DEF Shaped
<1>2. ASSUME NEW p \in DOMAIN text, NEW q \in DOMAIN text, Frame(text, p, q),
             q = p + 1 \/ (q = p + 2 /\ text[p + 1] \in Blocks)
      PROVE  Shaped(Append(text, l))
    <2> DEFINE new == Append(text, l)
    <2>1. /\ DOMAIN new = 1 .. Len(text) + 1 /\ new[Len(text) + 1] = l
          /\ \A i \in 1 .. Len(text) : new[i] = text[i]
        OBVIOUS
    <2> HIDE DEF new
    <2>2. /\ p \in 1 .. Len(text) /\ q \in 1 .. Len(text) /\ p < q
          /\ text[p] = Start /\ text[q] = End
          /\ \A i \in 1 .. Len(text) : i < p \/ q < i => text[i] \in UserLines
        BY <1>2 DEF Frame
    <2>3. \A i \in 1 .. Len(text) + 1 : i \in 1 .. Len(text) \/ i = Len(text) + 1
        OBVIOUS
    <2>4. Frame(new, p, q)
        BY <2>1, <2>2, <2>3 DEF Frame
    <2>5. q = p + 2 => p + 1 \in 1 .. Len(text)
        BY <2>2
    <2>6. p \in DOMAIN new /\ q \in DOMAIN new
        BY <2>4 DEF Frame
    <2>7. q = p + 1 \/ (q = p + 2 /\ new[p + 1] \in Blocks)
        BY <1>2, <2>1, <2>5
    <2> QED
        BY <2>4, <2>6, <2>7 DEF Shaped, new
<1> QED
    BY <1>1, <1>2 DEF Shaped

LEMMA Removed ==
    ASSUME NEW S, NEW text \in Seq(S), NEW k \in 1 .. Len(text)
    PROVE  /\ RemoveAt(text, k) \in Seq(S) /\ Len(RemoveAt(text, k)) = Len(text) - 1
           /\ \A i \in 1 .. Len(text) - 1 : RemoveAt(text, k)[i] = IF i < k THEN text[i] ELSE text[i + 1]
<1> DEFINE u == SubSeq(text, 1, k - 1)
           v == SubSeq(text, k + 1, Len(text))
<1>1. /\ u \in Seq(S) /\ Len(u) = k - 1 /\ \A i \in 1 .. k - 1 : u[i] = text[i]
      /\ v \in Seq(S) /\ Len(v) = Len(text) - k /\ \A i \in 1 .. Len(text) - k : v[i] = text[k + i]
    BY Parts
<1>2. RemoveAt(text, k) = u \o v
    BY DEF RemoveAt
<1> HIDE DEF u, v
<1>3. /\ u \o v \in Seq(S) /\ Len(u \o v) = Len(u) + Len(v)
      /\ \A i \in 1 .. Len(u) : (u \o v)[i] = u[i]
      /\ \A i \in 1 .. Len(v) : (u \o v)[Len(u) + i] = v[i]
    <2>1. u \in Seq(S) /\ v \in Seq(S)
        BY <1>1
    <2>2. \A a, b \in Seq(S) :
              /\ a \o b \in Seq(S) /\ Len(a \o b) = Len(a) + Len(b)
              /\ \A i \in 1 .. Len(a) : (a \o b)[i] = a[i]
              /\ \A i \in 1 .. Len(b) : (a \o b)[Len(a) + i] = b[i]
        BY Glued
    <2> QED
        BY <2>1, <2>2, Zenon
<1>4. ASSUME NEW i \in 1 .. Len(text) - 1
      PROVE  (u \o v)[i] = IF i < k THEN text[i] ELSE text[i + 1]
    <2>1. CASE i < k
        <3>1. i \in 1 .. k - 1
            BY <2>1
        <3> QED
            BY <1>1, <1>3, <2>1, <3>1
    <2>2. CASE ~(i < k)
        <3>1. i - k + 1 \in 1 .. Len(text) - k /\ (k - 1) + (i - k + 1) = i /\ k + (i - k + 1) = i + 1
            BY <2>2
        <3>2. (u \o v)[(k - 1) + (i - k + 1)] = v[i - k + 1]
            BY <1>1, <1>3, <3>1, Zenon
        <3>3. v[i - k + 1] = text[k + (i - k + 1)]
            BY <1>1, <3>1, Zenon
        <3> QED
            BY <2>2, <3>1, <3>2, <3>3
    <2> QED
        BY <2>1, <2>2
<1> QED
    BY <1>1, <1>2, <1>3, <1>4

LEMMA ShapedRemove ==
    ASSUME NEW text \in Seq(Line), Shaped(text), NEW k \in 1 .. Len(text), text[k] \notin {Start, End}
    PROVE  Shaped(RemoveAt(text, k))
<1> DEFINE new == RemoveAt(text, k)
<1>1. /\ new \in Seq(Line) /\ Len(new) = Len(text) - 1
      /\ \A i \in 1 .. Len(text) - 1 : new[i] = IF i < k THEN text[i] ELSE text[i + 1]
    BY Removed
<1>2. CASE text \in Seq(UserLines)
    <2>1. new \in Seq(UserLines)
        BY <1>2, Removed
    <2> QED
        BY <2>1 DEF Shaped
<1> HIDE DEF new
<1>3. ASSUME NEW p \in DOMAIN text, NEW q \in DOMAIN text, Frame(text, p, q),
             q = p + 1 \/ (q = p + 2 /\ text[p + 1] \in Blocks)
      PROVE  Shaped(new)
    <2>1. /\ p \in 1 .. Len(text) /\ q \in 1 .. Len(text) /\ p < q
          /\ text[p] = Start /\ text[q] = End
          /\ \A i \in 1 .. Len(text) : i < p \/ q < i => text[i] \in UserLines
        BY <1>3 DEF Frame
    <2>2. k # p /\ k # q
        BY <2>1
    <2>3. CASE k < p
        <3>1. /\ p - 1 \in 1 .. Len(new) /\ q - 1 \in 1 .. Len(new) /\ p - 1 < q - 1
              /\ new[p - 1] = Start /\ new[q - 1] = End
            BY <1>1, <2>1, <2>3
        <3>2. ASSUME NEW i \in 1 .. Len(new), i < p - 1 \/ q - 1 < i
              PROVE  new[i] \in UserLines
            <4>1. CASE i < k
                <5>1. new[i] = text[i] /\ i \in 1 .. Len(text) /\ i < p
                    BY <1>1, <2>1, <2>3, <4>1
                <5> QED
                    BY <2>1, <5>1
            <4>2. CASE ~(i < k)
                <5>1. new[i] = text[i + 1] /\ i + 1 \in 1 .. Len(text) /\ (i + 1 < p \/ q < i + 1)
                    BY <1>1, <2>1, <2>3, <3>2, <4>2
                <5> QED
                    BY <2>1, <5>1
            <4> QED
                BY <4>1, <4>2
        <3>3. Frame(new, p - 1, q - 1)
            BY <1>1, <3>1, <3>2 DEF Frame
        <3>4. q - 1 = (p - 1) + 1 \/ (q - 1 = (p - 1) + 2 /\ new[(p - 1) + 1] \in Blocks)
            BY <1>1, <1>3, <2>1, <2>3
        <3>5. p - 1 \in DOMAIN new /\ q - 1 \in DOMAIN new
            BY <3>3 DEF Frame
        <3> QED
            BY <3>3, <3>4, <3>5 DEF Shaped
    <2>4. CASE p < k /\ k < q
        <3>1. /\ p \in 1 .. Len(new) /\ q - 1 \in 1 .. Len(new) /\ q - 1 = p + 1
              /\ new[p] = Start /\ new[q - 1] = End
            BY <1>1, <1>3, <2>1, <2>4
        <3>2. ASSUME NEW i \in 1 .. Len(new), i < p \/ q - 1 < i
              PROVE  new[i] \in UserLines
            <4>1. CASE i < k
                <5>1. new[i] = text[i] /\ i \in 1 .. Len(text) /\ i < p
                    BY <1>1, <1>3, <2>1, <2>4, <3>1, <3>2, <4>1
                <5> QED
                    BY <2>1, <5>1
            <4>2. CASE ~(i < k)
                <5>1. new[i] = text[i + 1] /\ i + 1 \in 1 .. Len(text) /\ q < i + 1
                    BY <1>1, <1>3, <2>1, <2>4, <3>1, <3>2, <4>2
                <5> QED
                    BY <2>1, <5>1
            <4> QED
                BY <4>1, <4>2
        <3>3. Frame(new, p, q - 1)
            BY <1>1, <3>1, <3>2 DEF Frame
        <3>4. p \in DOMAIN new /\ q - 1 \in DOMAIN new
            BY <3>3 DEF Frame
        <3> QED
            BY <3>1, <3>3, <3>4 DEF Shaped
    <2>5. CASE q < k
        <3>1. /\ p \in 1 .. Len(new) /\ q \in 1 .. Len(new)
              /\ new[p] = Start /\ new[q] = End
            BY <1>1, <2>1, <2>5
        <3>2. ASSUME NEW i \in 1 .. Len(new), i < p \/ q < i
              PROVE  new[i] \in UserLines
            <4>1. CASE i < k
                <5>1. new[i] = text[i] /\ i \in 1 .. Len(text)
                    BY <1>1, <2>1, <4>1
                <5> QED
                    BY <2>1, <3>2, <5>1
            <4>2. CASE ~(i < k)
                <5>1. new[i] = text[i + 1] /\ i + 1 \in 1 .. Len(text) /\ q < i + 1
                    BY <1>1, <2>1, <2>5, <4>2
                <5> QED
                    BY <2>1, <5>1
            <4> QED
                BY <4>1, <4>2
        <3>3. Frame(new, p, q)
            BY <1>1, <2>1, <3>1, <3>2 DEF Frame
        <3>4. q = p + 1 \/ (q = p + 2 /\ new[p + 1] \in Blocks)
            BY <1>1, <1>3, <2>1, <2>5
        <3>5. p \in DOMAIN new /\ q \in DOMAIN new
            BY <3>3 DEF Frame
        <3> QED
            BY <3>3, <3>4, <3>5 DEF Shaped
    <2> QED
        BY <2>1, <2>2, <2>3, <2>4, <2>5
<1> QED
    BY <1>2, <1>3 DEF Shaped, new

-----------------------------------------------------------------------------
(* The sysctl file and the resolv.conf *)

LEMMA LoadedType ==
    ASSUME NEW values \in [Keys -> Values], NEW file \in SysctlMap
    PROVE  Loaded(values, file) \in [Keys -> Values]
BY DEF Loaded, SysctlMap

LEMMA LoadedValues ==
    ASSUME NEW values \in [Keys -> Values], NEW file \in SysctlMap, NEW k \in DOMAIN file, k \in KernelKeys
    PROVE  Loaded(values, file)[k] = file[k]
BY ConstantAssumption DEF Loaded, SysctlMap

LEMMA NotNull ==
    /\ \A f \in SysctlMap : f # Absent /\ f # Torn
    /\ \A f \in ResolvConf : f # Absent /\ f # Torn
BY ConstantAssumption

LEMMA UpstreamIsUsable ==
    ASSUME NEW conf \in Seq(Servers)
    PROVE  UpstreamNameservers(conf) \in Nameservers
<1> DEFINE real == Selected(conf, Servers \ Loopback)
           n == IF Len(real) < MaxNameservers THEN Len(real) ELSE MaxNameservers
<1>1. real \in Seq(Servers \ Loopback)
    <2>1. Servers \cap (Servers \ Loopback) = Servers \ Loopback
        OBVIOUS
    <2> QED
        BY <2>1, SelectedType
<1> HIDE DEF real
<1>2. n \in 0 .. Len(real) /\ n <= 3
    BY <1>1 DEF MaxNameservers
<1> HIDE DEF n
<1>3. SubSeq(real, 1, n) \in Seq(Servers \ Loopback) /\ Len(SubSeq(real, 1, n)) = n
    BY <1>1, <1>2
<1>4. UpstreamNameservers(conf) = SubSeq(real, 1, n)
    BY DEF UpstreamNameservers, real, n
<1> QED
    BY <1>2, <1>3, <1>4 DEF Nameservers, MaxNameservers

LEMMA ConfigType ==
    ASSUME NEW c \in NodeConfigs
    PROVE  /\ c.hostname \in Hostnames \cup {Unset} /\ c.block \in Blocks /\ c.sysctl \in SysctlMap
           /\ c.dns \in BOOLEAN /\ c.nameservers \in Nameservers /\ c.search \in SUBSET Domains
BY ConfigAssumption DEF NodeConfig

LEMMA WantedType ==
    ASSUME TypeOK
    PROVE  WantedResolv \in ResolvConf /\ WantedResolv.servers \in Nameservers
<1>1. cfg.nameservers \in Nameservers /\ cfg.search \in SUBSET Domains /\ upstream \in Seq(Servers)
    BY ConfigType DEF TypeOK
<1>2. UpstreamNameservers(upstream) \in Nameservers
    BY <1>1, UpstreamIsUsable
<1>3. WantedResolv.servers \in Nameservers /\ WantedResolv.search \in SUBSET Domains
    BY <1>1, <1>2 DEF WantedResolv
<1>4. \A s \in Nameservers : s \in Seq(Servers)
    BY DEF Nameservers
<1> QED
    BY <1>3, <1>4 DEF WantedResolv, ResolvConf

LEMMA WantedIsUsable ==
    ASSUME TypeOK, WantedResolv.servers # <<>>
    PROVE  Usable(WantedResolv)
<1>1. /\ WantedResolv \in ResolvConf
      /\ WantedResolv.servers \in Seq(Servers \ Loopback) /\ Len(WantedResolv.servers) <= MaxNameservers
    BY WantedType DEF Nameservers
<1>2. WantedResolv \notin {Absent, Torn}
    BY <1>1, NotNull
<1> DEFINE list == WantedResolv.servers
<1> HIDE DEF list
<1>3. list \in Seq(Servers \ Loopback) /\ list # <<>> /\ Len(list) <= 3
    BY <1>1 DEF list, MaxNameservers
<1>4. Len(list) \in 1 .. 3
    <2>1. Len(list) # 0
        <3>1. \A seq \in Seq(Servers \ Loopback) : (seq = <<>>) <=> (Len(seq) = 0)
            BY EmptySeq
        <3> QED
            BY <1>3, <3>1, Zenon
    <2>2. PICK n \in Nat : n = Len(list)
        BY <1>3
    <2>3. n # 0 /\ n <= 3
        BY <1>3, <2>1, <2>2, Zenon
    <2>4. n \in 1 .. 3
        BY <2>3
    <2> QED
        BY <2>2, <2>4, Zenon
<1>5. \A i \in DOMAIN list : list[i] \notin Loopback
    BY <1>3
<1>6. Range(list) \cap Loopback = {}
    BY <1>5 DEF Range
<1> QED
    BY <1>2, <1>4, <1>6 DEF Usable, list, MaxNameservers

-----------------------------------------------------------------------------
(* The invariant *)

LEMMA TypeInit == Init => TypeOK
<1> SUFFICES ASSUME Init
             PROVE  TypeOK
    OBVIOUS
<1>1. hosts \in Seq(Line)
    <2>1. PICK l \in UserLines : hosts = <<l>>
        BY DEF Init
    <2>2. l \in Line
        BY DEF Line
    <2> QED
        BY <2>1, <2>2
<1>2. kernel \in [Keys -> Values]
    BY ConstantAssumption DEF Init
<1>3. upstream \in Seq(Servers)
    <2>1. upstream \in UNION {[1 .. m -> Servers] : m \in 0 .. 2}
        BY DEF Init, BoundedSeq, SeqOf
    <2>2. PICK m \in 0 .. 2 : upstream \in [1 .. m -> Servers]
        BY <2>1
    <2> QED
        BY <2>2
<1> QED
    BY <1>1, <1>2, <1>3 DEF Init, TypeOK

\* The part of the type invariant that only the call changes.
Plain ==
    /\ pc \in {"idle", "hostname", "hosts", "sysctl", "install sysctl", "load",
               "resolv", "install resolv", "config"}
    /\ result \in {"none", "ok", "error"}

\* What the node keeps.
NodeType ==
    /\ cfg \in NodeConfigs
    /\ hostname \in Hostnames
    /\ hosts \in Seq(Line)
    /\ sysctl \in SysctlMap \cup {Absent, Torn}
    /\ kernel \in [Keys -> Values]
    /\ upstream \in Seq(Servers)
    /\ resolv \in ResolvConf \cup {Absent, Torn}
    /\ named \in BOOLEAN
    /\ damaged \in SUBSET {"hosts", "resolv"}
    /\ calls \in Nat

LEMMA PlainStep ==
    ASSUME TypeOK, [Next]_vars
    PROVE  Plain'
<1>0. Plain
    BY DEF TypeOK, Plain
<1> USE <1>0 DEF Plain, Then, Return, Happens
<1>1. ASSUME NEW c \in NodeConfigs, Call(c)
      PROVE  Plain'
    BY <1>1 DEF Call
<1>2. CASE SetHostname
    BY <1>2 DEF SetHostname
<1>3. CASE WriteHosts
    BY <1>3 DEF WriteHosts
<1>4. CASE RemoveSysctl
    BY <1>4 DEF RemoveSysctl
<1>5. CASE CompareSysctl
    BY <1>5 DEF CompareSysctl
<1>6. CASE InstallSysctl
    BY <1>6 DEF InstallSysctl
<1>7. CASE LoadSysctl
    BY <1>7 DEF LoadSysctl
<1>8. CASE SkipResolv
    BY <1>8 DEF SkipResolv
<1>9. CASE CompareResolv
    BY <1>9 DEF CompareResolv
<1>10. CASE InstallResolv
    BY <1>10 DEF InstallResolv
<1>11. CASE WriteConfig
    BY <1>11 DEF WriteConfig
<1>12. CASE CommandFails
    BY <1>12 DEF CommandFails
<1>13. CASE Crash
    BY <1>13 DEF Crash
<1>14. CASE Drift
    BY <1>14 DEF Drift
<1>15. CASE UNCHANGED vars
    BY <1>15 DEF vars
<1> QED
    BY <1>1, <1>2, <1>3, <1>4, <1>5, <1>6, <1>7, <1>8, <1>9, <1>10, <1>11, <1>12, <1>13, <1>14, <1>15 DEF Next

LEMMA EventsStep ==
    ASSUME TypeOK, [Next]_vars
    PROVE  events' \in {events, events + 1}
<1> USE DEF Then, Return, Happens
<1>1. ASSUME NEW c \in NodeConfigs, Call(c)
      PROVE  events' \in {events, events + 1}
    BY <1>1 DEF Call
<1>2. CASE SetHostname
    BY <1>2 DEF SetHostname
<1>3. CASE WriteHosts
    BY <1>3 DEF WriteHosts
<1>4. CASE RemoveSysctl
    BY <1>4 DEF RemoveSysctl
<1>5. CASE CompareSysctl
    BY <1>5 DEF CompareSysctl
<1>6. CASE InstallSysctl
    BY <1>6 DEF InstallSysctl
<1>7. CASE LoadSysctl
    BY <1>7 DEF LoadSysctl
<1>8. CASE SkipResolv
    BY <1>8 DEF SkipResolv
<1>9. CASE CompareResolv
    BY <1>9 DEF CompareResolv
<1>10. CASE InstallResolv
    BY <1>10 DEF InstallResolv
<1>11. CASE WriteConfig
    BY <1>11 DEF WriteConfig
<1>12. CASE CommandFails
    BY <1>12 DEF CommandFails
<1>13. CASE Crash
    BY <1>13 DEF Crash
<1>14. CASE Drift
    BY <1>14 DEF Drift
<1>15. CASE UNCHANGED vars
    BY <1>15 DEF vars
<1> QED
    BY <1>1, <1>2, <1>3, <1>4, <1>5, <1>6, <1>7, <1>8, <1>9, <1>10, <1>11, <1>12, <1>13, <1>14, <1>15 DEF Next

LEMMA NodeTypeStep ==
    ASSUME TypeOK, SysctlInv, [Next]_vars
    PROVE  NodeType'
<1>0. NodeType
    BY DEF TypeOK, NodeType
<1>1. ASSUME NEW c \in NodeConfigs, Call(c)
      PROVE  NodeType'
    BY <1>0, <1>1 DEF Call, NodeType, node, files
<1>2. CASE SetHostname
    BY <1>0, <1>2, ConfigType DEF SetHostname, NodeType, files
<1>3. CASE WriteHosts
    <2>1. hosts' \in Seq(Line)
        BY <1>0, <1>3, ConfigType, WithBlockType DEF WriteHosts, NodeType
    <2> QED
        BY <1>0, <1>3, <2>1 DEF WriteHosts, NodeType
<1>4. CASE RemoveSysctl
    BY <1>0, <1>4 DEF RemoveSysctl, NodeType
<1>5. CASE CompareSysctl
    BY <1>0, <1>5 DEF CompareSysctl, NodeType, node, files
<1>6. CASE InstallSysctl
    <2>1. sysctl' \in SysctlMap
        BY <1>0, <1>6, ConfigType DEF InstallSysctl, NodeType
    <2> QED
        BY <1>0, <1>6, <2>1 DEF InstallSysctl, NodeType
<1>7. CASE LoadSysctl
    <2>1. sysctl = cfg.sysctl
        BY <1>7 DEF LoadSysctl, SysctlInv
    <2>2. kernel' \in [Keys -> Values]
        BY <1>0, <1>7, <2>1, ConfigType, LoadedType DEF LoadSysctl, NodeType
    <2> QED
        BY <1>0, <1>7, <2>2 DEF LoadSysctl, NodeType, files
<1>8. CASE SkipResolv
    BY <1>0, <1>8 DEF SkipResolv, NodeType, node, files
<1>9. CASE CompareResolv
    BY <1>0, <1>9 DEF CompareResolv, NodeType, node, files
<1>10. CASE InstallResolv
    <2>1. resolv' \in ResolvConf
        BY <1>10, WantedType DEF InstallResolv
    <2>2. damaged' \in SUBSET {"hosts", "resolv"}
        BY <1>0, <1>10 DEF InstallResolv, NodeType
    <2> QED
        BY <1>0, <1>10, <2>1, <2>2 DEF InstallResolv, NodeType
<1>11. CASE WriteConfig
    BY <1>0, <1>11, ConfigType DEF WriteConfig, NodeType
<1>12. CASE CommandFails
    BY <1>0, <1>12 DEF CommandFails, NodeType, node, files
<1>13. CASE Crash
    <2>1. hosts' \in Seq(Line)
        <3>1. hosts' = hosts \/ \E i \in 0 .. Len(WithBlock(hosts, cfg.block)) :
                  hosts' = SubSeq(WithBlock(hosts, cfg.block), 1, i)
            BY <1>13 DEF Crash, Interrupted
        <3>2. WithBlock(hosts, cfg.block) \in Seq(Line)
            BY <1>0, ConfigType, WithBlockType DEF NodeType
        <3>3. \A text \in Seq(Line) : \A i \in 0 .. Len(text) : SubSeq(text, 1, i) \in Seq(Line)
            OBVIOUS
        <3> QED
            BY <1>0, <3>1, <3>2, <3>3 DEF NodeType
    <2>2. sysctl' \in SysctlMap \cup {Absent, Torn} /\ resolv' \in ResolvConf \cup {Absent, Torn}
        BY <1>0, <1>13 DEF Crash, Interrupted, NodeType
    <2>3. kernel' \in [Keys -> Values]
        <3>1. [k \in Keys |-> Boot] \in [Keys -> Values]
            BY ConstantAssumption
        <3>2. <<>> \in SysctlMap
            <4>1. <<>> \in [{} -> Values] /\ {} \in SUBSET Keys
                OBVIOUS
            <4> QED
                BY <4>1 DEF SysctlMap
        <3>3. (IF sysctl' \in {Absent, Torn} THEN <<>> ELSE sysctl') \in SysctlMap
            BY <2>2, <3>2
        <3> QED
            BY <1>13, <3>1, <3>3, LoadedType DEF Crash
    <2>4. damaged' \in SUBSET {"hosts", "resolv"}
        BY <1>0, <1>13 DEF Crash, Interrupted, NodeType
    <2> QED
        BY <1>0, <1>13, <2>1, <2>2, <2>3, <2>4 DEF Crash, NodeType
<1>14. CASE Drift
    <2>1. hosts' \in Seq(Line)
        <3>1. CASE DriftInHosts
            <4>1. \/ \E l \in UserLines : hosts' = Append(hosts, l)
                  \/ \E i \in 1 .. Len(hosts) : hosts' = RemoveAt(hosts, i)
                BY <1>0, <3>1 DEF DriftInHosts, NodeType
            <4>2. \A l \in UserLines : Append(hosts, l) \in Seq(Line)
                BY <1>0 DEF NodeType, Line
            <4>3. \A i \in 1 .. Len(hosts) : RemoveAt(hosts, i) \in Seq(Line)
                BY <1>0, Removed DEF NodeType
            <4> QED
                BY <4>1, <4>2, <4>3
        <3>2. CASE hosts' = hosts
            BY <1>0, <3>2 DEF NodeType
        <3> QED
            BY <1>14, <3>1, <3>2 DEF Drift, files
    <2>2. kernel' \in [Keys -> Values]
        BY <1>0, <1>14, ConstantAssumption DEF Drift, NodeType
    <2>3. sysctl' \in SysctlMap \cup {Absent, Torn} /\ resolv' \in ResolvConf \cup {Absent, Torn}
        BY <1>0, <1>14 DEF Drift, NodeType, files
    <2>4. upstream' \in Seq(Servers)
        <3>1. upstream' = upstream \/ \E a \in Servers : upstream' = <<a>>
            BY <1>14 DEF Drift
        <3>2. \A a \in Servers : <<a>> \in Seq(Servers)
            OBVIOUS
        <3> QED
            BY <1>0, <3>1, <3>2 DEF NodeType
    <2>5. damaged' \in SUBSET {"hosts", "resolv"}
        BY <1>0, <1>14 DEF Drift, DriftInHosts, NodeType
    <2>6. named' = named
        BY <1>14 DEF Drift, files
    <2> QED
        BY <1>0, <1>14, <2>1, <2>2, <2>3, <2>4, <2>5, <2>6 DEF Drift, NodeType
<1>15. CASE UNCHANGED vars
    BY <1>0, <1>15 DEF vars, node, files, NodeType
<1> QED
    BY <1>1, <1>2, <1>3, <1>4, <1>5, <1>6, <1>7, <1>8, <1>9, <1>10, <1>11, <1>12, <1>13, <1>14, <1>15 DEF Next

LEMMA TypeStep ==
    ASSUME TypeOK, SysctlInv, [Next]_vars
    PROVE  TypeOK'
<1>1. events' \in Nat
    <2>1. events \in Nat
        BY DEF TypeOK
    <2> QED
        BY <2>1, EventsStep
<1> QED
    BY <1>1, PlainStep, NodeTypeStep DEF TypeOK, Plain, NodeType

\* The values: what the file and the kernel hold once sysctl -p was done.
LEMMA SysctlStep ==
    ASSUME TypeOK, SysctlInv, [Next]_vars
    PROVE  SysctlInv'
<1>0. pc = "idle" \/ pc # "idle"
    OBVIOUS
<1> USE DEF SysctlInv, SysctlDone, Succeeded, NoValues, Then, Return
<1>1. ASSUME NEW c \in NodeConfigs, Call(c)
      PROVE  SysctlInv'
    BY <1>1 DEF Call
<1>2. CASE SetHostname
    BY <1>2 DEF SetHostname
<1>3. CASE WriteHosts
    BY <1>3 DEF WriteHosts
<1>4. CASE RemoveSysctl
    BY <1>4 DEF RemoveSysctl
<1>5. CASE CompareSysctl
    BY <1>5 DEF CompareSysctl, node, files
<1>6. CASE InstallSysctl
    BY <1>6 DEF InstallSysctl
<1>7. CASE LoadSysctl
    <2>1. sysctl = cfg.sysctl /\ sysctl' = sysctl /\ cfg' = cfg /\ ~NoValues
        BY <1>7 DEF LoadSysctl, files
    <2>2. pc' = "resolv" \/ (pc' = "idle" /\ result' = "error")
        BY <1>7 DEF LoadSysctl
    <2>3. CASE DOMAIN sysctl \subseteq KernelKeys
        <3>1. cfg.sysctl \in SysctlMap /\ kernel \in [Keys -> Values]
            BY ConfigType DEF TypeOK
        <3>2. \A k \in DOMAIN cfg.sysctl : kernel'[k] = cfg.sysctl[k]
            BY <1>7, <2>1, <2>3, <3>1, LoadedValues DEF LoadSysctl
        <3> QED
            BY <2>1, <2>2, <2>3, <3>2
    <2>4. CASE ~(DOMAIN sysctl \subseteq KernelKeys)
        BY <1>7, <2>4 DEF LoadSysctl
    <2> QED
        BY <2>3, <2>4
<1>8. CASE SkipResolv
    BY <1>8 DEF SkipResolv, node, files
<1>9. CASE CompareResolv
    BY <1>9 DEF CompareResolv, node, files
<1>10. CASE InstallResolv
    BY <1>10 DEF InstallResolv
<1>11. CASE WriteConfig
    BY <1>11 DEF WriteConfig
<1>12. CASE CommandFails
    BY <1>12 DEF CommandFails
<1>13. CASE Crash
    <2>1. CASE pc = "idle" /\ result = "ok"
        <3>1. pc' = "idle" /\ result' = "ok" /\ cfg' = cfg /\ sysctl' = sysctl
            BY <1>13, <2>1 DEF Crash, Interrupted
        <3>2. ASSUME NEW k \in DOMAIN cfg.sysctl
              PROVE  kernel'[k] = cfg.sysctl[k]
            <4>1. sysctl' = cfg.sysctl /\ cfg.sysctl \in SysctlMap /\ k \in KernelKeys
                BY <2>1, <3>1, ConfigType DEF TypeOK
            <4>2. kernel' = Loaded([i \in Keys |-> Boot], cfg.sysctl)
                BY <1>13, <4>1, NotNull DEF Crash
            <4>3. [i \in Keys |-> Boot] \in [Keys -> Values]
                BY ConstantAssumption
            <4> QED
                BY <4>1, <4>2, <4>3, LoadedValues
        <3> QED
            BY <2>1, <3>1, <3>2
    <2>2. CASE ~(pc = "idle" /\ result = "ok")
        <3>1. pc' = "idle" /\ result' # "ok"
            BY <1>13, <2>2 DEF Crash
        <3> QED
            BY <3>1
    <2> QED
        BY <2>1, <2>2
<1>14. CASE Drift
    BY <1>14 DEF Drift
<1>15. CASE UNCHANGED vars
    BY <1>15 DEF vars, node, files
<1> QED
    BY <1>1, <1>2, <1>3, <1>4, <1>5, <1>6, <1>7, <1>8, <1>9, <1>10, <1>11, <1>12, <1>13, <1>14, <1>15 DEF Next

\* resolv.conf: a call past it has written it, and config.yaml names no other file.
LEMMA DnsStep ==
    ASSUME TypeOK, DnsInv, [Next]_vars
    PROVE  DnsInv'
<1>0. cfg' = cfg /\ upstream' = upstream => WantedResolv' = WantedResolv
    BY DEF WantedResolv
<1> USE DEF DnsInv, Succeeded, Then, Return
<1>1. ASSUME NEW c \in NodeConfigs, Call(c)
      PROVE  DnsInv'
    BY <1>1 DEF Call, node, files
<1>2. CASE SetHostname
    BY <1>2 DEF SetHostname, files
<1>3. CASE WriteHosts
    BY <1>3 DEF WriteHosts
<1>4. CASE RemoveSysctl
    BY <1>4 DEF RemoveSysctl
<1>5. CASE CompareSysctl
    BY <1>5 DEF CompareSysctl, node, files
<1>6. CASE InstallSysctl
    BY <1>6 DEF InstallSysctl
<1>7. CASE LoadSysctl
    BY <1>7 DEF LoadSysctl, files
<1>8. CASE SkipResolv
    BY <1>8 DEF SkipResolv, node, files
<1>9. CASE CompareResolv
    BY <1>0, <1>9 DEF CompareResolv, node, files
<1>10. CASE InstallResolv
    <2>1. WantedResolv.servers # <<>> /\ resolv' = WantedResolv /\ WantedResolv' = WantedResolv
        BY <1>0, <1>10 DEF InstallResolv
    <2>2. Usable(resolv')
        BY <2>1, WantedIsUsable
    <2> QED
        BY <1>10, <2>1, <2>2 DEF InstallResolv
<1>11. CASE WriteConfig
    <2>1. WantedResolv' = WantedResolv /\ resolv' = resolv /\ damaged' = damaged /\ named' = cfg.dns
        BY <1>0, <1>11 DEF WriteConfig
    <2>2. cfg.dns => resolv = WantedResolv /\ Usable(resolv)
        BY <1>11, WantedIsUsable DEF WriteConfig
    <2> QED
        BY <1>11, <2>1, <2>2 DEF WriteConfig
<1>12. CASE CommandFails
    BY <1>12 DEF CommandFails, node, files
<1>13. CASE Crash
    <2>1. pc' = "idle" /\ (result' = "ok" => pc = "idle" /\ result = "ok")
        BY <1>13 DEF Crash
    <2>2. named' = named /\ WantedResolv' = WantedResolv /\ cfg' = cfg
        BY <1>0, <1>13 DEF Crash
    <2>3. pc = "idle" => resolv' = resolv
        BY <1>13 DEF Crash, Interrupted
    <2>4. "resolv" \notin damaged' => "resolv" \notin damaged /\ resolv' = resolv
        BY <1>13 DEF Crash, Interrupted
    <2> QED
        BY <2>1, <2>2, <2>3, <2>4
<1>14. CASE Drift
    <2>1. pc' = "idle" /\ result' = "none" /\ named' = named
        BY <1>14 DEF Drift, files
    <2>2. "resolv" \notin damaged' => "resolv" \notin damaged /\ resolv' = resolv
        BY <1>14 DEF Drift, DriftInHosts, files
    <2> QED
        BY <2>1, <2>2
<1>15. CASE UNCHANGED vars
    BY <1>0, <1>15 DEF vars, node, files
<1> QED
    BY <1>1, <1>2, <1>3, <1>4, <1>5, <1>6, <1>7, <1>8, <1>9, <1>10, <1>11, <1>12, <1>13, <1>14, <1>15 DEF Next

\* /etc/hosts: its shape, and the block of the call once it was written.
LEMMA HostsStep ==
    ASSUME TypeOK, HostsInv, [Next]_vars
    PROVE  HostsInv'
<1> USE DEF HostsInv, HostsDone, Succeeded, Then, Return
<1>1. ASSUME NEW c \in NodeConfigs, Call(c)
      PROVE  HostsInv'
    BY <1>1 DEF Call, node, files
<1>2. CASE SetHostname
    BY <1>2 DEF SetHostname, files
<1>3. CASE WriteHosts
    <2>1. "hosts" \notin damaged => Holds(hosts', cfg.block)
        BY <1>3, ConfigType, WithBlockHolds DEF WriteHosts, TypeOK
    <2>2. "hosts" \notin damaged => Shaped(hosts')
        BY <2>1, ConfigType, HoldsShaped DEF TypeOK
    <2>3. damaged' = damaged /\ cfg' = cfg
        BY <1>3 DEF WriteHosts
    <2> QED
        BY <2>1, <2>2, <2>3
<1>4. CASE RemoveSysctl
    BY <1>4 DEF RemoveSysctl
<1>5. CASE CompareSysctl
    BY <1>5 DEF CompareSysctl, node, files
<1>6. CASE InstallSysctl
    BY <1>6 DEF InstallSysctl
<1>7. CASE LoadSysctl
    BY <1>7 DEF LoadSysctl, files
<1>8. CASE SkipResolv
    BY <1>8 DEF SkipResolv, node, files
<1>9. CASE CompareResolv
    BY <1>9 DEF CompareResolv, node, files
<1>10. CASE InstallResolv
    BY <1>10 DEF InstallResolv
<1>11. CASE WriteConfig
    BY <1>11 DEF WriteConfig
<1>12. CASE CommandFails
    BY <1>12 DEF CommandFails, node, files
<1>13. CASE Crash
    <2>1. pc' = "idle" /\ cfg' = cfg /\ (result' = "ok" => pc = "idle" /\ result = "ok")
        BY <1>13 DEF Crash
    <2>2. "hosts" \notin damaged' => "hosts" \notin damaged /\ hosts' = hosts
        BY <1>13 DEF Crash, Interrupted
    <2> QED
        BY <2>1, <2>2
<1>14. CASE Drift
    <2>1. pc' = "idle" /\ result' = "none"
        BY <1>14 DEF Drift
    <2>2. ASSUME "hosts" \notin damaged'
          PROVE  Shaped(hosts')
        <3>1. "hosts" \notin damaged /\ hosts \in Seq(Line) /\ Shaped(hosts)
            BY <1>14, <2>2 DEF Drift, DriftInHosts, TypeOK
        <3>2. \/ hosts' = hosts
              \/ \E l \in UserLines : hosts' = Append(hosts, l)
              \/ \E i \in 1 .. Len(hosts) : hosts' = RemoveAt(hosts, i) /\ hosts[i] \notin {Start, End}
            BY <1>14, <2>2, <3>1 DEF Drift, DriftInHosts, files
        <3> QED
            BY <3>1, <3>2, ShapedAppend, ShapedRemove
    <2> QED
        BY <2>1, <2>2
<1>15. CASE UNCHANGED vars
    BY <1>15 DEF vars, node, files
<1> QED
    BY <1>1, <1>2, <1>3, <1>4, <1>5, <1>6, <1>7, <1>8, <1>9, <1>10, <1>11, <1>12, <1>13, <1>14, <1>15 DEF Next

LEMMA InvInit == Init => Inv
<1> SUFFICES ASSUME Init
             PROVE  Inv
    OBVIOUS
<1>1. Shaped(hosts)
    <2>1. \A l \in UserLines : <<l>> \in Seq(UserLines)
        OBVIOUS
    <2>2. hosts \in Seq(UserLines)
        BY <2>1 DEF Init
    <2> QED
        BY <2>2 DEF Shaped
<1> QED
    BY <1>1, TypeInit DEF Init, Inv, HostsInv, HostsDone, SysctlInv, SysctlDone, DnsInv, Succeeded

LEMMA InvStep == Inv /\ [Next]_vars => Inv'
BY TypeStep, HostsStep, SysctlStep, DnsStep DEF Inv

LEMMA InvHolds == Spec => []Inv
BY InvInit, InvStep, PTL DEF Spec

-----------------------------------------------------------------------------
(* The theorems *)

\* Every file and value is one the configurations may ask for, or what a crash
\* left of it, and the node always has a name.
THEOREM NodeTypeOK == Spec => []TypeOK
<1>1. Inv => TypeOK
    BY DEF Inv
<1> QED
    BY <1>1, InvHolds, PTL

\* After a successful apply the sysctl file and the values in the kernel are the
\* configured ones, and stay so over a reboot.
THEOREM NodeSysctlApplied == Spec => []SysctlApplied
<1>1. Inv => SysctlApplied
    BY DEF Inv, SysctlInv, SysctlDone, SysctlApplied
<1> QED
    BY <1>1, InvHolds, PTL

\* After a successful apply with a dns block, resolv.conf is the one wanted now
\* and config.yaml names it; without one config.yaml names no file.
THEOREM NodeDnsApplied == Spec => []DnsApplied
<1>1. Inv => DnsApplied
    BY DEF Inv, DnsInv, DnsApplied
<1> QED
    BY <1>1, InvHolds, PTL

\* The file that config.yaml names is there and usable, wherever a call stopped,
\* unless a crash tore it or the administrator removed it since it was installed.
THEOREM NodeResolvInPlace == Spec => []ResolvInPlace
<1>1. Inv => ResolvInPlace
    BY DEF Inv, DnsInv, Usable, ResolvInPlace
<1> QED
    BY <1>1, InvHolds, PTL

\* After a successful apply /etc/hosts has one managed block, the one of this call,
\* unless a crash cut the file short or a marker line was removed.
THEOREM NodeHostsApplied == Spec => []HostsApplied
<1>1. Inv => HostsApplied
    <2> SUFFICES ASSUME Inv, Succeeded, "hosts" \notin damaged
                 PROVE  Selected(hosts, Line \ UserLines) = Managed(cfg.block)
        BY DEF HostsApplied
    <2>1. Holds(hosts, cfg.block) /\ hosts \in Seq(Line) /\ cfg.block \in Blocks
        BY ConfigType DEF Inv, HostsInv, HostsDone, TypeOK
    <2> QED
        BY <2>1, HoldsSelected
<1> QED
    BY <1>1, InvHolds, PTL

\* No command of a call changes the administrator's lines or their order, in a
\* file that neither a crash cut short nor lost a marker line.
THEOREM NodeUserLinesKept == Spec => UserLinesKept
<1> DEFINE Kept == pc # "idle" /\ "hosts" \notin damaged' =>
                      Selected(hosts', UserLines) = Selected(hosts, UserLines)
<1>1. Inv /\ [Next]_vars => [Kept]_vars
    <2> SUFFICES ASSUME Inv, Next, pc # "idle", "hosts" \notin damaged'
                 PROVE  Selected(hosts', UserLines) = Selected(hosts, UserLines)
        OBVIOUS
    <2>1. CASE WriteHosts
        <3>1. Shaped(hosts) /\ hosts \in Seq(Line) /\ cfg.block \in Blocks
            BY <2>1, ConfigType DEF WriteHosts, Inv, HostsInv, TypeOK
        <3> QED
            BY <2>1, <3>1, WithBlockKeepsLines DEF WriteHosts
    <2>2. CASE ~WriteHosts
        <3>1. hosts' = hosts
            BY <2>2 DEF Next, Call, SetHostname, RemoveSysctl, CompareSysctl, InstallSysctl, LoadSysctl,
                        SkipResolv, CompareResolv, InstallResolv, WriteConfig, CommandFails, Crash,
                        Interrupted, Drift, node, files
        <3> QED
            BY <3>1
    <2> QED
        BY <2>1, <2>2
<1> QED
    BY <1>1, InvHolds, PTL DEF Spec, UserLinesKept
===============================================================================
