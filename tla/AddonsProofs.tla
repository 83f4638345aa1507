------------------------------ MODULE AddonsProofs ------------------------------
(***************************************************************************)
(* Proofs about the command lines of the addons, for every configuration,    *)
(* any number of storage classes and calls, and every failure.               *)
(*                                                                         *)
(* One argument is used throughout: a command that a line still has to run,  *)
(* with nothing after it that could mend a failure, is either run with        *)
(* success or keeps the call from succeeding.                                *)
(***************************************************************************)
EXTENDS Addons, DataLemmas, SequenceTheorems, FiniteSetTheorems

\* The commands of an apply of c.
CommandsOf(c) ==
    {And("helm", None), And("update", None), And("controller", None), And("rollout", None), OrTrue}
    \cup {And(name, chart) : name \in {"add", "upgrade"}, chart \in Charts}
    \cup {And("manifest", m) : m \in Range(Manifests)}
    \cup {And(name, k) : name \in {"upload", "apply", "remove"}, k \in DOMAIN ClassesOf(c)}

\* From x on, every command of the line waits for the success of the one before.
EndsWith(line, x) ==
    \E j \in DOMAIN line : line[j] = x /\ \A m \in j .. Len(line) : line[m].op = "and"
AllAnd(line) == \A m \in DOMAIN line : line[m].op = "and"

Ends(lines, x) == \E i \in DOMAIN lines : EndsWith(lines[i], x)

\* x has yet to succeed, or the line has failed for good.
Pending(x) ==
    \/ Ends(todo, x)
    \/ EndsWith(chain, x)
    \/ ~status /\ AllAnd(chain)

Gone(x) == x \notin Range(chain) /\ \A i \in DOMAIN todo : x \notin Range(todo[i])

\* In a line each manifest of a class is applied and then removed, once.
Paired(line) ==
    /\ \A j \in DOMAIN line : line[j].name = "apply" =>
          j + 1 \in DOMAIN line /\ line[j + 1] = And("remove", line[j].arg)
    /\ \A j \in DOMAIN line : line[j].name = "remove" /\ j > 1 =>
          line[j - 1] = And("apply", line[j].arg)
    /\ \A i, j \in DOMAIN line : line[i].name = "remove" /\ line[i] = line[j] => i = j
    /\ \A j \in DOMAIN line : line[j].name \in {"apply", "remove"} =>
          \A m \in j .. Len(line) : line[m].op = "and"

\* What only the last line of Longhorn has, and what it does not have.
Final(line) == \E j \in DOMAIN line : line[j] = And("upgrade", "longhorn") \/ line[j].name \in {"apply", "remove"}
Late(line) == \A j \in DOMAIN line : line[j].name \notin {"controller", "upload"}

LineOK(c, line) ==
    line \in Seq(CommandsOf(c)) /\ Paired(line) /\ (Final(line) => c.enabled /\ Late(line))

LinesInv ==
    /\ todo \in Seq(Seq(CommandsOf(cfg))) /\ \A i \in DOMAIN todo : LineOK(cfg, todo[i])
    /\ LineOK(cfg, chain)
    /\ \A i \in DOMAIN todo : Final(todo[i]) => i = Len(todo)
    /\ Final(chain) => todo = <<>>

Running == pc # "idle"

\* Once config.yaml is written it is the one of this call, and K3s runs with it
\* unless it was behind when the call began.
K3sInv ==
    /\ pc = "config" => behind = (active /\ k3sFile = Content(cfg) /\ loaded # k3sFile)
    /\ pc = "start" => k3sFile = Content(cfg) /\ (behind \/ (active /\ same => loaded = k3sFile))
    /\ pc = "run" \/ Succeeded => behind \/ loaded = Content(cfg)

\* Either it is still to be done in this call, or it is done.
TraefikInv ==
    cfg.mode = "install" =>
        /\ Running => Pending(And("upgrade", "traefik")) \/ InPlace(releases["traefik"], cfg.traefik)
        /\ Succeeded => InPlace(releases["traefik"], cfg.traefik)

SnapshotsInv ==
    Running /\ cfg.enabled => Pending(And("controller", None)) \/ snapshots = Range(Manifests)

NameOf(k) == ClassesOf(cfg)[k].name
NamesDiffer == \A k, l \in DOMAIN ClassesOf(cfg) : k # l => NameOf(k) # NameOf(l)
NoUploads == \A k \in DOMAIN ClassesOf(cfg) : Gone(And("upload", k))

\* The manifest of a class is gone once it was removed: of two classes with one
\* name at most one is applied.
RemovedInv ==
    Running /\ cfg.enabled => \A k \in DOMAIN ClassesOf(cfg) :
        Pending(And("remove", k)) \/ (files[NameOf(k)] = None /\ NoUploads)
OneOfTwoInv ==
    Running /\ cfg.enabled => \A k, l \in DOMAIN ClassesOf(cfg) :
        k # l /\ NameOf(k) = NameOf(l) => Pending(And("apply", k)) \/ Pending(And("apply", l))

\* The manifest is there when it is applied, and what was applied stays.
UploadedInv ==
    Running /\ cfg.enabled /\ NamesDiffer => \A k \in DOMAIN ClassesOf(cfg) :
        Pending(And("upload", k)) \/ files[NameOf(k)] = ClassesOf(cfg)[k] \/ Gone(And("apply", k))
AppliedInv ==
    /\ Running /\ cfg.enabled /\ NamesDiffer => \A k \in DOMAIN ClassesOf(cfg) :
          Pending(And("apply", k)) \/ classes[NameOf(k)] = ClassesOf(cfg)[k]
    /\ Succeeded /\ cfg.enabled => \A k \in DOMAIN ClassesOf(cfg) : classes[NameOf(k)] = ClassesOf(cfg)[k]

Inv ==
    /\ TypeOK /\ LinesInv
    /\ K3sInv /\ TraefikInv /\ SnapshotsInv
    /\ RemovedInv /\ OneOfTwoInv /\ UploadedInv /\ AppliedInv

-----------------------------------------------------------------------------
(* Commands and lines *)

LEMMA ConfigType ==
    ASSUME NEW c \in AddonConfigs
    PROVE  /\ c.disable \in BOOLEAN /\ c.mode \in {"default", "disabled", "install"}
           /\ c.traefik \in Chart /\ c.enabled \in BOOLEAN /\ c.longhorn \in Chart
           /\ c.classes \in ClassMap
BY ConfigAssumption

LEMMA ContentType ==
    ASSUME NEW c \in AddonConfigs
    PROVE  Content(c) \in K3sConfig /\ Content(c) # None
<1>1. c.settings \in Settings /\ DisableTraefik(c) \in BOOLEAN
    BY ConfigAssumption, ConfigType DEF DisableTraefik
<1>2. Content(c) \in K3sConfig
    BY <1>1 DEF Content, K3sConfig
<1> QED
    BY <1>2, ConstantAssumption

LEMMA ClassType ==
    ASSUME NEW c \in AddonConfigs
    PROVE  /\ IsFiniteSet(DOMAIN ClassesOf(c)) /\ DOMAIN ClassesOf(c) \subseteq ClassKeys
           /\ \A k \in DOMAIN ClassesOf(c) : ClassesOf(c)[k] \in Class
<1>1. ClassesOf(c) \in ClassMap /\ IsFiniteSet(DOMAIN ClassesOf(c))
    BY ConfigType, ConstantAssumption, FiniteAssumption DEF ClassesOf
<1> QED
    BY <1>1 DEF ClassMap

LEMMA CommandIs ==
    ASSUME NEW c \in AddonConfigs, NEW x \in CommandsOf(c)
    PROVE  /\ x \in Command
           /\ x.name \in {"add", "upgrade"} => x.arg \in Charts
           /\ x.name = "manifest" => x.arg \in Range(Manifests)
           /\ x.name \in {"upload", "apply", "remove"} => x.arg \in DOMAIN ClassesOf(c)
           /\ x.name # "true" => x = And(x.name, x.arg)
           /\ x.op = "and" \/ x = OrTrue
<1>1. DOMAIN ClassesOf(c) \subseteq ClassKeys
    BY ClassType
<1> QED
    BY <1>1 DEF CommandsOf, Command, And, OrTrue

LEMMA TailFacts ==
    ASSUME NEW S, NEW s \in Seq(S), s # <<>>
    PROVE  /\ Tail(s) \in Seq(S) /\ Len(s) \in Nat /\ Len(s) >= 1 /\ Len(Tail(s)) = Len(s) - 1
           /\ DOMAIN s = 1 .. Len(s) /\ DOMAIN Tail(s) = 1 .. Len(s) - 1
           /\ Head(s) = s[1] /\ Head(s) \in S
           /\ \A j \in 1 .. Len(s) - 1 : Tail(s)[j] = s[j + 1]
OBVIOUS

LEMMA EndsWithTail ==
    ASSUME NEW S, NEW s \in Seq(S), s # <<>>, NEW x, EndsWith(s, x)
    PROVE  EndsWith(Tail(s), x) \/ (Head(s) = x /\ AllAnd(Tail(s)))
<1> DEFINE t == Tail(s)
<1>1. /\ t \in Seq(S) /\ Len(s) \in Nat /\ Len(s) >= 1 /\ Len(t) = Len(s) - 1
      /\ DOMAIN s = 1 .. Len(s) /\ DOMAIN t = 1 .. Len(s) - 1 /\ Head(s) = s[1]
      /\ \A j \in 1 .. Len(s) - 1 : t[j] = s[j + 1]
    BY TailFacts
<1> HIDE DEF t
<1>2. PICK j \in 1 .. Len(s) : s[j] = x /\ \A m \in j .. Len(s) : s[m].op = "and"
    BY <1>1 DEF EndsWith
<1>3. \A m \in 1 .. Len(s) - 1 : j <= m + 1 => t[m].op = "and"
    BY <1>1, <1>2
<1>4. CASE j = 1
    BY <1>1, <1>2, <1>3, <1>4 DEF AllAnd, t
<1>5. CASE j > 1
    <2>1. j - 1 \in 1 .. Len(s) - 1 /\ t[j - 1] = x
        BY <1>1, <1>2, <1>5
    <2>2. \A m \in j - 1 .. Len(t) : t[m].op = "and"
        BY <1>1, <1>3, <1>5
    <2> QED
        BY <1>1, <2>1, <2>2 DEF EndsWith, t
<1> QED
    BY <1>4, <1>5

LEMMA AllAndTail ==
    ASSUME NEW S, NEW s \in Seq(S), s # <<>>, AllAnd(s)
    PROVE  Head(s).op = "and" /\ AllAnd(Tail(s))
<1> DEFINE t == Tail(s)
<1>1. /\ Len(s) \in Nat /\ Len(s) >= 1 /\ DOMAIN s = 1 .. Len(s) /\ DOMAIN t = 1 .. Len(s) - 1
      /\ Head(s) = s[1] /\ \A j \in 1 .. Len(s) - 1 : t[j] = s[j + 1]
    BY TailFacts
<1> HIDE DEF t
<1> QED
    BY <1>1 DEF AllAnd, t

LEMMA LineTail ==
    ASSUME NEW c, NEW s, LineOK(c, s), s # <<>>
    PROVE  LineOK(c, Tail(s)) /\ (Final(Tail(s)) => Final(s))
<1> DEFINE t == Tail(s)
<1>1. /\ t \in Seq(CommandsOf(c)) /\ Len(s) \in Nat /\ Len(s) >= 1 /\ Len(t) = Len(s) - 1
      /\ DOMAIN s = 1 .. Len(s) /\ DOMAIN t = 1 .. Len(s) - 1
      /\ \A j \in 1 .. Len(s) - 1 : t[j] = s[j + 1] /\ j + 1 \in 1 .. Len(s)
    BY TailFacts DEF LineOK
<1> HIDE DEF t
<1>2. Final(t) => Final(s)
    BY <1>1 DEF Final
<1>3. Late(s) => Late(t)
    BY <1>1 DEF Late
<1>4. ASSUME NEW j \in DOMAIN t, t[j].name = "apply"
      PROVE  j + 1 \in DOMAIN t /\ t[j + 1] = And("remove", t[j].arg)
    <2>1. (j + 1) + 1 \in DOMAIN s /\ s[(j + 1) + 1] = And("remove", s[j + 1].arg)
        BY <1>1, <1>4 DEF LineOK, Paired
    <2>2. j + 1 \in 1 .. Len(s) - 1
        BY <1>1, <2>1
    <2> QED
        BY <1>1, <2>1, <2>2
<1>5. ASSUME NEW j \in DOMAIN t, t[j].name = "remove", j > 1
      PROVE  t[j - 1] = And("apply", t[j].arg)
    <2>1. j + 1 > 1 /\ j - 1 \in 1 .. Len(s) - 1 /\ (j + 1) - 1 = j /\ (j - 1) + 1 = j
        BY <1>1, <1>5
    <2>2. s[(j + 1) - 1] = And("apply", s[j + 1].arg)
        BY <1>1, <1>5, <2>1 DEF LineOK, Paired
    <2> QED
        BY <1>1, <2>1, <2>2
<1>6. ASSUME NEW i \in DOMAIN t, NEW j \in DOMAIN t, t[i].name = "remove", t[i] = t[j]
      PROVE  i = j
    <2>0. /\ i + 1 \in DOMAIN s /\ j + 1 \in DOMAIN s
          /\ s[i + 1].name = "remove" /\ s[i + 1] = s[j + 1]
        BY <1>1, <1>6
    <2>1. i + 1 = j + 1
        BY <2>0, Zenon DEF LineOK, Paired
    <2> QED
        BY <1>1, <2>1
<1>7. ASSUME NEW j \in DOMAIN t, t[j].name \in {"apply", "remove"}, NEW m \in j .. Len(t)
      PROVE  t[m].op = "and"
    <2>1. m \in 1 .. Len(s) - 1 /\ m + 1 \in j + 1 .. Len(s)
        BY <1>1
    <2>2. s[m + 1].op = "and"
        BY <1>1, <1>7, <2>1 DEF LineOK, Paired
    <2> QED
        BY <1>1, <2>1, <2>2
<1>8. Paired(t)
    BY <1>4, <1>5, <1>6, <1>7 DEF Paired
<1> QED
    BY <1>1, <1>2, <1>3, <1>8 DEF LineOK, t

-----------------------------------------------------------------------------
(* The lines of a call *)

LEMMA OrderIs ==
    ASSUME NEW c \in AddonConfigs, NEW order \in SetToSeqs(DOMAIN ClassesOf(c))
    PROVE  /\ order \in Seq(DOMAIN ClassesOf(c)) /\ DOMAIN order = 1 .. Len(order)
           /\ \A i, j \in DOMAIN order : order[i] = order[j] => i = j
           /\ \A k \in DOMAIN ClassesOf(c) : \E i \in DOMAIN order : order[i] = k
<1> DEFINE S == DOMAIN ClassesOf(c)
           n == Cardinality(S)
<1>1. IsFiniteSet(S) /\ n \in Nat
    BY ClassType, FS_CardinalityType
<1>2. order \in [1 .. n -> S] /\ \A i, j \in 1 .. n : i # j => order[i] # order[j]
    BY DEF SetToSeqs
<1> HIDE DEF S
<1>3. IsFiniteSet(1 .. n) /\ Cardinality(1 .. n) = n
    <2>1. \A b \in Nat : IsFiniteSet(1 .. b) /\ Cardinality(1 .. b) = b
        BY FS_Interval
    <2> HIDE DEF n
    <2> QED
        BY <1>1, <2>1, Zenon
<1>4. order \in Injection(1 .. n, S)
    BY <1>2 DEF Injection, IsInjective
<1>5. order \in Surjection(1 .. n, S)
    <2>1. Cardinality(1 .. n) = Cardinality(S)
        BY <1>3 DEF n
    <2> QED
        BY <1>1, <1>4, <2>1, FS_Injection
<1>6. \A k \in S : \E i \in 1 .. n : order[i] = k
    BY <1>5 DEF Surjection
<1> HIDE DEF n
<1>7. order \in Seq(S) /\ DOMAIN order = 1 .. n /\ Len(order) = n
    BY <1>1, <1>2
<1> QED
    BY <1>2, <1>6, <1>7 DEF S

\* Lines that come before the last one of Longhorn.
EarlyLine(c) == {line \in Seq(CommandsOf(c)) : ~Final(line)}

LEMMA EarlyIs ==
    ASSUME NEW c \in AddonConfigs, NEW line \in Seq(CommandsOf(c)),
           \A j \in 1 .. Len(line) : line[j].name \notin {"apply", "remove"} /\ line[j] # And("upgrade", "longhorn")
    PROVE  line \in EarlyLine(c) /\ LineOK(c, line)
<1>1. ~Final(line)
    BY DEF Final
<1>2. Paired(line)
    BY DEF Paired
<1> QED
    BY <1>1, <1>2 DEF LineOK, EarlyLine

LEMMA EarlyOK ==
    ASSUME NEW c \in AddonConfigs, NEW line \in EarlyLine(c)
    PROVE  LineOK(c, line) /\ ~Final(line)
BY DEF EarlyLine, LineOK, Paired, Final

LEMMA SomeCommands ==
    ASSUME NEW c \in AddonConfigs
    PROVE  /\ And("helm", None) \in CommandsOf(c)
           /\ And("update", None) \in CommandsOf(c) /\ And("controller", None) \in CommandsOf(c)
           /\ And("rollout", None) \in CommandsOf(c) /\ OrTrue \in CommandsOf(c)
           /\ \A chart \in Charts : And("add", chart) \in CommandsOf(c) /\ And("upgrade", chart) \in CommandsOf(c)
           /\ \A m \in Range(Manifests) : And("manifest", m) \in CommandsOf(c)
           /\ \A k \in DOMAIN ClassesOf(c) : And("upload", k) \in CommandsOf(c)
                  /\ And("apply", k) \in CommandsOf(c) /\ And("remove", k) \in CommandsOf(c)
BY DEF CommandsOf

LEMMA OneCommand ==
    ASSUME NEW c \in AddonConfigs, NEW x \in CommandsOf(c), x.op = "and",
           x.name \notin {"apply", "remove"}, x # And("upgrade", "longhorn")
    PROVE  <<x>> \in EarlyLine(c) /\ EndsWith(<<x>>, x)
<1> DEFINE line == <<x>>
<1>1. line \in Seq(CommandsOf(c)) /\ Len(line) = 1 /\ line[1] = x /\ DOMAIN line = 1 .. 1
    OBVIOUS
<1> HIDE DEF line
<1>2. line \in EarlyLine(c)
    BY <1>1, EarlyIs
<1>3. EndsWith(line, x)
    BY <1>1 DEF EndsWith
<1> QED
    BY <1>2, <1>3 DEF line

LEMMA TraefikLine ==
    ASSUME NEW c \in AddonConfigs
    PROVE  /\ InstallChart("traefik") \in EarlyLine(c)
           /\ EndsWith(InstallChart("traefik"), And("upgrade", "traefik"))
<1> DEFINE line == InstallChart("traefik")
<1>1. /\ line \in Seq(CommandsOf(c)) /\ Len(line) = 4 /\ DOMAIN line = 1 .. 4
      /\ line[1] = And("add", "traefik") /\ line[2] = OrTrue
      /\ line[3] = And("update", None) /\ line[4] = And("upgrade", "traefik")
    BY SomeCommands DEF InstallChart, Charts
<1> HIDE DEF line
<1>2. \A j \in 1 .. 4 : line[j].name \notin {"apply", "remove"} /\ line[j] # And("upgrade", "longhorn")
    BY <1>1 DEF And, OrTrue
<1>3. line \in EarlyLine(c)
    BY <1>1, <1>2, EarlyIs
<1>4. EndsWith(line, And("upgrade", "traefik"))
    BY <1>1 DEF EndsWith, And
<1> QED
    BY <1>3, <1>4 DEF line

LEMMA SnapshotLineIs ==
    ASSUME NEW c \in AddonConfigs
    PROVE  SnapshotLine \in EarlyLine(c) /\ EndsWith(SnapshotLine, And("controller", None))
<1> DEFINE n == Len(Manifests)
           front == [i \in 1 .. n |-> And("manifest", Manifests[i])]
           line == front \o <<And("controller", None)>>
<1>1. n \in Nat /\ DOMAIN Manifests = 1 .. n /\ \A i \in 1 .. n : Manifests[i] \in Range(Manifests)
    BY ConstantAssumption DEF Range
<1>2. front \in Seq(CommandsOf(c)) /\ Len(front) = n /\ \A i \in 1 .. n : front[i] = And("manifest", Manifests[i])
    BY <1>1, SomeCommands
<1>3. SnapshotLine = line
    BY <1>1 DEF SnapshotLine
<1> HIDE DEF front, n
<1>4. /\ line \in Seq(CommandsOf(c)) /\ Len(line) = n + 1 /\ DOMAIN line = 1 .. n + 1
      /\ line[n + 1] = And("controller", None)
      /\ \A i \in 1 .. n : line[i] = And("manifest", Manifests[i])
    BY <1>1, <1>2, SomeCommands
<1> HIDE DEF line
<1>5. \A j \in 1 .. n + 1 : line[j].name \notin {"apply", "remove"} /\ line[j] # And("upgrade", "longhorn")
    <2>1. ASSUME NEW j \in 1 .. n + 1
          PROVE  line[j].name \in {"controller", "manifest"}
        <3>1. j = n + 1 \/ j \in 1 .. n
            BY <1>1
        <3>2. CASE j = n + 1
            BY <1>4, <3>2 DEF And
        <3>3. CASE j \in 1 .. n
            <4>1. line[j] = And("manifest", Manifests[j])
                BY <1>4, <3>3, Zenon
            <4> QED
                BY <4>1 DEF And
        <3> QED
            BY <3>1, <3>2, <3>3
    <2> QED
        BY <2>1 DEF And
<1>6. line \in EarlyLine(c)
    BY <1>4, <1>5, EarlyIs
<1>7. EndsWith(line, And("controller", None))
    BY <1>1, <1>4 DEF EndsWith, And
<1> QED
    BY <1>3, <1>6, <1>7

\* The last line of Longhorn: its chart, then each class applied and removed.
LonghornLine(order) == InstallChart("longhorn") \o <<And("rollout", None), OrTrue>> \o ApplyClasses(order)

LEMMA ClassCommands ==
    ASSUME NEW c \in AddonConfigs, NEW order \in SetToSeqs(DOMAIN ClassesOf(c))
    PROVE  LET n == Len(order)
               body == ApplyClasses(order)
           IN  /\ body \in Seq(CommandsOf(c)) /\ Len(body) = 2 * n /\ n \in Nat
               /\ \A i \in 1 .. n : body[2 * i - 1] = And("apply", order[i]) /\ body[2 * i] = And("remove", order[i])
               /\ \A j \in 1 .. 2 * n : \E i \in 1 .. n : j = 2 * i - 1 \/ j = 2 * i
<1> DEFINE n == Len(order)
           body == ApplyClasses(order)
<1>1. n \in Nat /\ \A i \in 1 .. n : order[i] \in DOMAIN ClassesOf(c)
    BY OrderIs
<1>2. ASSUME NEW j \in 1 .. 2 * n
      PROVE  \E i \in 1 .. n : ((j = 2 * i - 1 /\ j % 2 = 1) \/ (j = 2 * i /\ j % 2 = 0)) /\ (j + 1) \div 2 = i
    <2> HIDE DEF n
    <2>1. (j + 1) \div 2 \in 1 .. n
        BY <1>1
    <2>2. (j = 2 * ((j + 1) \div 2) - 1 /\ j % 2 = 1) \/ (j = 2 * ((j + 1) \div 2) /\ j % 2 = 0)
        BY <1>1
    <2> QED
        BY <2>1, <2>2
<1>3. ASSUME NEW j \in 1 .. 2 * n
      PROVE  body[j] \in CommandsOf(c) /\ body[j] = And(IF j % 2 = 0 THEN "remove" ELSE "apply", order[(j + 1) \div 2])
    <2>1. order[(j + 1) \div 2] \in DOMAIN ClassesOf(c)
        BY <1>1, <1>2
    <2>2. body[j] = And(IF j % 2 = 0 THEN "remove" ELSE "apply", order[(j + 1) \div 2])
        BY DEF ApplyClasses
    <2> QED
        BY <2>1, <2>2, SomeCommands
<1>4. body \in Seq(CommandsOf(c)) /\ Len(body) = 2 * n
    <2>1. body = [j \in 1 .. 2 * n |-> body[j]] /\ 2 * n \in Nat
        BY <1>1 DEF ApplyClasses
    <2> HIDE DEF body, n
    <2>2. PICK k \in Nat : k = 2 * n
        BY <2>1
    <2>3. body \in [1 .. k -> CommandsOf(c)]
        BY <1>3, <2>1, <2>2
    <2>4. body \in Seq(CommandsOf(c)) /\ Len(body) = k
        BY <2>3
    <2> QED
        BY <2>2, <2>4
<1> HIDE DEF body
<1>5. ASSUME NEW i \in 1 .. n
      PROVE  body[2 * i - 1] = And("apply", order[i]) /\ body[2 * i] = And("remove", order[i])
    <2> HIDE DEF n
    <2>1. 2 * i - 1 \in 1 .. 2 * n /\ 2 * i \in 1 .. 2 * n
        BY <1>1
    <2>2. (2 * i - 1) % 2 = 1 /\ (2 * i) % 2 = 0 /\ ((2 * i - 1) + 1) \div 2 = i /\ (2 * i + 1) \div 2 = i
        BY <1>1
    <2> QED
        BY <1>3, <2>1, <2>2
<1>6. \A j \in 1 .. 2 * n : \E i \in 1 .. n : j = 2 * i - 1 \/ j = 2 * i
    BY <1>2
<1> QED
    BY <1>1, <1>4, <1>5, <1>6 DEF body

LEMMA LonghornLineIs ==
    ASSUME NEW c \in AddonConfigs, c.enabled, NEW order \in SetToSeqs(DOMAIN ClassesOf(c))
    PROVE  LET line == LonghornLine(order)
           IN  /\ LineOK(c, line)
               /\ \A k \in DOMAIN ClassesOf(c) :
                      EndsWith(line, And("apply", k)) /\ EndsWith(line, And("remove", k))
<1> DEFINE n == Len(order)
           body == ApplyClasses(order)
           front == InstallChart("longhorn") \o <<And("rollout", None), OrTrue>>
           line == LonghornLine(order)
<1>1. /\ body \in Seq(CommandsOf(c)) /\ Len(body) = 2 * n /\ n \in Nat
      /\ \A i \in 1 .. n : body[2 * i - 1] = And("apply", order[i]) /\ body[2 * i] = And("remove", order[i])
      /\ \A j \in 1 .. 2 * n : \E i \in 1 .. n : j = 2 * i - 1 \/ j = 2 * i
    BY ClassCommands, Zenon
<1>2. /\ front \in Seq(CommandsOf(c)) /\ Len(front) = 6
      /\ front[1] = And("add", "longhorn") /\ front[2] = OrTrue /\ front[3] = And("update", None)
      /\ front[4] = And("upgrade", "longhorn") /\ front[5] = And("rollout", None) /\ front[6] = OrTrue
    BY SomeCommands DEF InstallChart, Charts
<1>3. line = front \o body
    BY DEF LonghornLine
<1>4. /\ \A i, j \in DOMAIN order : order[i] = order[j] => i = j
      /\ \A k \in DOMAIN ClassesOf(c) : \E i \in 1 .. n : order[i] = k
      /\ DOMAIN order = 1 .. n
    BY OrderIs
<1> HIDE DEF front, body, line, n
<1>5. /\ line \in Seq(CommandsOf(c)) /\ Len(line) = 6 + 2 * n /\ DOMAIN line = 1 .. 6 + 2 * n
      /\ \A j \in 1 .. 6 : line[j] = front[j]
      /\ \A j \in 1 .. 2 * n : line[6 + j] = body[j]
    <2>1. \A a, b \in Seq(CommandsOf(c)) :
              /\ a \o b \in Seq(CommandsOf(c)) /\ Len(a \o b) = Len(a) + Len(b)
              /\ \A i \in 1 .. Len(a) : (a \o b)[i] = a[i]
              /\ \A i \in 1 .. Len(b) : (a \o b)[Len(a) + i] = b[i]
        BY Glued
    <2>2. /\ line \in Seq(CommandsOf(c)) /\ Len(line) = Len(front) + Len(body)
          /\ \A i \in 1 .. Len(front) : line[i] = front[i]
          /\ \A i \in 1 .. Len(body) : line[Len(front) + i] = body[i]
        <3>1. front \in Seq(CommandsOf(c)) /\ body \in Seq(CommandsOf(c))
            BY <1>1, <1>2, Zenon
        <3> QED
            BY <1>3, <2>1, <3>1, Zenon
    <2>3. DOMAIN line = 1 .. Len(line)
        BY <2>2
    <2> QED
        BY <1>1, <1>2, <2>2, <2>3
<1>6. \A j \in 1 .. 6 : line[j].name \in {"add", "true", "update", "upgrade", "rollout"}
    <2>1. \A j \in 1 .. 6 : front[j].name \in {"add", "true", "update", "upgrade", "rollout"}
        BY <1>2 DEF And, OrTrue
    <2> QED
        BY <1>5, <2>1
<1>7. ASSUME NEW i \in 1 .. n
      PROVE  /\ 2 * i + 5 \in DOMAIN line /\ 2 * i + 6 \in DOMAIN line
             /\ line[2 * i + 5] = And("apply", order[i]) /\ line[2 * i + 6] = And("remove", order[i])
    <2>1. /\ 2 * i - 1 \in 1 .. 2 * n /\ 2 * i \in 1 .. 2 * n
          /\ 6 + (2 * i - 1) = 2 * i + 5 /\ 6 + 2 * i = 2 * i + 6
        BY <1>1
    <2>2. 2 * i + 5 \in DOMAIN line /\ 2 * i + 6 \in DOMAIN line
        BY <1>1, <1>5
    <2> QED
        BY <1>1, <1>5, <2>1, <2>2
<1>8. ASSUME NEW j \in DOMAIN line
      PROVE  j \in 1 .. 6 \/ \E i \in 1 .. n : j = 2 * i + 5 \/ j = 2 * i + 6
    <2>1. j \in 1 .. 6 \/ j - 6 \in 1 .. 2 * n
        BY <1>1, <1>5
    <2>2. CASE j - 6 \in 1 .. 2 * n
        <3>1. PICK i \in 1 .. n : j - 6 = 2 * i - 1 \/ j - 6 = 2 * i
            BY <1>1, <2>2
        <3>2. \A a, b \in Nat : (a - 6 = 2 * b - 1 => a = 2 * b + 5) /\ (a - 6 = 2 * b => a = 2 * b + 6)
            OBVIOUS
        <3>3. j \in Nat /\ i \in Nat
            BY <1>1, <1>5
        <3> QED
            BY <3>1, <3>2, <3>3
    <2> QED
        BY <2>1, <2>2
<1>9. ASSUME NEW j \in DOMAIN line, line[j].name = "apply"
      PROVE  \E i \in 1 .. n : j = 2 * i + 5 /\ line[j] = And("apply", order[i])
    <2>1. PICK i \in 1 .. n : j = 2 * i + 5 \/ j = 2 * i + 6
        BY <1>6, <1>8, <1>9
    <2>2. line[2 * i + 6].name = "remove"
        <3>1. line[2 * i + 6] = And("remove", order[i])
            BY <1>7, Zenon
        <3> QED
            BY <3>1 DEF And
    <2> QED
        BY <1>7, <1>9, <2>1, <2>2
<1>10. ASSUME NEW j \in DOMAIN line, line[j].name = "remove"
       PROVE  \E i \in 1 .. n : j = 2 * i + 6 /\ line[j] = And("remove", order[i])
    <2>1. PICK i \in 1 .. n : j = 2 * i + 5 \/ j = 2 * i + 6
        BY <1>6, <1>8, <1>10
    <2>2. line[2 * i + 5].name = "apply"
        <3>1. line[2 * i + 5] = And("apply", order[i])
            BY <1>7, Zenon
        <3> QED
            BY <3>1 DEF And
    <2> QED
        BY <1>7, <1>10, <2>1, <2>2
<1>11. ASSUME NEW m \in DOMAIN line, m > 6
       PROVE  line[m].op = "and"
    <2>1. PICK i \in 1 .. n : m = 2 * i + 5 \/ m = 2 * i + 6
        <3>1. ~(m \in 1 .. 6)
            BY <1>5, <1>11
        <3> QED
            BY <1>8, <3>1
    <2>2. line[m] = And("apply", order[i]) \/ line[m] = And("remove", order[i])
        BY <1>7, <2>1, Zenon
    <2> QED
        BY <2>2 DEF And
<1>12. Paired(line)
    <2>1. ASSUME NEW j \in DOMAIN line, line[j].name = "apply"
          PROVE  j + 1 \in DOMAIN line /\ line[j + 1] = And("remove", line[j].arg)
        <3>1. PICK i \in 1 .. n : j = 2 * i + 5 /\ line[j] = And("apply", order[i])
            BY <1>9, <2>1
        <3>2. j + 1 = 2 * i + 6 /\ line[j].arg = order[i]
            BY <1>1, <3>1 DEF And
        <3> QED
            BY <1>7, <3>2
    <2>2. ASSUME NEW j \in DOMAIN line, line[j].name = "remove"
          PROVE  line[j - 1] = And("apply", line[j].arg)
        <3>1. PICK i \in 1 .. n : j = 2 * i + 6 /\ line[j] = And("remove", order[i])
            BY <1>10, <2>2
        <3>2. j - 1 = 2 * i + 5 /\ line[j].arg = order[i]
            BY <1>1, <3>1 DEF And
        <3> QED
            BY <1>7, <3>2
    <2>3. ASSUME NEW j \in DOMAIN line, NEW m \in DOMAIN line, line[j].name = "remove", line[j] = line[m]
          PROVE  j = m
        <3>1. PICK i \in 1 .. n : j = 2 * i + 6 /\ line[j] = And("remove", order[i])
            BY <1>10, <2>3
        <3>2. PICK h \in 1 .. n : m = 2 * h + 6 /\ line[m] = And("remove", order[h])
            BY <1>10, <2>3
        <3>3. order[i] = order[h]
            BY <2>3, <3>1, <3>2 DEF And
        <3>4. i = h
            BY <1>4, <3>3
        <3> QED
            BY <3>1, <3>2, <3>4
    <2>4. ASSUME NEW j \in DOMAIN line, line[j].name \in {"apply", "remove"}, NEW m \in j .. Len(line)
          PROVE  line[m].op = "and"
        <3>1. PICK i \in 1 .. n : j = 2 * i + 5 \/ j = 2 * i + 6
            BY <1>9, <1>10, <2>4
        <3>2. m \in DOMAIN line /\ m > 6
            BY <1>1, <1>5, <3>1
        <3> QED
            BY <1>11, <3>2
    <2> QED
        BY <2>1, <2>2, <2>3, <2>4 DEF Paired
<1>13. Late(line)
    <2>1. ASSUME NEW j \in DOMAIN line
          PROVE  line[j].name \notin {"controller", "upload"}
        <3>1. CASE j \in 1 .. 6
            BY <1>6, <3>1
        <3>2. ASSUME NEW i \in 1 .. n, j = 2 * i + 5 \/ j = 2 * i + 6
              PROVE  line[j].name \notin {"controller", "upload"}
            <4>1. line[j] = And("apply", order[i]) \/ line[j] = And("remove", order[i])
                BY <1>7, <3>2, Zenon
            <4> QED
                BY <4>1 DEF And
        <3> QED
            BY <1>8, <3>1, <3>2
    <2> QED
        BY <2>1 DEF Late
<1>14. ASSUME NEW k \in DOMAIN ClassesOf(c)
       PROVE  EndsWith(line, And("apply", k)) /\ EndsWith(line, And("remove", k))
    <2>1. PICK i \in 1 .. n : order[i] = k
        BY <1>4
    <2>2. /\ 2 * i + 5 \in DOMAIN line /\ line[2 * i + 5] = And("apply", k)
          /\ 2 * i + 6 \in DOMAIN line /\ line[2 * i + 6] = And("remove", k)
        BY <1>7, <2>1
    <2>3. \A m \in 2 * i + 5 .. Len(line) : m \in DOMAIN line /\ m > 6
        BY <1>1, <1>5
    <2>4. \A m \in 2 * i + 6 .. Len(line) : m \in DOMAIN line /\ m > 6
        BY <1>1, <1>5
    <2> QED
        BY <1>11, <2>2, <2>3, <2>4 DEF EndsWith
<1> QED
    BY <1>5, <1>12, <1>13, <1>14 DEF LineOK, line

LEMMA EndsConcat ==
    ASSUME NEW S, NEW u \in Seq(S), NEW v \in Seq(S), NEW x, Ends(u, x) \/ Ends(v, x)
    PROVE  Ends(u \o v, x)
<1>1. /\ DOMAIN u = 1 .. Len(u) /\ DOMAIN v = 1 .. Len(v) /\ DOMAIN (u \o v) = 1 .. Len(u) + Len(v)
      /\ \A i \in 1 .. Len(u) : i \in 1 .. Len(u) + Len(v) /\ (u \o v)[i] = u[i]
      /\ \A i \in 1 .. Len(v) : Len(u) + i \in 1 .. Len(u) + Len(v) /\ (u \o v)[Len(u) + i] = v[i]
    OBVIOUS
<1> DEFINE w == u \o v
<1> HIDE DEF w
<1>2. ASSUME NEW i \in DOMAIN u, EndsWith(u[i], x)
      PROVE  Ends(w, x)
    <2>1. i \in DOMAIN w /\ w[i] = u[i]
        BY <1>1 DEF w
    <2> QED
        BY <1>2, <2>1 DEF Ends
<1>3. ASSUME NEW i \in DOMAIN v, EndsWith(v[i], x)
      PROVE  Ends(w, x)
    <2>1. Len(u) + i \in DOMAIN w /\ w[Len(u) + i] = v[i]
        BY <1>1 DEF w
    <2> QED
        BY <1>3, <2>1 DEF Ends
<1> QED
    BY <1>2, <1>3 DEF Ends, w

LEMMA OneLine ==
    ASSUME NEW S, NEW line \in S
    PROVE  <<line>> \in Seq(S) /\ \A x : EndsWith(line, x) => Ends(<<line>>, x)
<1> DEFINE one == <<line>>
<1>1. one \in Seq(S) /\ DOMAIN one = 1 .. 1 /\ one[1] = line
    OBVIOUS
<1> HIDE DEF one
<1>2. \A x : EndsWith(line, x) => Ends(one, x)
    BY <1>1 DEF Ends
<1> QED
    BY <1>1, <1>2 DEF one

UploadLines(order) == [i \in DOMAIN order |-> <<And("upload", order[i])>>]

LEMMA UploadLinesAre ==
    ASSUME NEW c \in AddonConfigs, NEW order \in SetToSeqs(DOMAIN ClassesOf(c))
    PROVE  /\ UploadLines(order) \in Seq(EarlyLine(c))
           /\ \A k \in DOMAIN ClassesOf(c) : Ends(UploadLines(order), And("upload", k))
<1> DEFINE n == Len(order)
           lines == UploadLines(order)
<1>1. /\ n \in Nat /\ DOMAIN order = 1 .. n /\ \A i \in 1 .. n : order[i] \in DOMAIN ClassesOf(c)
      /\ \A k \in DOMAIN ClassesOf(c) : \E i \in 1 .. n : order[i] = k
    BY OrderIs
<1>2. ASSUME NEW k \in DOMAIN ClassesOf(c)
      PROVE  <<And("upload", k)>> \in EarlyLine(c) /\ EndsWith(<<And("upload", k)>>, And("upload", k))
    <2> DEFINE x == And("upload", k)
    <2>1. x \in CommandsOf(c) /\ x.op = "and" /\ x.name = "upload" /\ x # And("upgrade", "longhorn")
        BY SomeCommands DEF And
    <2> HIDE DEF x
    <2>2. <<x>> \in EarlyLine(c) /\ EndsWith(<<x>>, x)
        BY <2>1, OneCommand
    <2> QED
        BY <2>2 DEF x
<1>3. lines = [i \in 1 .. n |-> <<And("upload", order[i])>>]
    BY <1>1 DEF UploadLines
<1> HIDE DEF n, lines
<1>4. \A i \in 1 .. n : lines[i] = <<And("upload", order[i])>> /\ lines[i] \in EarlyLine(c)
    BY <1>1, <1>2, <1>3
<1>5. lines \in [1 .. n -> EarlyLine(c)] /\ DOMAIN lines = 1 .. n
    BY <1>1, <1>3, <1>4
<1>6. lines \in Seq(EarlyLine(c))
    BY <1>1, <1>5
<1>7. ASSUME NEW k \in DOMAIN ClassesOf(c)
      PROVE  Ends(lines, And("upload", k))
    <2>1. PICK i \in 1 .. n : order[i] = k
        BY <1>1
    <2> QED
        BY <1>2, <1>4, <1>5, <2>1 DEF Ends
<1> QED
    BY <1>6, <1>7 DEF lines

\* The lines of a call without the last one of Longhorn.
EarlyPart(c, order) ==
    TraefikLines(c)
    \o IF c.enabled THEN << <<And("helm", None)>>, SnapshotLine >> \o UploadLines(order) ELSE <<>>

LEMMA EarlyPartIs ==
    ASSUME NEW c \in AddonConfigs, NEW order \in SetToSeqs(DOMAIN ClassesOf(c))
    PROVE  /\ EarlyPart(c, order) \in Seq(EarlyLine(c))
           /\ c.mode = "install" => Ends(EarlyPart(c, order), And("upgrade", "traefik"))
           /\ c.enabled =>
                  /\ Ends(EarlyPart(c, order), And("controller", None))
                  /\ \A k \in DOMAIN ClassesOf(c) : Ends(EarlyPart(c, order), And("upload", k))
           /\ Lines(c, order) = IF c.enabled THEN EarlyPart(c, order) \o <<LonghornLine(order)>> ELSE EarlyPart(c, order)
<1> DEFINE E == EarlyLine(c)
           traefik == TraefikLines(c)
           before == << <<And("helm", None)>>, SnapshotLine >>
           uploads == UploadLines(order)
           longhorn == IF c.enabled THEN before \o uploads ELSE <<>>
<1>2. <<And("helm", None)>> \in E
    <2> DEFINE x == And("helm", None)
    <2>1. x \in CommandsOf(c) /\ x.op = "and" /\ x.name = "helm" /\ x # And("upgrade", "longhorn")
        BY SomeCommands DEF And
    <2> HIDE DEF x
    <2>2. <<x>> \in E
        BY <2>1, OneCommand
    <2> QED
        BY <2>2 DEF x
<1>3. traefik \in Seq(E) /\ (c.mode = "install" => Ends(traefik, And("upgrade", "traefik")))
    <2> DEFINE ensure == <<And("helm", None)>>
               install == InstallChart("traefik")
    <2>1. ensure \in E /\ install \in E /\ EndsWith(install, And("upgrade", "traefik"))
        BY <1>2, TraefikLine
    <2>2. traefik = IF c.mode = "install" THEN <<ensure, install>> ELSE <<>>
        BY DEF TraefikLines
    <2> HIDE DEF ensure, install, traefik, E
    <2>3. CASE c.mode = "install"
        <3>1. traefik \in Seq(E) /\ DOMAIN traefik = 1 .. 2 /\ traefik[2] = install
            BY <2>1, <2>2, <2>3
        <3> QED
            BY <2>1, <3>1 DEF Ends
    <2>4. CASE c.mode # "install"
        BY <2>2, <2>4
    <2> QED
        BY <2>3, <2>4
<1>4. before \in Seq(E) /\ Ends(before, And("controller", None))
    <2> DEFINE ensure == <<And("helm", None)>>
    <2>1. ensure \in E /\ SnapshotLine \in E /\ EndsWith(SnapshotLine, And("controller", None))
        BY <1>2, SnapshotLineIs
    <2>2. before = <<ensure, SnapshotLine>>
        OBVIOUS
    <2> HIDE DEF ensure, before, E
    <2>3. before \in Seq(E) /\ DOMAIN before = 1 .. 2 /\ before[2] = SnapshotLine
        BY <2>1, <2>2
    <2> QED
        BY <2>1, <2>3 DEF Ends
<1>5. uploads \in Seq(E) /\ \A k \in DOMAIN ClassesOf(c) : Ends(uploads, And("upload", k))
    BY UploadLinesAre
<1>6. EarlyPart(c, order) = traefik \o longhorn
    BY DEF EarlyPart
<1>7. Lines(c, order) = traefik \o
          (IF c.enabled THEN (before \o uploads) \o <<LonghornLine(order)>> ELSE <<>>)
    BY DEF Lines, LonghornLines, UploadLines, LonghornLine
<1> HIDE DEF traefik, before, uploads, E
<1>8. before \o uploads \in Seq(E) /\ longhorn \in Seq(E)
    BY <1>4, <1>5
<1> HIDE DEF longhorn
<1>9. ASSUME NEW x, Ends(traefik, x)
      PROVE  Ends(traefik \o longhorn, x)
    BY <1>3, <1>8, <1>9, EndsConcat, Zenon
<1>10. ASSUME NEW x, c.enabled, Ends(before, x) \/ Ends(uploads, x)
       PROVE  Ends(traefik \o longhorn, x)
    <2>1. Ends(before \o uploads, x)
        BY <1>4, <1>5, <1>10, EndsConcat, Zenon
    <2>2. longhorn = before \o uploads
        BY <1>10 DEF longhorn
    <2> QED
        BY <1>3, <1>8, <2>1, <2>2, EndsConcat, Zenon
<1>11. Lines(c, order) = IF c.enabled THEN EarlyPart(c, order) \o <<LonghornLine(order)>> ELSE EarlyPart(c, order)
    <2>1. CASE c.enabled
        <3> DEFINE last == <<LonghornLine(order)>>
                   U == E \cup {LonghornLine(order)}
        <3>1. last \in Seq(U) /\ traefik \in Seq(U) /\ before \o uploads \in Seq(U)
            BY <1>3, <1>8
        <3> HIDE DEF U, last
        <3>2. \A a, b, d \in Seq(U) : (a \o b) \o d = a \o (b \o d)
            BY ConcatAssociative
        <3>3. (traefik \o (before \o uploads)) \o last = traefik \o ((before \o uploads) \o last)
            BY <3>1, <3>2, Zenon
        <3> QED
            BY <1>6, <1>7, <2>1, <3>3 DEF longhorn, last
    <2>2. CASE ~c.enabled
        BY <1>6, <1>7, <2>2 DEF longhorn
    <2> QED
        BY <2>1, <2>2
<1>12. traefik \o longhorn \in Seq(E)
    BY <1>3, <1>8
<1> QED
    BY <1>3, <1>4, <1>5, <1>6, <1>9, <1>10, <1>11, <1>12 DEF E

LEMMA LinesAre ==
    ASSUME NEW c \in AddonConfigs, NEW order \in SetToSeqs(DOMAIN ClassesOf(c))
    PROVE  LET lines == Lines(c, order)
           IN  /\ lines \in Seq(Seq(CommandsOf(c)))
               /\ \A i \in DOMAIN lines : LineOK(c, lines[i]) /\ (Final(lines[i]) => i = Len(lines))
               /\ c.mode = "install" => Ends(lines, And("upgrade", "traefik"))
               /\ c.enabled =>
                      /\ Ends(lines, And("controller", None))
                      /\ \A k \in DOMAIN ClassesOf(c) :
                            /\ Ends(lines, And("upload", k)) /\ Ends(lines, And("apply", k))
                            /\ Ends(lines, And("remove", k))
<1> DEFINE lines == Lines(c, order)
           early == EarlyPart(c, order)
           S == Seq(CommandsOf(c))
<1>1. early \in Seq(EarlyLine(c))
    BY EarlyPartIs
<1>2. early \in Seq(S)
    BY <1>1 DEF EarlyLine
<1>3. \A i \in DOMAIN early : LineOK(c, early[i]) /\ ~Final(early[i])
    <2>1. \A i \in DOMAIN early : early[i] \in EarlyLine(c)
        BY <1>1
    <2> QED
        BY <2>1, EarlyOK
<1>4. CASE ~c.enabled
    <2>1. lines = early
        BY <1>4, EarlyPartIs
    <2> QED
        BY <1>2, <1>3, <1>4, <2>1, EarlyPartIs
<1>5. CASE c.enabled
    <2> DEFINE last == LonghornLine(order)
    <2>1. lines = early \o <<last>>
        BY <1>5, EarlyPartIs
    <2>2. LineOK(c, last) /\ \A k \in DOMAIN ClassesOf(c) :
              EndsWith(last, And("apply", k)) /\ EndsWith(last, And("remove", k))
        BY <1>5, LonghornLineIs, Zenon
    <2>3. last \in S
        BY <2>2 DEF LineOK
    <2>4. /\ c.mode = "install" => Ends(early, And("upgrade", "traefik"))
          /\ Ends(early, And("controller", None))
          /\ \A k \in DOMAIN ClassesOf(c) : Ends(early, And("upload", k))
        BY <1>5, EarlyPartIs
    <2> HIDE DEF last, early, lines, S
    <2>5. <<last>> \in Seq(S) /\ \A x : EndsWith(last, x) => Ends(<<last>>, x)
        BY <2>3, OneLine
    <2>6. \A x : Ends(early, x) \/ Ends(<<last>>, x) => Ends(lines, x)
        BY <1>2, <2>1, <2>5, EndsConcat
    <2>7. /\ lines \in Seq(S) /\ Len(lines) = Len(early) + 1 /\ DOMAIN lines = 1 .. Len(early) + 1
          /\ \A i \in 1 .. Len(early) : lines[i] = early[i]
          /\ lines[Len(early) + 1] = last
          /\ DOMAIN early = 1 .. Len(early) /\ Len(early) \in Nat
        BY <1>2, <2>1, <2>3
    <2>8. ASSUME NEW i \in DOMAIN lines
          PROVE  LineOK(c, lines[i]) /\ (Final(lines[i]) => i = Len(lines))
        <3>1. i = Len(early) + 1 \/ i \in 1 .. Len(early)
            BY <2>7
        <3>2. CASE i = Len(early) + 1
            BY <2>2, <2>7, <3>2
        <3>3. CASE i \in 1 .. Len(early)
            BY <1>3, <2>7, <3>3
        <3> QED
            BY <3>1, <3>2, <3>3
    <2>9. \A k \in DOMAIN ClassesOf(c) : Ends(lines, And("apply", k)) /\ Ends(lines, And("remove", k))
        BY <2>2, <2>5, <2>6
    <2>10. Ends(lines, And("controller", None))
        BY <2>4, <2>6
    <2>11. c.mode = "install" => Ends(lines, And("upgrade", "traefik"))
        BY <2>4, <2>6
    <2>12. \A k \in DOMAIN ClassesOf(c) : Ends(lines, And("upload", k))
        BY <2>4, <2>6
    <2> QED
        BY <2>7, <2>8, <2>9, <2>10, <2>11, <2>12 DEF lines, S
<1> QED
    BY <1>4, <1>5

-----------------------------------------------------------------------------
(* What a step does to the lines *)

\* A command ran or was passed over.
Move ==
    /\ pc = "run" /\ chain # <<>> /\ chain' = Tail(chain)
    /\ Due \/ status' = status
    /\ UNCHANGED <<pc, cfg, todo, result, k3s>>

\* The next command ran and succeeded.
Ran(x) == chain # <<>> /\ Due /\ Head(chain) = x /\ status' /\ Move

LEMMA StepKinds ==
    ASSUME [Next]_vars
    PROVE  \/ \E c \in AddonConfigs : Apply(c)
           \/ NextLine
           \/ Move
           \/ WriteK3sConfig
           \/ StartK3s
           \/ pc # "idle" /\ Return("error") /\ UNCHANGED <<cfg, status, cluster, server>>
           \/ Reboot
           \/ Drift
           \/ UNCHANGED vars
<1> USE DEF Move, At, Done
<1>1. CASE Skip
    BY <1>1 DEF Skip
<1>2. CASE True
    BY <1>2 DEF True
<1>3. CASE StartFails
    BY <1>3 DEF StartFails
<1>4. CASE EnsureHelm
    BY <1>4 DEF EnsureHelm
<1>5. CASE AddRepo
    BY <1>5 DEF AddRepo
<1>6. CASE UpdateRepos
    BY <1>6 DEF UpdateRepos
<1>7. CASE Upgrade
    BY <1>7 DEF Upgrade
<1>8. CASE ApplyManifest
    BY <1>8 DEF ApplyManifest
<1>9. CASE Rollout
    BY <1>9 DEF Rollout
<1>10. CASE UploadClass
    BY <1>10 DEF UploadClass
<1>11. CASE ApplyClass
    BY <1>11 DEF ApplyClass
<1>12. CASE RemoveFile
    BY <1>12 DEF RemoveFile
<1>13. CASE CommandFails
    BY <1>13 DEF CommandFails
<1>14. CASE ConnectionLost
    BY <1>14 DEF ConnectionLost
<1> QED
    BY <1>1, <1>2, <1>3, <1>4, <1>5, <1>6, <1>7, <1>8, <1>9, <1>10, <1>11, <1>12, <1>13, <1>14 DEF Next

LEMMA StatusStep ==
    ASSUME TypeOK, [Next]_vars
    PROVE  status' \in BOOLEAN
<1> USE DEF TypeOK, Done
<1>0. status \in BOOLEAN
    OBVIOUS
<1>1. CASE Skip
    BY <1>0, <1>1 DEF Skip
<1>2. CASE UpdateRepos
    BY <1>2 DEF UpdateRepos
<1>3. CASE Upgrade
    BY <1>3 DEF Upgrade, Upgradable
<1>4. CASE Rollout
    BY <1>4 DEF Rollout
<1>5. CASE ApplyClass
    BY <1>5 DEF ApplyClass, Appliable
<1>6. CASE ~Skip /\ ~UpdateRepos /\ ~Upgrade /\ ~Rollout /\ ~ApplyClass
    <2>1. status' = status \/ status' = TRUE \/ status' = FALSE
        BY <1>6 DEF Next, Apply, NextLine, True, WriteK3sConfig, StartK3s, EnsureHelm, AddRepo, ApplyManifest, UploadClass,
                    RemoveFile, CommandFails, StartFails, ConnectionLost, Reboot, Drift, Return, vars, call
    <2> QED
        BY <1>0, <2>1
<1> QED
    BY <1>1, <1>2, <1>3, <1>4, <1>5, <1>6

LEMMA LinesStep ==
    ASSUME TypeOK, LinesInv, [Next]_vars
    PROVE  LinesInv'
<1>0. <<>> \in Seq(CommandsOf(cfg)) /\ LineOK(cfg, <<>>) /\ ~Final(<<>>)
    BY DEF LineOK, Paired, Final
<1>1. ASSUME NEW c \in AddonConfigs, Apply(c)
      PROVE  LinesInv'
    <2>1. PICK order \in SetToSeqs(DOMAIN ClassesOf(c)) : todo' = Lines(c, order)
        BY <1>1 DEF Apply
    <2> DEFINE lines == Lines(c, order)
    <2>2. /\ lines \in Seq(Seq(CommandsOf(c)))
          /\ \A i \in DOMAIN lines : LineOK(c, lines[i]) /\ (Final(lines[i]) => i = Len(lines))
        BY LinesAre, Zenon
    <2>3. cfg' = c /\ chain' = <<>> /\ todo' = lines
        BY <1>1, <2>1 DEF Apply
    <2>4. LineOK(c, <<>>) /\ ~Final(<<>>)
        BY DEF LineOK, Paired, Final
    <2> HIDE DEF lines
    <2> QED
        BY <2>2, <2>3, <2>4 DEF LinesInv
<1>2. CASE NextLine
    <2>1. CASE chain' = <<>> /\ todo' = <<>> /\ cfg' = cfg
        BY <1>0, <2>1 DEF LinesInv
    <2>2. CASE todo # <<>> /\ chain' = Head(todo) /\ todo' = Tail(todo) /\ cfg' = cfg
        <3> DEFINE S == Seq(CommandsOf(cfg))
        <3>1. todo \in Seq(S) /\ todo # <<>>
            BY <2>2 DEF LinesInv
        <3> HIDE DEF S
        <3>2. /\ Tail(todo) \in Seq(S) /\ Len(todo) \in Nat /\ Len(todo) >= 1 /\ Len(Tail(todo)) = Len(todo) - 1
              /\ DOMAIN todo = 1 .. Len(todo) /\ DOMAIN Tail(todo) = 1 .. Len(todo) - 1
              /\ Head(todo) = todo[1] /\ \A j \in 1 .. Len(todo) - 1 : Tail(todo)[j] = todo[j + 1]
            BY <3>1, TailFacts
        <3>3. \A i \in 1 .. Len(todo) : LineOK(cfg, todo[i]) /\ (Final(todo[i]) => i = Len(todo))
            BY <3>2 DEF LinesInv
        <3>4. \A i \in 1 .. Len(todo) - 1 :
                  LineOK(cfg, Tail(todo)[i]) /\ (Final(Tail(todo)[i]) => i = Len(Tail(todo)))
            <4>1. PICK n : n = Len(todo) /\ n \in Nat /\ n >= 1 /\ Len(Tail(todo)) = n - 1
                BY <3>2
            <4>2. ASSUME NEW i \in 1 .. n - 1
                  PROVE  LineOK(cfg, Tail(todo)[i]) /\ (Final(Tail(todo)[i]) => i = n - 1)
                <5>1. i + 1 \in 1 .. n
                    BY <4>1
                <5>2. Tail(todo)[i] = todo[i + 1]
                    BY <3>2, <4>1
                <5>3. LineOK(cfg, todo[i + 1]) /\ (Final(todo[i + 1]) => i + 1 = n)
                    BY <3>3, <4>1, <5>1
                <5>4. i + 1 = n => i = n - 1
                    BY <4>1
                <5> QED
                    BY <5>2, <5>3, <5>4
            <4> QED
                BY <4>1, <4>2
        <3>5. 1 \in 1 .. Len(todo)
            BY <3>2
        <3>6. Final(todo[1]) => Len(todo) = 1
            BY <3>3, <3>5
        <3>7. Len(todo) = 1 => Tail(todo) = <<>>
            <4>1. \A seq \in Seq(S) : (seq = <<>>) <=> (Len(seq) = 0)
                BY EmptySeq
            <4> QED
                BY <3>2, <4>1
        <3>8. LineOK(cfg, todo[1])
            BY <3>3, <3>5
        <3> QED
            BY <2>2, <3>2, <3>4, <3>6, <3>7, <3>8 DEF LinesInv, S
    <2> QED
        BY <1>2, <2>1, <2>2 DEF NextLine, Return
<1>3. CASE Move
    <2>1. LineOK(cfg, Tail(chain)) /\ (Final(Tail(chain)) => Final(chain))
        BY <1>3, LineTail DEF Move, LinesInv
    <2> QED
        BY <1>3, <2>1 DEF Move, LinesInv
<1>4. CASE pc # "idle" /\ Return("error") /\ UNCHANGED <<cfg, status, cluster, server>>
    BY <1>0, <1>4 DEF Return, LinesInv
<1>5. CASE WriteK3sConfig \/ StartK3s \/ Reboot \/ Drift \/ UNCHANGED vars
    BY <1>5 DEF WriteK3sConfig, StartK3s, Reboot, Drift, vars, call, LinesInv
<1> QED
    BY <1>1, <1>2, <1>3, <1>4, <1>5, StepKinds

-----------------------------------------------------------------------------
(* Commands that are still to run *)

LEMMA RunKind ==
    ASSUME [Next]_vars, Running'
    PROVE  (Running /\ cfg' = cfg) \/ \E c \in AddonConfigs : Apply(c)
BY StepKinds DEF Running, NextLine, Move, Return, WriteK3sConfig, StartK3s, Reboot, Drift, vars, call

\* A command of a line that starts is pending.
LEMMA PendingStart ==
    ASSUME NEW x, Ends(todo, x)'
    PROVE  Pending(x)'
BY DEF Pending

LEMMA PendingStep ==
    ASSUME TypeOK, LinesInv, Running, Running', NEW x, x.op = "and", Pending(x), [Next]_vars
    PROVE  Pending(x)' \/ Ran(x)
<1>0. pc # "idle" /\ pc' # "idle" /\ status \in BOOLEAN /\ status' \in BOOLEAN
    BY StatusStep DEF Running, TypeOK
<1>1. CASE NextLine
    <2> DEFINE S == Seq(CommandsOf(cfg))
    <2>1. status /\ chain = <<>> /\ todo # <<>> /\ chain' = Head(todo) /\ todo' = Tail(todo)
        BY <1>0, <1>1 DEF NextLine, Return
    <2>2. todo \in Seq(S)
        BY DEF LinesInv
    <2>3. Ends(todo, x)
        <3>1. ~EndsWith(chain, x)
            BY <2>1 DEF EndsWith
        <3> QED
            BY <2>1, <3>1 DEF Pending
    <2> HIDE DEF S
    <2>4. /\ Len(todo) \in Nat /\ Len(todo) >= 1 /\ DOMAIN todo = 1 .. Len(todo)
          /\ DOMAIN Tail(todo) = 1 .. Len(todo) - 1 /\ Head(todo) = todo[1]
          /\ \A j \in 1 .. Len(todo) - 1 : Tail(todo)[j] = todo[j + 1]
        BY <2>1, <2>2, TailFacts
    <2>5. PICK i \in 1 .. Len(todo) : EndsWith(todo[i], x)
        BY <2>3, <2>4 DEF Ends
    <2>6. CASE i = 1
        BY <2>1, <2>4, <2>5, <2>6 DEF Pending
    <2>7. CASE i # 1
        <3>1. i - 1 \in 1 .. Len(todo) - 1 /\ (i - 1) + 1 = i
            BY <2>4, <2>7
        <3>2. EndsWith(Tail(todo)[i - 1], x)
            BY <2>4, <2>5, <3>1
        <3>3. Ends(Tail(todo), x)
            BY <2>4, <3>1, <3>2 DEF Ends
        <3> QED
            BY <2>1, <3>3 DEF Pending
    <2> QED
        BY <2>6, <2>7
<1>2. CASE Move
    <2>1. chain # <<>> /\ chain' = Tail(chain) /\ todo' = todo /\ (Due \/ status' = status)
        BY <1>2 DEF Move
    <2>2. chain \in Seq(CommandsOf(cfg))
        BY DEF LinesInv, LineOK
    <2>3. CASE Ends(todo, x)
        BY <2>1, <2>3 DEF Pending
    <2>4. CASE EndsWith(chain, x)
        <3>1. EndsWith(Tail(chain), x) \/ (Head(chain) = x /\ AllAnd(Tail(chain)))
            BY <2>1, <2>2, <2>4, EndsWithTail
        <3>2. CASE EndsWith(Tail(chain), x)
            BY <2>1, <3>2 DEF Pending
        <3>3. CASE Head(chain) = x /\ AllAnd(Tail(chain))
            <4>1. CASE ~status'
                BY <2>1, <3>3, <4>1 DEF Pending
            <4>2. CASE status' = TRUE
                <5>1. Due
                    BY <1>0, <2>1, <3>3, <4>2 DEF Due
                <5> QED
                    BY <1>2, <2>1, <3>3, <4>2, <5>1 DEF Ran
            <4> QED
                BY <1>0, <4>1, <4>2
        <3> QED
            BY <3>1, <3>2, <3>3
    <2>5. CASE ~status /\ AllAnd(chain)
        <3>1. Head(chain).op = "and" /\ AllAnd(Tail(chain))
            BY <2>1, <2>2, <2>5, AllAndTail
        <3>2. ~Due
            BY <1>0, <2>5, <3>1 DEF Due
        <3> QED
            BY <2>1, <2>5, <3>1, <3>2 DEF Pending
    <2> QED
        BY <2>3, <2>4, <2>5 DEF Pending
<1>3. CASE WriteK3sConfig \/ StartK3s \/ UNCHANGED vars
    BY <1>3 DEF WriteK3sConfig, StartK3s, Pending, vars, call
<1> QED
    BY <1>0, <1>1, <1>2, <1>3, StepKinds DEF Apply, Return, Reboot, Drift

LEMMA GoneStep ==
    ASSUME LinesInv, Running, Running', NEW x, Gone(x), [Next]_vars
    PROVE  Gone(x)'
<1>1. CASE NextLine
    <2> DEFINE S == Seq(CommandsOf(cfg))
    <2>1. todo # <<>> /\ chain' = Head(todo) /\ todo' = Tail(todo)
        BY <1>1 DEF NextLine, Return, Running
    <2>2. todo \in Seq(S)
        BY DEF LinesInv
    <2> HIDE DEF S
    <2>3. /\ Len(todo) \in Nat /\ Len(todo) >= 1 /\ DOMAIN todo = 1 .. Len(todo)
          /\ DOMAIN Tail(todo) = 1 .. Len(todo) - 1 /\ Head(todo) = todo[1]
          /\ \A j \in 1 .. Len(todo) - 1 : Tail(todo)[j] = todo[j + 1]
        BY <2>1, <2>2, TailFacts
    <2>4. \A j \in 1 .. Len(todo) - 1 : j + 1 \in 1 .. Len(todo)
        BY <2>3
    <2>5. 1 \in 1 .. Len(todo)
        BY <2>3
    <2>6. x \notin Range(todo[1]) /\ \A j \in 1 .. Len(todo) - 1 : x \notin Range(Tail(todo)[j])
        BY <2>3, <2>4, <2>5 DEF Gone
    <2> QED
        BY <2>1, <2>3, <2>6 DEF Gone
<1>2. CASE Move
    <2>1. chain # <<>> /\ chain' = Tail(chain) /\ todo' = todo
        BY <1>2 DEF Move
    <2>2. chain \in Seq(CommandsOf(cfg))
        BY DEF LinesInv, LineOK
    <2>3. /\ DOMAIN chain = 1 .. Len(chain) /\ DOMAIN Tail(chain) = 1 .. Len(chain) - 1 /\ Len(chain) \in Nat
          /\ \A j \in 1 .. Len(chain) - 1 : Tail(chain)[j] = chain[j + 1]
        BY <2>1, <2>2, TailFacts
    <2>4. \A j \in 1 .. Len(chain) - 1 : j + 1 \in 1 .. Len(chain)
        BY <2>3
    <2>5. x \notin Range(Tail(chain))
        BY <2>3, <2>4 DEF Gone, Range
    <2> QED
        BY <2>1, <2>5 DEF Gone
<1>3. CASE WriteK3sConfig \/ StartK3s \/ UNCHANGED vars
    BY <1>3 DEF WriteK3sConfig, StartK3s, Gone, vars, call
<1> QED
    BY <1>1, <1>2, <1>3, StepKinds DEF Apply, Return, Reboot, Drift, Running

\* A call ends without an error when there is nothing left to run.
LEMMA EndKind ==
    ASSUME TypeOK, [Next]_vars, Succeeded'
    PROVE  /\ UNCHANGED <<cfg, k3s, cluster, server>>
           /\ Succeeded \/ (pc = "run" /\ Running /\ \A x : ~Pending(x))
<1>1. CASE NextLine
    <2>1. pc = "run" /\ status /\ chain = <<>> /\ todo = <<>> /\ UNCHANGED <<cfg, k3s, cluster, server>>
        BY <1>1 DEF NextLine, Return, Succeeded
    <2>2. ASSUME NEW x
          PROVE  ~EndsWith(chain, x) /\ ~Ends(todo, x)
        BY <2>1 DEF EndsWith, Ends
    <2> QED
        BY <2>1, <2>2 DEF Pending, Running
<1>2. CASE UNCHANGED vars
    BY <1>2 DEF vars, call, Succeeded
<1> QED
    BY <1>1, <1>2, StepKinds DEF Apply, Move, Return, WriteK3sConfig, StartK3s, Reboot, Drift, Succeeded

\* What changes the cluster and the files of the server during a call.
LEMMA Changes ==
    ASSUME [Next]_vars, Running
    PROVE  /\ releases' # releases => Upgrade
           /\ snapshots' # snapshots => ApplyManifest
           /\ classes' # classes => ApplyClass
           /\ files' # files => UploadClass \/ RemoveFile
<1> USE DEF Running, vars, cluster, server
<1>1. CASE WriteK3sConfig \/ StartK3s \/ StartFails
    BY <1>1 DEF WriteK3sConfig, StartK3s, StartFails
<1>2. CASE Upgrade
    BY <1>2 DEF Upgrade
<1>3. CASE ApplyManifest
    BY <1>3 DEF ApplyManifest
<1>4. CASE ApplyClass
    BY <1>4 DEF ApplyClass
<1>5. CASE UploadClass
    BY <1>5 DEF UploadClass
<1>6. CASE RemoveFile
    BY <1>6 DEF RemoveFile
<1>7. CASE ~WriteK3sConfig /\ ~StartK3s /\ ~StartFails /\ ~Upgrade /\ ~ApplyManifest /\ ~ApplyClass /\ ~UploadClass /\ ~RemoveFile
    BY <1>7 DEF Next, Apply, NextLine, Skip, True, EnsureHelm, AddRepo, UpdateRepos, Rollout, CommandFails,
                ConnectionLost, Reboot, Drift
<1> QED
    BY <1>1, <1>2, <1>3, <1>4, <1>5, <1>6, <1>7

\* A command that ran with success did what it is for.
LEMMA RanIs ==
    ASSUME LinesInv, [Next]_vars, NEW x, Ran(x)
    PROVE  /\ x.name = "upgrade" => Upgrade
           /\ x.name = "controller" => Rollout
           /\ x.name = "upload" => UploadClass
           /\ x.name = "apply" => ApplyClass
           /\ x.name = "remove" => RemoveFile
<1>1. /\ pc = "run" /\ pc' = "run" /\ chain # <<>> /\ chain' = Tail(chain) /\ Due /\ status'
      /\ Head(chain).name = x.name
    BY DEF Ran, Move
<1>2. chain' # chain
    <2>1. chain \in Seq(CommandsOf(cfg))
        BY DEF LinesInv, LineOK
    <2>2. Len(Tail(chain)) = Len(chain) - 1 /\ Len(chain) \in Nat
        BY <1>1, <2>1, TailFacts
    <2>3. PICK n \in Nat : Len(chain) = n /\ Len(Tail(chain)) = n - 1
        BY <2>2
    <2>4. n - 1 # n
        OBVIOUS
    <2>5. Len(Tail(chain)) # Len(chain)
        BY <2>3, <2>4
    <2> QED
        BY <1>1, <2>5, Zenon
<1>3. Next
    BY <1>2 DEF vars, call
<1>4. /\ ~NextLine /\ ~Skip /\ ~CommandFails /\ ~StartFails /\ ~ConnectionLost /\ ~Drift
      /\ \A c \in AddonConfigs : ~Apply(c)
    BY <1>1 DEF NextLine, Skip, CommandFails, StartFails, ConnectionLost, Drift, Apply, Return
<1>5. ~WriteK3sConfig /\ ~StartK3s /\ ~Reboot
    BY <1>2 DEF WriteK3sConfig, StartK3s, Reboot
<1> QED
    BY <1>1, <1>3, <1>4, <1>5 DEF Next, At, True, EnsureHelm, AddRepo, UpdateRepos, Upgrade,
                            ApplyManifest, Rollout, UploadClass, ApplyClass, RemoveFile

-----------------------------------------------------------------------------
(* The invariant *)

LEMMA HeadIs ==
    ASSUME TypeOK, LinesInv, chain # <<>>
    PROVE  /\ Head(chain) \in Range(chain) /\ Head(chain) \in Command
           /\ Head(chain).name \in {"add", "upgrade"} => Arg \in Charts
           /\ Head(chain).name = "manifest" => Arg \in Range(Manifests)
           /\ Head(chain).name \in {"upload", "apply", "remove"} => Arg \in DOMAIN ClassesOf(cfg)
           /\ Head(chain).name # "true" => Head(chain) = And(Head(chain).name, Arg)
<1>1. chain \in Seq(CommandsOf(cfg)) /\ cfg \in AddonConfigs
    BY DEF LinesInv, LineOK, TypeOK
<1>2. Head(chain) \in CommandsOf(cfg) /\ Head(chain) = chain[1] /\ 1 \in DOMAIN chain
    BY <1>1, TailFacts
<1>3. Head(chain) \in Range(chain)
    BY <1>2 DEF Range
<1> QED
    BY <1>1, <1>2, <1>3, CommandIs DEF Arg

\* When the last line of Longhorn runs what it does not have is over.
LEMMA FinalHead ==
    ASSUME TypeOK, LinesInv, chain # <<>>, Due, Head(chain).op = "and",
           Head(chain) = And("upgrade", "longhorn") \/ Head(chain).name \in {"apply", "remove"}
    PROVE  /\ status = TRUE /\ todo = <<>> /\ cfg.enabled /\ Paired(chain)
           /\ \A y : y.name \in {"controller", "upload"} => y \notin Range(chain)
           /\ \A y : y \notin Range(chain) => Gone(y) /\ ~Pending(y)
<1>1. status = TRUE
    BY DEF Due, TypeOK
<1>2. Head(chain) = chain[1] /\ 1 \in DOMAIN chain
    <2>1. chain \in Seq(CommandsOf(cfg))
        BY DEF LinesInv, LineOK
    <2> QED
        BY <2>1, TailFacts
<1>3. Final(chain)
    BY <1>2 DEF Final
<1>4. todo = <<>> /\ cfg.enabled /\ Late(chain) /\ Paired(chain)
    BY <1>3 DEF LinesInv, LineOK
<1>5. \A y : y.name \in {"controller", "upload"} => y \notin Range(chain)
    BY <1>4 DEF Late, Range
<1>6. ASSUME NEW y, y \notin Range(chain)
      PROVE  Gone(y) /\ ~Pending(y)
    <2>1. DOMAIN todo = {}
        BY <1>4
    <2>2. ~EndsWith(chain, y)
        BY <1>6 DEF EndsWith, Range
    <2> QED
        BY <1>1, <1>6, <2>1, <2>2 DEF Gone, Pending, Ends
<1> QED
    BY <1>1, <1>4, <1>5, <1>6

LEMMA K3sStep ==
    ASSUME K3sInv, [Next]_vars
    PROVE  K3sInv'
<1> USE DEF K3sInv, k3s
<1>1. ASSUME NEW c \in AddonConfigs, Apply(c)
      PROVE  K3sInv'
    BY <1>1 DEF Apply, Succeeded, Content, DisableTraefik
<1>2. CASE WriteK3sConfig
    BY <1>2 DEF WriteK3sConfig, Succeeded, Content, DisableTraefik
<1>3. CASE StartK3s
    BY <1>3 DEF StartK3s, LeavesAlone, Succeeded, Content, DisableTraefik
<1>4. CASE NextLine \/ Move
    BY <1>4 DEF NextLine, Move, Return, Succeeded, Content, DisableTraefik
<1>5. CASE pc # "idle" /\ Return("error")
    BY <1>5 DEF Return, Succeeded
<1>6. CASE Reboot \/ Drift
    BY <1>6 DEF Reboot, Drift, Succeeded
<1>7. CASE UNCHANGED vars
    BY <1>7 DEF vars, call, Succeeded, Content, DisableTraefik
<1> QED
    BY <1>1, <1>2, <1>3, <1>4, <1>5, <1>6, <1>7, StepKinds

LEMMA UpgradeInPlace ==
    ASSUME TypeOK, LinesInv, Upgrade
    PROVE  /\ Arg \in Charts
           /\ releases' # releases => status'
           /\ status' => releases' = [releases EXCEPT ![Arg] = releases'[Arg]]
                         /\ InPlace(releases'[Arg], ChartOf(Arg))
<1>1. Head(chain).name = "upgrade" /\ chain # <<>>
    BY DEF Upgrade, At
<1>2. Arg \in Charts /\ cfg \in AddonConfigs
    BY <1>1, HeadIs DEF TypeOK
<1>3. ChartOf(Arg) \in Chart
    BY <1>2, ConfigType DEF ChartOf
<1>4. status' = Upgradable(Arg)
    BY DEF Upgrade, Done
<1>5. ASSUME Upgradable(Arg)
      PROVE  /\ releases' = [releases EXCEPT ![Arg] = releases'[Arg]]
             /\ InPlace(releases'[Arg], ChartOf(Arg))
    <2> DEFINE u == Upgraded(releases[Arg], ChartOf(Arg))
    <2>1. releases[Arg] \in Release \cup {None}
        BY <1>2 DEF TypeOK
    <2>2. u \in Release /\ InPlace(u, ChartOf(Arg))
        BY <1>3, <2>1, ConstantAssumption DEF Upgraded, Release, Chart, InPlace
    <2>3. releases' = [releases EXCEPT ![Arg] = u]
        BY <1>5 DEF Upgrade
    <2> HIDE DEF u
    <2>4. releases'[Arg] = u
        BY <1>2, <2>3 DEF TypeOK
    <2> QED
        BY <2>2, <2>3, <2>4
<1>6. ~Upgradable(Arg) => releases' = releases
    BY DEF Upgrade
<1> QED
    BY <1>2, <1>4, <1>5, <1>6

LEMMA StartsPending ==
    ASSUME NEW c \in AddonConfigs, Apply(c)
    PROVE  /\ cfg' = c
           /\ c.mode = "install" => Pending(And("upgrade", "traefik"))'
           /\ c.enabled =>
                  /\ Pending(And("controller", None))'
                  /\ \A k \in DOMAIN ClassesOf(c) :
                        Pending(And("upload", k))' /\ Pending(And("apply", k))' /\ Pending(And("remove", k))'
<1>1. PICK order \in SetToSeqs(DOMAIN ClassesOf(c)) : todo' = Lines(c, order)
    BY DEF Apply
<1> DEFINE lines == Lines(c, order)
<1>2. /\ c.mode = "install" => Ends(lines, And("upgrade", "traefik"))
      /\ c.enabled =>
             /\ Ends(lines, And("controller", None))
             /\ \A k \in DOMAIN ClassesOf(c) :
                   /\ Ends(lines, And("upload", k)) /\ Ends(lines, And("apply", k))
                   /\ Ends(lines, And("remove", k))
    BY LinesAre, Zenon
<1> HIDE DEF lines
<1>3. ASSUME NEW x, Ends(lines, x)
      PROVE  Pending(x)'
    BY <1>1, <1>3 DEF Pending, lines
<1> QED
    BY <1>2, <1>3 DEF Apply

LEMMA TraefikStep ==
    ASSUME TypeOK, LinesInv, TraefikInv, [Next]_vars
    PROVE  TraefikInv'
<1> DEFINE x == And("upgrade", "traefik")
<1>1. x.op = "and" /\ x.name = "upgrade" /\ x.arg = "traefik" /\ "traefik" \in Charts
    BY DEF And, Charts
<1> HIDE DEF x
<1>2. ASSUME Running', (cfg.mode = "install")'
      PROVE  (Pending(x) \/ InPlace(releases["traefik"], cfg.traefik))'
    <2>1. ASSUME NEW c \in AddonConfigs, Apply(c)
          PROVE  Pending(x)'
        BY <1>2, <2>1, StartsPending DEF x
    <2>2. ASSUME Running, cfg' = cfg
          PROVE  (Pending(x) \/ InPlace(releases["traefik"], cfg.traefik))'
        <3>1. CASE Pending(x)
            <4>1. Pending(x)' \/ Ran(x)
                BY <1>1, <1>2, <2>2, <3>1, PendingStep
            <4>2. CASE Ran(x)
                <5>1. Upgrade /\ status' /\ Arg = "traefik"
                    BY <1>1, <4>2, RanIs DEF Ran, Arg
                <5>2. InPlace(releases'["traefik"], ChartOf("traefik"))
                    BY <5>1, UpgradeInPlace
                <5> QED
                    BY <2>2, <5>2 DEF ChartOf, InPlace
            <4> QED
                BY <4>1, <4>2
        <3>2. CASE InPlace(releases["traefik"], cfg.traefik)
            <4>1. CASE releases' = releases
                BY <2>2, <3>2, <4>1 DEF InPlace
            <4>2. CASE releases' # releases
                <5>1. Upgrade
                    BY <2>2, <4>2, Changes
                <5>2. /\ releases' = [releases EXCEPT ![Arg] = releases'[Arg]]
                      /\ InPlace(releases'[Arg], ChartOf(Arg))
                    BY <4>2, <5>1, UpgradeInPlace
                <5>3. CASE Arg = "traefik"
                    BY <2>2, <5>2, <5>3 DEF ChartOf, InPlace
                <5>4. CASE Arg # "traefik"
                    <6>1. releases'["traefik"] = releases["traefik"]
                        BY <1>1, <5>2, <5>4 DEF TypeOK
                    <6> QED
                        BY <2>2, <3>2, <6>1 DEF InPlace
                <5> QED
                    BY <5>3, <5>4
            <4> QED
                BY <4>1, <4>2
        <3> QED
            BY <1>2, <2>2, <3>1, <3>2 DEF TraefikInv, x
    <2> QED
        BY <1>2, <2>1, <2>2, RunKind
<1>3. ASSUME Succeeded', (cfg.mode = "install")'
      PROVE  InPlace(releases["traefik"], cfg.traefik)'
    <2>1. UNCHANGED <<cfg, releases>> /\ (Succeeded \/ (Running /\ ~Pending(x)))
        BY <1>3, EndKind DEF cluster
    <2>2. InPlace(releases["traefik"], cfg.traefik)
        BY <1>3, <2>1 DEF TraefikInv, x
    <2> QED
        BY <2>1, <2>2 DEF InPlace
<1> QED
    BY <1>2, <1>3 DEF TraefikInv, x

LEMMA SnapshotsStep ==
    ASSUME TypeOK, LinesInv, SnapshotsInv, [Next]_vars
    PROVE  SnapshotsInv'
<1> DEFINE x == And("controller", None)
<1>1. x.op = "and" /\ x.name = "controller"
    BY DEF And
<1> HIDE DEF x
<1>2. ASSUME Running', cfg'.enabled
      PROVE  Pending(x)' \/ snapshots' = Range(Manifests)
    <2>1. ASSUME NEW c \in AddonConfigs, Apply(c)
          PROVE  Pending(x)'
        BY <1>2, <2>1, StartsPending DEF x
    <2>2. ASSUME Running, cfg' = cfg
          PROVE  Pending(x)' \/ snapshots' = Range(Manifests)
        <3>1. CASE Pending(x)
            <4>1. Pending(x)' \/ Ran(x)
                BY <1>1, <1>2, <2>2, <3>1, PendingStep
            <4>2. CASE Ran(x)
                <5>1. Rollout /\ status' /\ Head(chain).name = "controller"
                    BY <1>1, <4>2, RanIs DEF Ran
                <5>2. snapshots = Range(Manifests) /\ snapshots' = snapshots
                    BY <5>1 DEF Rollout, At, Done, cluster
                <5> QED
                    BY <5>2
            <4> QED
                BY <4>1, <4>2
        <3>2. CASE snapshots = Range(Manifests)
            <4>1. CASE ApplyManifest
                <5>1. Arg \in Range(Manifests)
                    BY <4>1, HeadIs DEF ApplyManifest, At
                <5> QED
                    BY <3>2, <4>1, <5>1 DEF ApplyManifest
            <4> QED
                BY <2>2, <3>2, <4>1, Changes
        <3> QED
            BY <1>2, <2>2, <3>1, <3>2 DEF SnapshotsInv, x
    <2> QED
        BY <1>2, <2>1, <2>2, RunKind
<1> QED
    BY <1>2 DEF SnapshotsInv, x

-----------------------------------------------------------------------------
(* The storage classes *)

\* What the commands on the manifest of a class do to it.
LEMMA ClassCommandIs ==
    ASSUME TypeOK, LinesInv, UploadClass \/ ApplyClass \/ RemoveFile
    PROVE  /\ chain # <<>> /\ Due /\ Head(chain).op = "and"
           /\ Arg \in DOMAIN ClassesOf(cfg) /\ ClassAt = ClassesOf(cfg)[Arg] /\ NameOf(Arg) \in ClassNames
           /\ UploadClass => Head(chain) = And("upload", Arg)
           /\ ApplyClass => Head(chain) = And("apply", Arg)
           /\ RemoveFile => Head(chain) = And("remove", Arg)
           /\ UploadClass => files' = [files EXCEPT ![NameOf(Arg)] = ClassesOf(cfg)[Arg]]
           /\ RemoveFile => files' = [files EXCEPT ![NameOf(Arg)] = None]
           /\ ApplyClass => /\ status' = Appliable(files[NameOf(Arg)])
                            /\ status' => classes' = [classes EXCEPT ![NameOf(Arg)] = files[NameOf(Arg)]]
                            /\ ~status' => classes' = classes
<1>1. /\ chain # <<>> /\ Due
      /\ UploadClass => Head(chain).name = "upload"
      /\ ApplyClass => Head(chain).name = "apply"
      /\ RemoveFile => Head(chain).name = "remove"
    BY DEF UploadClass, ApplyClass, RemoveFile, At
<1>2. Head(chain).name \in {"upload", "apply", "remove"}
    BY <1>1
<1>3. Arg \in DOMAIN ClassesOf(cfg) /\ Head(chain) = And(Head(chain).name, Arg)
    BY <1>1, <1>2, HeadIs
<1>4. Head(chain).op = "and"
    BY <1>3 DEF And
<1>5. NameOf(Arg) \in ClassNames
    <2>1. ClassesOf(cfg)[Arg] \in Class
        BY <1>3, ClassType DEF TypeOK
    <2> QED
        BY <2>1 DEF NameOf, Class
<1>6. UploadClass => files' = [files EXCEPT ![NameOf(Arg)] = ClassesOf(cfg)[Arg]]
    BY DEF UploadClass, Manifest, ClassAt, NameOf
<1>7. RemoveFile => files' = [files EXCEPT ![NameOf(Arg)] = None]
    BY DEF RemoveFile, Manifest, ClassAt, NameOf
<1>8. ApplyClass => /\ status' = Appliable(files[NameOf(Arg)])
                    /\ status' => classes' = [classes EXCEPT ![NameOf(Arg)] = files[NameOf(Arg)]]
                    /\ ~status' => classes' = classes
    <2>1. Appliable(files[NameOf(Arg)]) => files[NameOf(Arg)].name = NameOf(Arg)
        BY <1>5 DEF TypeOK, Appliable
    <2> QED
        BY <2>1 DEF ApplyClass, Manifest, ClassAt, NameOf, Done
<1> QED
    BY <1>1, <1>3, <1>4, <1>5, <1>6, <1>7, <1>8 DEF ClassAt

LEMMA NamesAre ==
    ASSUME TypeOK
    PROVE  \A k \in DOMAIN ClassesOf(cfg) : /\ NameOf(k) \in ClassNames /\ ClassesOf(cfg)[k] \in Class
                                            /\ ClassesOf(cfg)[k] # None
<1>1. \A k \in DOMAIN ClassesOf(cfg) : ClassesOf(cfg)[k] \in Class
    BY ClassType DEF TypeOK
<1> QED
    BY <1>1, ConstantAssumption DEF NameOf, Class

LEMMA ClassCommands3 ==
    ASSUME NEW k, NEW name \in {"upload", "apply", "remove"}
    PROVE  And(name, k).op = "and" /\ And(name, k).name = name /\ And(name, k).arg = k
BY DEF And

\* A command of one class that ran with success.
LEMMA RanOfClass ==
    ASSUME TypeOK, LinesInv, [Next]_vars, NEW k
    PROVE  /\ Ran(And("upload", k)) => UploadClass /\ Arg = k
           /\ Ran(And("apply", k)) => ApplyClass /\ Arg = k /\ status'
           /\ Ran(And("remove", k)) => RemoveFile /\ Arg = k
<1>1. ASSUME NEW name \in {"upload", "apply", "remove"}, Ran(And(name, k))
      PROVE  /\ Arg = k /\ status'
             /\ name = "upload" => UploadClass
             /\ name = "apply" => ApplyClass
             /\ name = "remove" => RemoveFile
    <2> DEFINE x == And(name, k)
    <2>1. x.name = name /\ x.arg = k
        BY ClassCommands3
    <2>2. Ran(x)
        BY <1>1
    <2> HIDE DEF x
    <2>3. Arg = k /\ status'
        BY <2>1, <2>2 DEF Ran, Arg
    <2> QED
        BY <2>1, <2>2, <2>3, RanIs
<1> QED
    BY <1>1

LEMMA RemovedStep ==
    ASSUME TypeOK, LinesInv, RemovedInv, [Next]_vars
    PROVE  RemovedInv'
<1> SUFFICES ASSUME Running', cfg'.enabled, NEW k \in DOMAIN ClassesOf(cfg')
             PROVE  Pending(And("remove", k))' \/ (files'[ClassesOf(cfg')[k].name] = None /\ NoUploads')
    BY DEF RemovedInv, NameOf
<1>1. ASSUME NEW c \in AddonConfigs, Apply(c)
      PROVE  Pending(And("remove", k))'
    BY <1>1, StartsPending
<1>2. ASSUME Running, cfg' = cfg
      PROVE  Pending(And("remove", k))' \/ (files'[ClassesOf(cfg')[k].name] = None /\ NoUploads')
    <2> DEFINE x == And("remove", k)
               n == NameOf(k)
    <2>0. k \in DOMAIN ClassesOf(cfg) /\ n = ClassesOf(cfg')[k].name /\ n \in ClassNames
        BY <1>2, NamesAre DEF NameOf
    <2>1. x.op = "and" /\ x.name = "remove"
        BY DEF And
    <2>2. ASSUME NoUploads
          PROVE  NoUploads'
        BY <1>2, <2>2, GoneStep DEF NoUploads
    <2> HIDE DEF n
    <2>3. CASE Pending(x)
        <3> HIDE DEF x
        <3>1. Pending(x)' \/ Ran(x)
            BY <1>2, <2>1, <2>3, PendingStep
        <3>2. CASE Ran(x)
            <4>1. RemoveFile /\ Arg = k
                BY <3>2, RanOfClass DEF x
            <4>2. /\ chain # <<>> /\ Due /\ Head(chain).op = "and" /\ Head(chain) = And("remove", Arg)
                  /\ files' = [files EXCEPT ![n] = None]
                BY <4>1, ClassCommandIs DEF n
            <4>3. Head(chain).name = "remove"
                BY <4>2 DEF And
            <4>4. \A y : y.name \in {"controller", "upload"} => Gone(y)
                <5>1. Head(chain) = And("upgrade", "longhorn") \/ Head(chain).name \in {"apply", "remove"}
                    BY <4>3
                <5>2. /\ \A y : y.name \in {"controller", "upload"} => y \notin Range(chain)
                      /\ \A y : y \notin Range(chain) => Gone(y) /\ ~Pending(y)
                    BY <4>2, <5>1, FinalHead, Zenon
                <5>3. ASSUME NEW y, y.name \in {"controller", "upload"}
                      PROVE  Gone(y)
                    <6>1. y \notin Range(chain)
                        BY <5>2, <5>3
                    <6> QED
                        BY <5>2, <6>1
                <5> QED
                    BY <5>3
            <4>5. NoUploads
                <5>1. \A j : And("upload", j).name = "upload"
                    BY DEF And
                <5> QED
                    BY <4>4, <5>1 DEF NoUploads
            <4>6. files'[n] = None
                BY <2>0, <4>2 DEF TypeOK
            <4> QED
                BY <2>0, <2>2, <4>5, <4>6
        <3> QED
            BY <3>1, <3>2 DEF x
    <2>4. CASE files[n] = None /\ NoUploads
        <3>1. ~UploadClass
            <4>1. SUFFICES ASSUME UploadClass
                           PROVE  FALSE
                OBVIOUS
            <4>2. Arg \in DOMAIN ClassesOf(cfg) /\ Head(chain) = And("upload", Arg) /\ chain # <<>>
                BY <4>1, ClassCommandIs
            <4>3. Head(chain) \in Range(chain)
                BY <4>2, HeadIs
            <4> QED
                BY <2>4, <4>2, <4>3 DEF NoUploads, Gone
        <3>2. files'[n] = None
            <4>1. CASE RemoveFile
                <5>1. files' = [files EXCEPT ![NameOf(Arg)] = None]
                    BY <4>1, ClassCommandIs
                <5> QED
                    BY <2>0, <2>4, <5>1 DEF TypeOK
            <4> QED
                BY <1>2, <2>4, <3>1, <4>1, Changes
        <3> QED
            BY <2>0, <2>2, <2>4, <3>2
    <2> QED
        BY <1>2, <2>0, <2>3, <2>4 DEF RemovedInv, n
<1> QED
    BY <1>1, <1>2, RunKind

\* Positions of the commands of one class in the last line.
LEMMA PairedFacts ==
    ASSUME TypeOK, LinesInv, chain # <<>>, Paired(chain), NEW k
    PROVE  /\ Head(chain) = And("remove", k) => And("apply", k) \notin Range(Tail(chain))
           /\ \A l : Head(chain) = And("apply", k) /\ And("remove", l) \in Range(chain)
                     => And("apply", l) \in Range(chain)
           /\ \A l : And("apply", l) \in Range(chain) => EndsWith(chain, And("apply", l))
<1>0. chain \in Seq(CommandsOf(cfg))
    BY DEF LinesInv, LineOK
<1>1. PICK n \in Nat : /\ n = Len(chain) /\ n >= 1 /\ DOMAIN chain = 1 .. n /\ DOMAIN Tail(chain) = 1 .. n - 1
                       /\ Head(chain) = chain[1] /\ \A j \in 1 .. n - 1 : Tail(chain)[j] = chain[j + 1]
    BY <1>0, TailFacts
<1>2. /\ \A j \in 1 .. n : chain[j].name = "apply" => j + 1 \in 1 .. n /\ chain[j + 1] = And("remove", chain[j].arg)
      /\ \A j \in 1 .. n : chain[j].name = "remove" /\ j > 1 => chain[j - 1] = And("apply", chain[j].arg)
      /\ \A i, j \in 1 .. n : chain[i].name = "remove" /\ chain[i] = chain[j] => i = j
      /\ \A j \in 1 .. n : chain[j].name \in {"apply", "remove"} => \A m \in j .. n : chain[m].op = "and"
    BY <1>1 DEF Paired
<1>3. \A l : And("apply", l).name = "apply" /\ And("apply", l).arg = l
             /\ And("remove", l).name = "remove" /\ And("remove", l).arg = l
    BY DEF And
<1>4. ASSUME Head(chain) = And("remove", k), And("apply", k) \in Range(Tail(chain))
      PROVE  FALSE
    <2>1. PICK j \in 1 .. n - 1 : chain[j + 1] = And("apply", k)
        BY <1>1, <1>4 DEF Range
    <2>2. j + 1 \in 1 .. n /\ 1 \in 1 .. n /\ (j + 1) + 1 # 1
        BY <1>1
    <2>3. (j + 1) + 1 \in 1 .. n /\ chain[(j + 1) + 1] = And("remove", k)
        BY <1>2, <1>3, <2>1, <2>2
    <2>4. chain[1].name = "remove" /\ chain[1] = chain[(j + 1) + 1]
        BY <1>1, <1>3, <1>4, <2>3
    <2> QED
        BY <1>2, <2>2, <2>3, <2>4
<1>5. ASSUME NEW l, Head(chain) = And("apply", k), And("remove", l) \in Range(chain)
      PROVE  And("apply", l) \in Range(chain)
    <2>1. PICK j \in 1 .. n : chain[j] = And("remove", l)
        BY <1>1, <1>5 DEF Range
    <2>2. j # 1
        BY <1>1, <1>3, <1>5, <2>1
    <2>3. j > 1 /\ j - 1 \in 1 .. n
        BY <1>1, <2>2
    <2>4. chain[j - 1] = And("apply", l)
        BY <1>2, <1>3, <2>1, <2>3
    <2> QED
        BY <1>1, <2>3, <2>4 DEF Range
<1>6. ASSUME NEW l, And("apply", l) \in Range(chain)
      PROVE  EndsWith(chain, And("apply", l))
    <2>1. PICK j \in 1 .. n : chain[j] = And("apply", l)
        BY <1>1, <1>6 DEF Range
    <2>2. \A m \in j .. n : chain[m].op = "and"
        BY <1>2, <1>3, <2>1
    <2> QED
        BY <1>1, <2>1, <2>2 DEF EndsWith
<1> QED
    BY <1>4, <1>5, <1>6

\* When the first of two classes of one name is applied and removed, the second
\* one still has to be applied, or its manifest is already gone.
LEMMA OneOfTwo ==
    ASSUME TypeOK, LinesInv, RemovedInv, [Next]_vars, Running, Running', cfg.enabled,
           NEW k \in DOMAIN ClassesOf(cfg), NEW l \in DOMAIN ClassesOf(cfg),
           k # l, NameOf(k) = NameOf(l), Pending(And("apply", k))
    PROVE  Pending(And("apply", k))' \/ Pending(And("apply", l))'
<1> DEFINE x == And("apply", k)
           y == And("apply", l)
<1>1. x.op = "and" /\ x # y
    BY DEF And
<1>2. Pending(x)' \/ Ran(x)
    BY <1>1, PendingStep
<1>3. CASE Ran(x)
    <2>1. ApplyClass /\ Arg = k /\ status' /\ chain # <<>> /\ chain' = Tail(chain)
        BY <1>3, RanOfClass DEF Ran, Move
    <2>2. /\ Due /\ Head(chain).op = "and" /\ Head(chain) = x /\ status' = Appliable(files[NameOf(k)])
        BY <2>1, ClassCommandIs
    <2>3. Head(chain).name = "apply"
        BY <2>2 DEF And
    <2>4. Paired(chain) /\ \A z : z \notin Range(chain) => ~Pending(z)
        <3>1. Head(chain) = And("upgrade", "longhorn") \/ Head(chain).name \in {"apply", "remove"}
            BY <2>3
        <3> QED
            BY <2>1, <2>2, <3>1, FinalHead, Zenon
    <2>5. y \in Range(chain)
        <3>1. files[NameOf(l)] # None
            BY <2>1, <2>2 DEF Appliable
        <3>2. Pending(And("remove", l))
            BY <3>1 DEF RemovedInv
        <3>3. And("remove", l) \in Range(chain)
            BY <2>4, <3>2
        <3> QED
            BY <2>1, <2>2, <2>4, <3>3, PairedFacts
    <2>6. EndsWith(chain, y)
        BY <2>1, <2>4, <2>5, PairedFacts
    <2>7. EndsWith(Tail(chain), y)
        <3>1. chain \in Seq(CommandsOf(cfg))
            BY DEF LinesInv, LineOK
        <3> HIDE DEF x, y
        <3> QED
            BY <1>1, <2>1, <2>2, <2>6, <3>1, EndsWithTail
    <2> QED
        BY <2>1, <2>7 DEF Pending
<1> QED
    BY <1>2, <1>3

LEMMA OneOfTwoStep ==
    ASSUME TypeOK, LinesInv, RemovedInv, OneOfTwoInv, [Next]_vars
    PROVE  OneOfTwoInv'
<1> SUFFICES ASSUME Running', cfg'.enabled, NEW k \in DOMAIN ClassesOf(cfg'), NEW l \in DOMAIN ClassesOf(cfg'),
                    k # l, ClassesOf(cfg')[k].name = ClassesOf(cfg')[l].name
             PROVE  Pending(And("apply", k))' \/ Pending(And("apply", l))'
    BY DEF OneOfTwoInv, NameOf
<1>1. ASSUME NEW c \in AddonConfigs, Apply(c)
      PROVE  Pending(And("apply", k))'
    BY <1>1, StartsPending
<1>2. ASSUME Running, cfg' = cfg
      PROVE  Pending(And("apply", k))' \/ Pending(And("apply", l))'
    <2>1. NameOf(k) = NameOf(l) /\ k \in DOMAIN ClassesOf(cfg) /\ l \in DOMAIN ClassesOf(cfg) /\ cfg.enabled
        BY <1>2 DEF NameOf
    <2>2. Pending(And("apply", k)) \/ Pending(And("apply", l))
        BY <1>2, <2>1 DEF OneOfTwoInv
    <2> QED
        BY <1>2, <2>1, <2>2, OneOfTwo
<1> QED
    BY <1>1, <1>2, RunKind

LEMMA UploadedStep ==
    ASSUME TypeOK, LinesInv, UploadedInv, [Next]_vars
    PROVE  UploadedInv'
<1> SUFFICES ASSUME Running', cfg'.enabled, NamesDiffer', NEW k \in DOMAIN ClassesOf(cfg')
             PROVE  \/ Pending(And("upload", k))'
                    \/ files'[ClassesOf(cfg')[k].name] = ClassesOf(cfg')[k]
                    \/ Gone(And("apply", k))'
    BY DEF UploadedInv, NameOf
<1>1. ASSUME NEW c \in AddonConfigs, Apply(c)
      PROVE  Pending(And("upload", k))'
    BY <1>1, StartsPending
<1>2. ASSUME Running, cfg' = cfg
      PROVE  \/ Pending(And("upload", k))'
             \/ files'[ClassesOf(cfg')[k].name] = ClassesOf(cfg')[k]
             \/ Gone(And("apply", k))'
    <2> DEFINE x == And("upload", k)
               a == And("apply", k)
               n == NameOf(k)
               class == ClassesOf(cfg)[k]
    <2>0. /\ k \in DOMAIN ClassesOf(cfg) /\ n = ClassesOf(cfg')[k].name /\ class = ClassesOf(cfg')[k]
          /\ n \in ClassNames /\ cfg.enabled /\ NamesDiffer
        BY <1>2, NamesAre DEF NameOf, NamesDiffer
    <2>1. x.op = "and"
        BY DEF And
    <2> HIDE DEF n, class
    <2>2. CASE Pending(x)
        <3>1. Pending(x)' \/ Ran(x)
            BY <1>2, <2>1, <2>2, PendingStep
        <3>2. CASE Ran(x)
            <4>1. UploadClass /\ Arg = k
                BY <3>2, RanOfClass
            <4>2. files' = [files EXCEPT ![n] = class]
                BY <4>1, ClassCommandIs DEF n, class
            <4> QED
                BY <2>0, <4>2 DEF TypeOK
        <3> QED
            BY <3>1, <3>2
    <2>3. CASE files[n] = class
        <3>1. CASE UploadClass
            <4>1. /\ Arg \in DOMAIN ClassesOf(cfg)
                  /\ files' = [files EXCEPT ![NameOf(Arg)] = ClassesOf(cfg)[Arg]]
                BY <3>1, ClassCommandIs
            <4>2. NameOf(Arg) = n => Arg = k
                BY <2>0, <4>1 DEF NamesDiffer, n
            <4>3. files'[n] = class
                BY <2>0, <2>3, <4>1, <4>2 DEF TypeOK, class
            <4> QED
                BY <2>0, <4>3
        <3>2. CASE RemoveFile
            <4>1. /\ Arg \in DOMAIN ClassesOf(cfg) /\ chain # <<>> /\ Due /\ Head(chain).op = "and"
                  /\ Head(chain) = And("remove", Arg)
                  /\ files' = [files EXCEPT ![NameOf(Arg)] = None]
                BY <3>2, ClassCommandIs
            <4>2. CASE NameOf(Arg) = n
                <5>1. Arg = k
                    BY <2>0, <4>1, <4>2 DEF NamesDiffer, n
                <5>2. Head(chain).name = "remove"
                    BY <4>1 DEF And
                <5>3. Head(chain) = And("upgrade", "longhorn") \/ Head(chain).name \in {"apply", "remove"}
                    BY <5>2
                <5>4. todo = <<>> /\ Paired(chain)
                    BY <4>1, <5>3, FinalHead, Zenon
                <5>5. a \notin Range(Tail(chain))
                    BY <4>1, <5>1, <5>4, PairedFacts
                <5>6. chain' = Tail(chain) /\ todo' = todo
                    BY <3>2 DEF RemoveFile, Done
                <5>7. Gone(a)'
                    BY <5>4, <5>5, <5>6 DEF Gone
                <5> QED
                    BY <5>7
            <4>3. CASE NameOf(Arg) # n
                BY <2>0, <2>3, <4>1, <4>3 DEF TypeOK
            <4> QED
                BY <4>2, <4>3
        <3> QED
            BY <1>2, <2>0, <2>3, <3>1, <3>2, Changes
    <2>4. CASE Gone(a)
        BY <1>2, <2>4, GoneStep
    <2> QED
        BY <1>2, <2>0, <2>2, <2>3, <2>4 DEF UploadedInv, n, class
<1> QED
    BY <1>1, <1>2, RunKind

\* The manifest that is applied is the one of the class.
LEMMA ApplyHead ==
    ASSUME TypeOK, LinesInv, UploadedInv, Running, cfg.enabled, NamesDiffer, ApplyClass
    PROVE  files[NameOf(Arg)] = ClassesOf(cfg)[Arg]
<1>1. /\ Arg \in DOMAIN ClassesOf(cfg) /\ chain # <<>> /\ Due /\ Head(chain).op = "and"
      /\ Head(chain) = And("apply", Arg)
    BY ClassCommandIs
<1>2. Head(chain).name = "apply" /\ And("upload", Arg).name = "upload"
    BY <1>1 DEF And
<1>3. Head(chain) = And("upgrade", "longhorn") \/ Head(chain).name \in {"apply", "remove"}
    BY <1>2
<1>4. /\ \A y : y.name \in {"controller", "upload"} => y \notin Range(chain)
      /\ \A y : y \notin Range(chain) => ~Pending(y)
    BY <1>1, <1>3, FinalHead, Zenon
<1>5. ~Pending(And("upload", Arg))
    BY <1>2, <1>4
<1>6. ~Gone(And("apply", Arg))
    BY <1>1, HeadIs DEF Gone
<1> QED
    BY <1>1, <1>5, <1>6 DEF UploadedInv

LEMMA AppliedStep ==
    ASSUME TypeOK, LinesInv, OneOfTwoInv, UploadedInv, AppliedInv, [Next]_vars
    PROVE  AppliedInv'
<1>1. ASSUME Running', cfg'.enabled, NamesDiffer', NEW k \in DOMAIN ClassesOf(cfg')
      PROVE  Pending(And("apply", k))' \/ classes'[ClassesOf(cfg')[k].name] = ClassesOf(cfg')[k]
    <2>1. ASSUME NEW c \in AddonConfigs, Apply(c)
          PROVE  Pending(And("apply", k))'
        BY <1>1, <2>1, StartsPending
    <2>2. ASSUME Running, cfg' = cfg
          PROVE  Pending(And("apply", k))' \/ classes'[ClassesOf(cfg')[k].name] = ClassesOf(cfg')[k]
        <3> DEFINE x == And("apply", k)
                   n == NameOf(k)
                   class == ClassesOf(cfg)[k]
        <3>0. /\ k \in DOMAIN ClassesOf(cfg) /\ n = ClassesOf(cfg')[k].name /\ class = ClassesOf(cfg')[k]
              /\ n \in ClassNames /\ cfg.enabled /\ NamesDiffer
            BY <1>1, <2>2, NamesAre DEF NameOf, NamesDiffer
        <3>1. x.op = "and"
            BY DEF And
        <3> HIDE DEF n, class
        <3>2. ASSUME ApplyClass, Arg = k, status'
              PROVE  classes'[n] = class
            <4>1. classes' = [classes EXCEPT ![n] = files[n]]
                BY <3>2, ClassCommandIs DEF n
            <4>2. files[n] = class
                BY <2>2, <3>0, <3>2, ApplyHead DEF n, class
            <4> QED
                BY <3>0, <4>1, <4>2 DEF TypeOK
        <3>3. CASE Pending(x)
            <4>1. Pending(x)' \/ Ran(x)
                BY <1>1, <2>2, <3>1, <3>3, PendingStep
            <4> QED
                BY <3>0, <3>2, <4>1, RanOfClass
        <3>4. CASE classes[n] = class
            <4>1. CASE classes' # classes
                <5>1. ApplyClass
                    BY <2>2, <4>1, Changes
                <5>2. /\ Arg \in DOMAIN ClassesOf(cfg) /\ status'
                      /\ classes' = [classes EXCEPT ![NameOf(Arg)] = files[NameOf(Arg)]]
                    BY <4>1, <5>1, ClassCommandIs
                <5>3. NameOf(Arg) = n => Arg = k
                    BY <3>0, <5>2 DEF NamesDiffer, n
                <5>4. NameOf(Arg) # n => classes'[n] = class
                    BY <3>0, <3>4, <5>2 DEF TypeOK
                <5> QED
                    BY <3>0, <3>2, <5>1, <5>2, <5>3, <5>4
            <4> QED
                BY <3>0, <3>4, <4>1
        <3> QED
            BY <2>2, <3>0, <3>3, <3>4 DEF AppliedInv, n, class
    <2> QED
        BY <1>1, <2>1, <2>2, RunKind
<1>2. ASSUME Succeeded', cfg'.enabled, NEW k \in DOMAIN ClassesOf(cfg')
      PROVE  classes'[ClassesOf(cfg')[k].name] = ClassesOf(cfg')[k]
    <2>1. cfg' = cfg /\ classes' = classes /\ (Succeeded \/ (Running /\ \A x : ~Pending(x)))
        BY <1>2, EndKind DEF cluster
    <2>2. k \in DOMAIN ClassesOf(cfg) /\ cfg.enabled
        BY <1>2, <2>1
    <2>3. classes[NameOf(k)] = ClassesOf(cfg)[k]
        <3>1. CASE Succeeded
            BY <2>2, <3>1 DEF AppliedInv
        <3>2. CASE Running /\ \A x : ~Pending(x)
            <4>1. NamesDiffer
                BY <2>2, <3>2 DEF OneOfTwoInv, NamesDiffer
            <4> QED
                BY <2>2, <3>2, <4>1 DEF AppliedInv
        <3> QED
            BY <2>1, <3>1, <3>2
    <2> QED
        BY <2>1, <2>3 DEF NameOf
<1> QED
    BY <1>1, <1>2 DEF AppliedInv, NameOf

-----------------------------------------------------------------------------
(* The theorems *)

LEMMA InitInv ==
    ASSUME Init
    PROVE  Inv
<1>1. pc = "idle" /\ cfg \in AddonConfigs /\ todo = <<>> /\ chain = <<>> /\ status = TRUE /\ result = "none"
    BY DEF Init
<1>2. TypeOK
    <2>1. todo \in Seq(Seq(Command)) /\ chain \in Seq(Command)
        BY <1>1
    <2>2. releases \in [Charts -> Release \cup {None}] /\ classes \in [ClassNames -> Class \cup {None}]
          /\ files \in [ClassNames -> Class \cup {None}] /\ \A n \in ClassNames : files[n] = None
        BY DEF Init
    <2>3. calls \in Nat /\ events \in Nat
        BY DEF Init
    <2> QED
        BY <1>1, <2>1, <2>2, <2>3 DEF Init, TypeOK
<1>3. LinesInv
    BY <1>1 DEF LinesInv, LineOK, Paired, Final
<1> QED
    BY <1>1, <1>2, <1>3 DEF Inv, K3sInv, TraefikInv, SnapshotsInv, RemovedInv, OneOfTwoInv, UploadedInv,
                            AppliedInv, Running, Succeeded

LEMMA TypeStep ==
    ASSUME TypeOK, LinesInv, LinesInv', [Next]_vars
    PROVE  TypeOK'
<1> USE DEF TypeOK
<1>1. pc' \in {"idle", "config", "start", "run"} /\ result' \in {"none", "ok", "error"} /\ cfg' \in AddonConfigs
    BY StepKinds DEF Apply, NextLine, Move, Return, WriteK3sConfig, StartK3s, Reboot, Drift, vars, call
<1>2. todo' \in Seq(Seq(Command)) /\ chain' \in Seq(Command)
    <2> DEFINE C == CommandsOf(cfg')
    <2>1. \A x \in C : x \in Command
        BY <1>1, CommandIs
    <2>2. todo' \in Seq(Seq(C)) /\ chain' \in Seq(C)
        BY DEF LinesInv, LineOK
    <2> HIDE DEF C
    <2>3. \A s \in Seq(C) : s \in Seq(Command)
        BY <2>1
    <2> QED
        BY <2>2, <2>3
<1>3. status' \in BOOLEAN
    BY StatusStep
<1>4. helm' \in BOOLEAN
    BY DEF Next, Apply, NextLine, Skip, True, WriteK3sConfig, StartK3s, EnsureHelm, AddRepo, UpdateRepos, Upgrade, ApplyManifest,
           Rollout, UploadClass, ApplyClass, RemoveFile, CommandFails, StartFails, ConnectionLost, Reboot, Drift, vars, server
<1>5. repos' \in SUBSET Charts
    <2>1. CASE AddRepo
        <3>1. Arg \in Charts
            BY <2>1, HeadIs DEF AddRepo, At
        <3> QED
            BY <2>1, <3>1 DEF AddRepo
    <2>2. CASE ~AddRepo
        BY <2>2 DEF Next, Apply, NextLine, Skip, True, WriteK3sConfig, StartK3s, EnsureHelm, UpdateRepos, Upgrade, ApplyManifest,
           Rollout, UploadClass, ApplyClass, RemoveFile, CommandFails, StartFails, ConnectionLost, Reboot, Drift, vars, server
    <2> QED
        BY <2>1, <2>2
<1>6. releases' \in [Charts -> Release \cup {None}]
    <2>1. CASE Running /\ releases' # releases
        <3>1. Upgrade
            BY <2>1, Changes
        <3>2. Arg \in Charts
            BY <3>1, HeadIs DEF Upgrade, At
        <3>3. ChartOf(Arg) \in Chart
            BY <3>2, ConfigType DEF ChartOf
        <3>4. releases[Arg] \in Release \cup {None}
            BY <3>2
        <3>5. Upgraded(releases[Arg], ChartOf(Arg)) \in Release
            BY <3>3, <3>4, ConstantAssumption DEF Upgraded, Release, Chart
        <3> QED
            BY <2>1, <3>1, <3>2, <3>5 DEF Upgrade
    <2>2. CASE ~Running
        BY <2>2, StepKinds DEF Running, Apply, NextLine, Move, WriteK3sConfig, StartK3s, Reboot, Drift, vars, cluster
    <2> QED
        BY <2>1, <2>2
<1>7. /\ same' \in BOOLEAN /\ behind' \in BOOLEAN /\ active' \in BOOLEAN
      /\ k3sFile' \in K3sConfig \cup {None} /\ loaded' \in K3sConfig \cup {None}
    <2>1. CASE WriteK3sConfig
        <3>1. Content(cfg) \in K3sConfig
            BY ContentType
        <3> QED
            BY <2>1, <3>1 DEF WriteK3sConfig
    <2>2. CASE ~WriteK3sConfig
        BY <2>2 DEF Next, Apply, StartK3s, NextLine, Skip, True, EnsureHelm, AddRepo, UpdateRepos, Upgrade,
           ApplyManifest, Rollout, UploadClass, ApplyClass, RemoveFile, CommandFails, StartFails, ConnectionLost,
           Reboot, Drift, Done, vars, k3s
    <2> QED
        BY <2>1, <2>2
<1>8. snapshots' \in SUBSET Range(Manifests)
    <2>1. CASE Running /\ snapshots' # snapshots
        <3>1. ApplyManifest
            BY <2>1, Changes
        <3>2. Arg \in Range(Manifests)
            BY <3>1, HeadIs DEF ApplyManifest, At
        <3> QED
            BY <3>1, <3>2 DEF ApplyManifest
    <2>2. CASE ~Running
        BY <2>2, StepKinds DEF Running, Apply, NextLine, Move, WriteK3sConfig, StartK3s, Reboot, Drift, vars, cluster
    <2> QED
        BY <2>1, <2>2
<1>9. /\ files' \in [ClassNames -> Class \cup {None}]
      /\ \A n \in ClassNames : files'[n] # None => files'[n].name = n
    <2>1. CASE Running /\ files' # files
        <3>1. UploadClass \/ RemoveFile
            BY <2>1, Changes
        <3>2. /\ Arg \in DOMAIN ClassesOf(cfg) /\ NameOf(Arg) \in ClassNames
              /\ UploadClass => files' = [files EXCEPT ![NameOf(Arg)] = ClassesOf(cfg)[Arg]]
              /\ RemoveFile => files' = [files EXCEPT ![NameOf(Arg)] = None]
            BY <3>1, ClassCommandIs
        <3>3. ClassesOf(cfg)[Arg] \in Class /\ ClassesOf(cfg)[Arg].name = NameOf(Arg)
            BY <3>2, NamesAre DEF NameOf
        <3> QED
            BY <3>1, <3>2, <3>3
    <2>2. CASE ~Running
        BY <2>2, StepKinds DEF Running, Apply, NextLine, Move, WriteK3sConfig, StartK3s, Reboot, Drift, vars, server
    <2> QED
        BY <2>1, <2>2
<1>10. classes' \in [ClassNames -> Class \cup {None}]
    <2>1. CASE Running /\ classes' # classes
        <3>1. ApplyClass
            BY <2>1, Changes
        <3>2. NameOf(Arg) \in ClassNames /\ classes' = [classes EXCEPT ![NameOf(Arg)] = files[NameOf(Arg)]]
            BY <2>1, <3>1, ClassCommandIs
        <3> QED
            BY <3>2
    <2>2. CASE ~Running
        BY <2>2, StepKinds DEF Running, Apply, NextLine, Move, WriteK3sConfig, StartK3s, Reboot, Drift, vars, cluster
    <2> QED
        BY <2>1, <2>2
<1>11. calls' \in Nat
    BY DEF Next, Apply, NextLine, Skip, True, WriteK3sConfig, StartK3s, EnsureHelm, AddRepo, UpdateRepos, Upgrade, ApplyManifest,
           Rollout, UploadClass, ApplyClass, RemoveFile, CommandFails, StartFails, ConnectionLost, Reboot, Drift, vars, Done
<1>12. events' \in Nat
    BY DEF Next, Apply, NextLine, Skip, True, WriteK3sConfig, StartK3s, EnsureHelm, AddRepo, UpdateRepos, Upgrade, ApplyManifest,
           Rollout, UploadClass, ApplyClass, RemoveFile, CommandFails, StartFails, ConnectionLost, Reboot, Drift, vars, Done, Happens
<1> QED
    BY <1>1, <1>2, <1>3, <1>4, <1>5, <1>6, <1>7, <1>8, <1>9, <1>10, <1>11, <1>12

LEMMA InvStep ==
    ASSUME Inv, [Next]_vars
    PROVE  Inv'
<1>1. LinesInv'
    BY LinesStep DEF Inv
<1>2. TypeOK'
    BY <1>1, TypeStep DEF Inv
<1>3. K3sInv' /\ TraefikInv' /\ SnapshotsInv'
    BY K3sStep, TraefikStep, SnapshotsStep DEF Inv
<1>4. RemovedInv' /\ OneOfTwoInv' /\ UploadedInv' /\ AppliedInv'
    BY RemovedStep, OneOfTwoStep, UploadedStep, AppliedStep DEF Inv
<1> QED
    BY <1>1, <1>2, <1>3, <1>4 DEF Inv

LEMMA Invariance == Spec => []Inv
<1>1. Init => Inv
    BY InitInv
<1>2. Inv /\ [Next]_vars => Inv'
    BY InvStep
<1> QED
    BY <1>1, <1>2, PTL DEF Spec

\* Every command, release, class and manifest of an apply is one that the
\* configuration may ask for.
THEOREM AddonsTypeOK == Spec => []TypeOK
<1>1. Inv => TypeOK
    BY DEF Inv
<1> QED
    BY <1>1, Invariance, PTL

\* After a call without an error the packaged Traefik is there exactly when it
\* was asked for, unless K3s was already behind config.yaml when the call began
\* (k3s.go:85-105), and in mode "install" the Helm release is the one asked for
\* (helm.go:26-57), whatever failed in calls before and whatever the
\* administrator removed.
THEOREM AddonsTraefikApplied == Spec => []TraefikApplied
<1>1. Inv => TraefikApplied
    <2> SUFFICES ASSUME Inv, Succeeded
                 PROVE  /\ Packaged = PackagedAsked \/ behind
                        /\ cfg.mode = "install" => InPlace(releases["traefik"], cfg.traefik)
        BY DEF TraefikApplied
    <2>1. behind \/ loaded = Content(cfg)
        BY DEF Inv, K3sInv
    <2>2. Content(cfg) # None /\ Content(cfg).disable = ~PackagedAsked
        <3>1. cfg.mode \in {"default", "disabled", "install"} /\ cfg.disable \in BOOLEAN
            BY ConfigType DEF Inv, TypeOK
        <3>2. Content(cfg) # None
            BY ContentType DEF Inv, TypeOK
        <3> QED
            BY <3>1, <3>2 DEF Content, DisableTraefik, PackagedAsked
    <2>3. cfg.mode = "install" => InPlace(releases["traefik"], cfg.traefik)
        BY DEF Inv, TraefikInv
    <2>4. loaded = Content(cfg) => Packaged = PackagedAsked
        BY <2>2, Zenon DEF Packaged, PackagedAsked
    <2> QED
        BY <2>1, <2>3, <2>4
<1> QED
    BY <1>1, Invariance, PTL

\* After a call without an error every storage class asked for is in the
\* cluster as this call asks for it, for any number of classes, in any order of
\* the map, with names given twice (helm.go:81-88: upload, kubectl apply, rm -f).
THEOREM AddonsClassesApplied == Spec => []ClassesApplied
<1>1. Inv => ClassesApplied
    BY DEF Inv, AppliedInv, ClassesApplied, NameOf
<1> QED
    BY <1>1, Invariance, PTL

\* helm upgrade --install of Longhorn changes its release only in a cluster
\* with all of the snapshot manifests (helm.go:63-80).
THEOREM AddonsSnapshotsFirst == Spec => SnapshotsFirst
<1> DEFINE Step == releases'["longhorn"] \notin {None, releases["longhorn"]} => snapshots = Range(Manifests)
<1>1. ASSUME Inv, [Next]_vars
      PROVE  Step
    <2> SUFFICES ASSUME releases'["longhorn"] \notin {None, releases["longhorn"]}
                 PROVE  snapshots = Range(Manifests)
        OBVIOUS
    <2>0. TypeOK /\ LinesInv /\ "longhorn" \in Charts
        BY <1>1 DEF Inv, Charts
    <2>1. CASE ~Running
        BY <1>1, <2>0, <2>1, StepKinds DEF Running, Apply, NextLine, Move, WriteK3sConfig, StartK3s, Reboot, Drift, vars, cluster, TypeOK
    <2>2. CASE Running
        <3>1. Upgrade
            BY <1>1, <2>2, Changes
        <3>2. status' /\ releases' = [releases EXCEPT ![Arg] = releases'[Arg]]
            BY <2>0, <3>1, UpgradeInPlace
        <3>3. Arg = "longhorn"
            BY <2>0, <3>2 DEF TypeOK
        <3>4. chain # <<>> /\ Due /\ Head(chain).name = "upgrade"
            BY <3>1 DEF Upgrade, At
        <3>5. Head(chain) = And("upgrade", "longhorn")
            BY <2>0, <3>3, <3>4, HeadIs
        <3>6. Head(chain).op = "and"
            BY <3>5 DEF And
        <3>7. /\ cfg.enabled
              /\ \A y : y.name \in {"controller", "upload"} => y \notin Range(chain)
              /\ \A y : y \notin Range(chain) => ~Pending(y)
            BY <2>0, <3>4, <3>5, <3>6, FinalHead, Zenon
        <3>8. And("controller", None).name = "controller"
            BY DEF And
        <3>9. ~Pending(And("controller", None))
            BY <3>7, <3>8
        <3> QED
            BY <1>1, <2>2, <3>7, <3>9 DEF Inv, SnapshotsInv
    <2> QED
        BY <2>1, <2>2
<1>2. Inv /\ [Next]_vars => [Step]_vars
    BY <1>1
<1> QED
    BY <1>2, Invariance, PTL DEF Spec, SnapshotsFirst
=============================================================================
