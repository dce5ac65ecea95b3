------------------------------ MODULE ImdsProofs ------------------------------
(***************************************************************************)
(* What holds of the EC2 walk for any host, any service behind it, any     *)
(* life of a token and any faults.                                         *)
(***************************************************************************)
EXTENDS Imds, SequenceTheorems, FiniteSetTheorems, TLAPS

----------------------------------------------------------------------------
\* The paths.

Full == <<<<"token">>, <<"versions">>>> \o Leaves \o Lists \o Directories \o Documents

Top == {<<"ami-id">>, <<"instance-id">>, <<"region">>, <<"zone">>, <<"security-groups">>,
        <<"block-device-mapping">>, <<"public-keys">>, <<"macs">>,
        <<"iam">>, <<"identity">>, <<"user-data">>}
Dirs == {<<"block-device-mapping">>, <<"public-keys">>, <<"macs">>}
UserData == <<"user-data">>

\* What a directory may list.
Kids(d) == {p \in Below : p[1] = d[1]}

LEMMA ConcatIs ==
  ASSUME NEW S, NEW s \in Seq(S), NEW t \in Seq(S), NEW u \in Seq(S),
         Len(u) = Len(s) + Len(t),
         \A i \in 1 .. Len(s) : u[i] = s[i],
         \A i \in 1 .. Len(t) : u[Len(s) + i] = t[i]
  PROVE  s \o t = u
<1>1. /\ s \o t \in Seq(S) /\ Len(s \o t) = Len(s) + Len(t)
      /\ \A i \in 1 .. Len(s) + Len(t) : (s \o t)[i] = IF i <= Len(s) THEN s[i] ELSE t[i - Len(s)]
  BY ConcatProperties
<1>2. Len(s) \in Nat /\ Len(t) \in Nat
  BY LenProperties
<1>3. ASSUME NEW i \in 1 .. Len(u) PROVE (s \o t)[i] = u[i]
  <2>1. CASE i <= Len(s)
    BY <1>1, <1>2, <2>1
  <2>2. CASE i > Len(s)
    <3>1. i - Len(s) \in 1 .. Len(t) /\ Len(s) + (i - Len(s)) = i
      BY <1>2, <2>2
    <3> QED BY <1>1, <1>2, <2>2, <3>1
  <2> QED BY <1>2, <2>1, <2>2
<1> QED BY <1>1, <1>3, SeqEqual

LEMMA FullIs ==
  Full = <<<<"token">>, <<"versions">>, <<"ami-id">>, <<"instance-id">>, <<"region">>, <<"zone">>,
           <<"security-groups">>, <<"block-device-mapping">>, <<"public-keys">>, <<"macs">>,
           <<"iam">>, <<"identity">>, <<"user-data">>>>
<1> DEFINE S == {<<"token">>, <<"versions">>} \cup Top
           a == <<<<"token">>, <<"versions">>>>
           b == <<<<"token">>, <<"versions">>, <<"ami-id">>, <<"instance-id">>, <<"region">>,
                  <<"zone">>>>
           c == <<<<"token">>, <<"versions">>, <<"ami-id">>, <<"instance-id">>, <<"region">>,
                  <<"zone">>, <<"security-groups">>>>
           d == <<<<"token">>, <<"versions">>, <<"ami-id">>, <<"instance-id">>, <<"region">>,
                  <<"zone">>, <<"security-groups">>, <<"block-device-mapping">>,
                  <<"public-keys">>, <<"macs">>>>
           e == <<<<"token">>, <<"versions">>, <<"ami-id">>, <<"instance-id">>, <<"region">>,
                  <<"zone">>, <<"security-groups">>, <<"block-device-mapping">>,
                  <<"public-keys">>, <<"macs">>, <<"iam">>, <<"identity">>, <<"user-data">>>>
<1>1. /\ a \in Seq(S) /\ b \in Seq(S) /\ c \in Seq(S) /\ d \in Seq(S) /\ e \in Seq(S)
      /\ Leaves \in Seq(S) /\ Lists \in Seq(S) /\ Directories \in Seq(S) /\ Documents \in Seq(S)
  BY DEF Top, Leaves, Lists, Directories, Documents
<1>2. a \o Leaves = b
  <2>1. Len(a) = 2 /\ Len(Leaves) = 4 /\ Len(b) = 6
    BY DEF Leaves
  <2>2. \A i \in 1 .. 2 : b[i] = a[i]
    OBVIOUS
  <2>3. \A i \in 1 .. 4 : b[2 + i] = Leaves[i]
    BY DEF Leaves
  <2> HIDE DEF S, a, b, c, d, e
  <2>4. /\ Len(b) = Len(a) + Len(Leaves)
        /\ \A i \in 1 .. Len(a) : b[i] = a[i]
        /\ \A i \in 1 .. Len(Leaves) : b[Len(a) + i] = Leaves[i]
    BY <2>1, <2>2, <2>3
  <2>5. a \in Seq(S) /\ Leaves \in Seq(S) /\ b \in Seq(S)
    BY <1>1
  <2> QED BY <2>4, <2>5, ConcatIs
<1>3. b \o Lists = c
  <2>1. Len(b) = 6 /\ Len(Lists) = 1 /\ Len(c) = 7
    BY DEF Lists
  <2>2. \A i \in 1 .. 6 : c[i] = b[i]
    OBVIOUS
  <2>3. \A i \in 1 .. 1 : c[6 + i] = Lists[i]
    BY DEF Lists
  <2> HIDE DEF S, a, b, c, d, e
  <2>4. /\ Len(c) = Len(b) + Len(Lists)
        /\ \A i \in 1 .. Len(b) : c[i] = b[i]
        /\ \A i \in 1 .. Len(Lists) : c[Len(b) + i] = Lists[i]
    BY <2>1, <2>2, <2>3
  <2>5. b \in Seq(S) /\ Lists \in Seq(S) /\ c \in Seq(S)
    BY <1>1
  <2> QED BY <2>4, <2>5, ConcatIs
<1>4. c \o Directories = d
  <2>1. Len(c) = 7 /\ Len(Directories) = 3 /\ Len(d) = 10
    BY DEF Directories
  <2>2. \A i \in 1 .. 7 : d[i] = c[i]
    OBVIOUS
  <2>3. \A i \in 1 .. 3 : d[7 + i] = Directories[i]
    BY DEF Directories
  <2> HIDE DEF S, a, b, c, d, e
  <2>4. /\ Len(d) = Len(c) + Len(Directories)
        /\ \A i \in 1 .. Len(c) : d[i] = c[i]
        /\ \A i \in 1 .. Len(Directories) : d[Len(c) + i] = Directories[i]
    BY <2>1, <2>2, <2>3
  <2>5. c \in Seq(S) /\ Directories \in Seq(S) /\ d \in Seq(S)
    BY <1>1
  <2> QED BY <2>4, <2>5, ConcatIs
<1>5. d \o Documents = e
  <2>1. Len(d) = 10 /\ Len(Documents) = 3 /\ Len(e) = 13
    BY DEF Documents
  <2>2. \A i \in 1 .. 10 : e[i] = d[i]
    OBVIOUS
  <2>3. \A i \in 1 .. 3 : e[10 + i] = Documents[i]
    BY DEF Documents
  <2> HIDE DEF S, a, b, c, d, e
  <2>4. /\ Len(e) = Len(d) + Len(Documents)
        /\ \A i \in 1 .. Len(d) : e[i] = d[i]
        /\ \A i \in 1 .. Len(Documents) : e[Len(d) + i] = Documents[i]
    BY <2>1, <2>2, <2>3
  <2>5. d \in Seq(S) /\ Documents \in Seq(S) /\ e \in Seq(S)
    BY <1>1
  <2> QED BY <2>4, <2>5, ConcatIs
<1> QED BY <1>2, <1>3, <1>4, <1>5 DEF Full

\* Two sequences one after the other.
LEMMA RangeOfConcat ==
  ASSUME NEW S, NEW s \in Seq(S), NEW t \in Seq(S)
  PROVE  /\ Range(s \o t) = Range(s) \cup Range(t)
         /\ IsInjective(s) /\ IsInjective(t) /\ Range(s) \cap Range(t) = {} => IsInjective(s \o t)
<1> DEFINE u == s \o t
<1>1. /\ u \in Seq(S) /\ Len(u) = Len(s) + Len(t)
      /\ \A i \in 1 .. Len(u) : u[i] = IF i <= Len(s) THEN s[i] ELSE t[i - Len(s)]
  BY ConcatProperties
<1>2. /\ Len(s) \in Nat /\ Len(t) \in Nat
      /\ DOMAIN s = 1 .. Len(s) /\ DOMAIN t = 1 .. Len(t) /\ DOMAIN u = 1 .. Len(s) + Len(t)
  BY <1>1, LenProperties
<1> HIDE DEF u
<1>3. ASSUME NEW i \in DOMAIN s PROVE i \in DOMAIN u /\ u[i] = s[i]
  BY <1>1, <1>2
<1>4. ASSUME NEW i \in DOMAIN t PROVE Len(s) + i \in DOMAIN u /\ u[Len(s) + i] = t[i]
  <2>1. Len(s) + i \in 1 .. Len(u) /\ ~ (Len(s) + i <= Len(s)) /\ (Len(s) + i) - Len(s) = i
    BY <1>1, <1>2
  <2> QED BY <1>1, <1>2, <2>1
<1>5. ASSUME NEW i \in DOMAIN u
      PROVE  \/ i \in DOMAIN s /\ u[i] = s[i]
             \/ i - Len(s) \in DOMAIN t /\ u[i] = t[i - Len(s)] /\ ~ (i <= Len(s))
  BY <1>1, <1>2
<1>6. Range(u) = Range(s) \cup Range(t)
  <2>1. \A x \in Range(u) : x \in Range(s) \cup Range(t)
    BY <1>5 DEF Range
  <2>2. \A x \in Range(s) \cup Range(t) : x \in Range(u)
    BY <1>3, <1>4 DEF Range
  <2> QED BY <2>1, <2>2
<1>7. ASSUME IsInjective(s), IsInjective(t), Range(s) \cap Range(t) = {},
             NEW i \in DOMAIN u, NEW j \in DOMAIN u, u[i] = u[j]
      PROVE  i = j
  <2>1. \A k \in DOMAIN s, l \in DOMAIN t : s[k] # t[l]
    BY <1>7 DEF Range
  <2>2. i \in Int /\ j \in Int
    BY <1>2
  <2> QED BY <1>2, <1>5, <1>7, <2>1, <2>2 DEF IsInjective
<1> QED BY <1>6, <1>7 DEF u, IsInjective

\* The members of a finite set, one after the other.
LEMMA SetToSeqHolds ==
  ASSUME NEW S, IsFiniteSet(S)
  PROVE  SetToSeq(S) \in Seq(S) /\ IsInjective(SetToSeq(S)) /\ Range(SetToSeq(S)) = S
<1> DEFINE n == Cardinality(S)
           f == SetToSeq(S)
<1>1. n \in Nat /\ \E g \in [1 .. n -> S] : IsInjective(g)
  BY FS_CardinalityType DEF ExistsBijection, Bijection, Injection
<1>2. f \in [1 .. n -> S] /\ IsInjective(f)
  BY <1>1 DEF SetToSeq
<1> HIDE DEF n, f
<1>3. f \in Seq(S)
  BY <1>1, <1>2
<1>4. f \in Surjection(1 .. n, Range(f)) /\ f \in Injection(1 .. n, Range(f))
  BY <1>2 DEF Surjection, Injection, Range
<1>5. IsFiniteSet(1 .. n) /\ Cardinality(1 .. n) = n
  <2>1. IsFiniteSet(1 .. n) /\ Cardinality(1 .. n) = IF 1 > n THEN 0 ELSE n - 1 + 1
    BY <1>1, FS_Interval
  <2> QED BY <1>1, <2>1
<1>6. Cardinality(Range(f)) = Cardinality(S)
  BY <1>4, <1>5, FS_Surjection DEF n
<1>7. Range(f) \subseteq S
  BY <1>2 DEF Range
<1>8. Range(f) = S
  BY <1>6, <1>7, FS_Subset
<1> QED BY <1>2, <1>3, <1>8 DEF f

\* What is left of a sequence without repetitions when its head is taken.
LEMMA HeadIsTaken ==
  ASSUME NEW S, NEW s \in Seq(S), s # <<>>
  PROVE  /\ Head(s) \in Range(s) /\ Tail(s) \in Seq(S)
         /\ Range(s) = {Head(s)} \cup Range(Tail(s))
         /\ IsInjective(s) => IsInjective(Tail(s)) /\ Head(s) \notin Range(Tail(s))
         /\ Tail(s) # <<>> => s[Len(s)] = Tail(s)[Len(Tail(s))]
         /\ Tail(s) = <<>> => s[Len(s)] = Head(s)
<1>1. /\ Head(s) \in S /\ Tail(s) \in Seq(S) /\ Len(Tail(s)) = Len(s) - 1
      /\ \A i \in 1 .. Len(Tail(s)) : Tail(s)[i] = s[i + 1]
  BY HeadTailProperties
<1>2. /\ Len(s) \in Nat \ {0} /\ DOMAIN s = 1 .. Len(s) /\ DOMAIN Tail(s) = 1 .. Len(Tail(s))
  BY <1>1, LenProperties, EmptySeq
<1>3. Head(s) = s[1] /\ 1 \in DOMAIN s
  BY <1>2
<1>4. ASSUME NEW i \in DOMAIN s PROVE i = 1 \/ (i - 1 \in DOMAIN Tail(s) /\ Tail(s)[i - 1] = s[i])
  <2>1. i # 1 => i - 1 \in 1 .. Len(Tail(s)) /\ (i - 1) + 1 = i
    BY <1>1, <1>2
  <2> QED BY <1>1, <1>2, <2>1
<1>5. ASSUME NEW i \in DOMAIN Tail(s) PROVE i + 1 \in DOMAIN s /\ i + 1 # 1 /\ Tail(s)[i] = s[i + 1]
  BY <1>1, <1>2
<1>6. Range(s) = {Head(s)} \cup Range(Tail(s))
  <2>1. \A x \in Range(s) : x \in {Head(s)} \cup Range(Tail(s))
    BY <1>3, <1>4 DEF Range
  <2>2. \A x \in {Head(s)} \cup Range(Tail(s)) : x \in Range(s)
    BY <1>3, <1>5 DEF Range
  <2> QED BY <2>1, <2>2
<1>7. ASSUME IsInjective(s) PROVE IsInjective(Tail(s)) /\ Head(s) \notin Range(Tail(s))
  <2>1. Head(s) \notin Range(Tail(s))
    BY <1>3, <1>5, <1>7 DEF IsInjective, Range
  <2>2. ASSUME NEW i \in DOMAIN Tail(s), NEW j \in DOMAIN Tail(s), Tail(s)[i] = Tail(s)[j]
        PROVE  i = j
    <3>1. i + 1 = j + 1
      BY <1>5, <1>7, <2>2 DEF IsInjective
    <3> QED BY <1>1, <1>2, <3>1
  <2> QED BY <2>1, <2>2 DEF IsInjective
<1>8. Tail(s) # <<>> => s[Len(s)] = Tail(s)[Len(Tail(s))]
  <2>1. Tail(s) # <<>> => Len(Tail(s)) \in Nat \ {0}
    BY <1>1, EmptySeq
  <2> QED BY <1>1, <1>2, <2>1
<1>9. Tail(s) = <<>> => s[Len(s)] = Head(s)
  <2>1. Tail(s) = <<>> => Len(Tail(s)) = 0
    BY EmptySeq
  <2> QED BY <1>1, <1>2, <1>3, <2>1
<1> QED BY <1>1, <1>3, <1>6, <1>7, <1>8, <1>9 DEF Range
----------------------------------------------------------------------------
\* What the walk knows of the paths.

LEMMA TopIs ==
  /\ Range(Leaves \o Lists \o Documents \o Directories) = Top
  /\ Range(Directories) = Dirs
<1> DEFINE S == Top
<1>1. /\ Leaves \in Seq(S) /\ Lists \in Seq(S) /\ Directories \in Seq(S) /\ Documents \in Seq(S)
      /\ Range(Leaves) = {<<"ami-id">>, <<"instance-id">>, <<"region">>, <<"zone">>}
      /\ Range(Lists) = {<<"security-groups">>}
      /\ Range(Documents) = {<<"iam">>, <<"identity">>, <<"user-data">>}
      /\ Range(Directories) = Dirs
  BY DEF Top, Dirs, Leaves, Lists, Directories, Documents, Range
<1> HIDE DEF S
<1> DEFINE LL == Leaves \o Lists
           LLD == LL \o Documents
<1>2. LL \in Seq(S) /\ Range(LL) = Range(Leaves) \cup Range(Lists)
  BY <1>1, ConcatProperties, RangeOfConcat
<1> HIDE DEF LL
<1>3. LLD \in Seq(S) /\ Range(LLD) = Range(LL) \cup Range(Documents)
  BY <1>1, <1>2, ConcatProperties, RangeOfConcat
<1> HIDE DEF LLD
<1>4. Range(LLD \o Directories) = Range(LLD) \cup Range(Directories)
  BY <1>1, <1>3, RangeOfConcat
<1>5. Range(LLD \o Directories) = Top
  BY <1>1, <1>2, <1>3, <1>4 DEF Top, Dirs
<1> QED BY <1>1, <1>5 DEF LL, LLD

LEMMA PathsAre ==
  /\ Contents = Top \cup Below
  /\ Paths = {<<"token">>, <<"versions">>} \cup Top \cup Below
  /\ Dirs \subseteq Top /\ First \in Top \ Dirs /\ UserData \in Top \ Dirs /\ First # UserData
  /\ <<"token">> \notin Contents /\ <<"versions">> \notin Contents /\ <<"token">> # <<"versions">>
  /\ Top \cap Below = {}
<1>1. Contents = Top \cup Below
  BY TopIs DEF Contents
<1>2. ASSUME NEW p \in Below PROVE Len(p) # 1
  BY <1>2 DEF Below, Volumes, Keys, EniPaths
<1>3. ASSUME NEW p \in Top PROVE Len(p) = 1
  BY <1>3 DEF Top
<1>4. \A p \in Top, q \in Below : p # q
  BY <1>2, <1>3
<1>5. \A q \in Below : <<"token">> # q /\ <<"versions">> # q
  <2>1. Len(<<"token">>) = 1 /\ Len(<<"versions">>) = 1
    OBVIOUS
  <2> QED BY <1>2, <2>1
<1> QED BY <1>1, <1>4, <1>5 DEF Paths, Top, Dirs, First, UserData

\* The requests Collect knows of from the start.
LEMMA FullHolds ==
  /\ Full \in Seq(Paths) /\ Full # <<>>
  /\ Head(Full) = <<"token">>
  /\ Tail(Full) # <<>> /\ Head(Tail(Full)) = <<"versions">>
  /\ Tail(Tail(Full)) # <<>> /\ Head(Tail(Tail(Full))) = First
  /\ Tail(Tail(Tail(Full))) # <<>>
  /\ Range(Full) = {<<"token">>, <<"versions">>} \cup Top
  /\ IsInjective(Full)
  /\ Full[Len(Full)] = UserData
<1>1. Full \in Seq(Paths)
  BY FullIs, PathsAre DEF Top
<1>2. Range(Full) = {<<"token">>, <<"versions">>} \cup Top
  BY FullIs DEF Top, Range
<1>3. IsInjective(Full)
  BY FullIs DEF IsInjective
<1> QED BY <1>1, <1>2, <1>3, FullIs DEF First, UserData

\* The directories list different things.
LEMMA KidsHold ==
  /\ \A d \in Dirs : Kids(d) \subseteq Below
  /\ \A p \in Below : \E d \in Dirs : p \in Kids(d) /\ d[1] = p[1]
  /\ \A d \in Dirs, e \in Dirs : d # e => Kids(d) \cap Kids(e) = {}
  /\ \A d \in Dirs : \A p \in Kids(d) : p[1] = d[1]
<1>1. ASSUME NEW p \in Below PROVE \E d \in Dirs : p[1] = d[1]
  BY <1>1 DEF Below, Volumes, Keys, EniPaths, Dirs
<1>2. \A d \in Dirs, e \in Dirs : d[1] = e[1] => d = e
  BY DEF Dirs
<1> QED BY <1>1, <1>2 DEF Kids

LEMMA BelowIs ==
  /\ \A v \in Volumes : v \in Kids(<<"block-device-mapping">>)
  /\ \A k \in Keys : k \in Kids(<<"public-keys">>)
  /\ \A p \in EniPaths : p \in Kids(<<"macs">>)
  /\ \A p \in Below : Len(p) > 1
  /\ Kids(<<"block-device-mapping">>) = Volumes
  /\ Kids(<<"public-keys">>) = Keys
  /\ Kids(<<"macs">>) = EniPaths
BY DEF Kids, Below, Volumes, Keys, EniPaths

LEMMA PathsFinite == IsFiniteSet(Paths)
<1> DEFINE Names == Macs \cup {Junk}
<1>0. IsFiniteSet(Names)
  BY MacsAssumption, FS_Singleton, FS_Union
<1>1. IsFiniteSet(Names \X (1 .. 2))
  <2> HIDE DEF Names
  <2>1. IsFiniteSet({1} \cup {2})
    <3>1. IsFiniteSet({1}) /\ IsFiniteSet({2})
      BY FS_Singleton
    <3> QED BY <3>1, FS_Union
  <2>2. {1} \cup {2} = 1 .. 2
    OBVIOUS
  <2> QED BY <1>0, <2>1, <2>2, FS_Product
<1>2. IsFiniteSet(EniPaths)
  <2>0. EniPaths = {<<"macs", m, EniFields[i]>> : m \in Names, i \in 1 .. 2}
    BY DEF EniPaths, EniFields
  <2> HIDE DEF Names
  <2> DEFINE f == [x \in Names \X (1 .. 2) |-> <<"macs", x[1], EniFields[x[2]]>>]
  <2>1. ASSUME NEW p \in EniPaths PROVE \E x \in Names \X (1 .. 2) : f[x] = p
    <3>1. PICK m \in Names, i \in 1 .. 2 : p = <<"macs", m, EniFields[i]>>
      BY <2>0
    <3>2. <<m, i>> \in Names \X (1 .. 2) /\ <<m, i>>[1] = m /\ <<m, i>>[2] = i
      OBVIOUS
    <3>3. f[<<m, i>>] = p
      BY <3>1, <3>2
    <3> QED BY <3>2, <3>3
  <2>2. f \in [Names \X (1 .. 2) -> EniPaths]
    BY <2>0
  <2>3. f \in Surjection(Names \X (1 .. 2), EniPaths)
    BY <2>1, <2>2 DEF Surjection
  <2> QED BY <1>1, <2>3, FS_Surjection
<1>3. IsFiniteSet({<<"token">>, <<"versions">>} \cup Top)
  <2>1. {<<"token">>, <<"versions">>} \cup Top = Range(Full)
    BY FullHolds
  <2>2. Full \in Surjection(1 .. Len(Full), Range(Full)) /\ Len(Full) \in Nat
    BY FullHolds, LenProperties DEF Range, Surjection
  <2>3. IsFiniteSet(1 .. Len(Full))
    BY <2>2, FS_Interval
  <2> QED BY <2>1, <2>2, <2>3, FS_Surjection
<1>4. IsFiniteSet(Volumes \cup Keys)
  <2>1. /\ Volumes = {<<"block-device-mapping", "root">>} \cup {<<"block-device-mapping", Junk>>}
        /\ Keys = {<<"public-keys", "0">>} \cup {<<"public-keys", Junk>>}
    BY DEF Volumes, Keys
  <2>2. IsFiniteSet(Volumes) /\ IsFiniteSet(Keys)
    <3>1. /\ IsFiniteSet({<<"block-device-mapping", "root">>}) /\ IsFiniteSet({<<"public-keys", "0">>})
          /\ IsFiniteSet({<<"block-device-mapping", Junk>>}) /\ IsFiniteSet({<<"public-keys", Junk>>})
      BY FS_Singleton
    <3> QED BY <2>1, <3>1, FS_Union
  <2> QED BY <2>2, FS_Union
<1>5. IsFiniteSet((Volumes \cup Keys) \cup EniPaths)
  BY <1>2, <1>4, FS_Union
<1>6. IsFiniteSet(({<<"token">>, <<"versions">>} \cup Top) \cup ((Volumes \cup Keys) \cup EniPaths))
  BY <1>3, <1>5, FS_Union
<1> QED BY <1>6, PathsAre DEF Below

----------------------------------------------------------------------------
\* The inductive invariant.

Sent == {p \in Paths : log[p] # "none"}

\* A token that the service takes, or no token and a service that needs none.
Live == age < Life /\ (token = "held" \/ (token = "none" /\ cloud.host.v1))

\* What gate, walk and return have seen so far.
AtToken == todo = Full /\ Sent = {}
AtVersions == todo = Tail(Full) /\ Sent = {<<"token">>}
AtFirst == todo = Tail(Tail(Full)) /\ Sent = {<<"token">>, <<"versions">>}
AtRest ==
    /\ Range(todo) \subseteq Contents \ {First} /\ todo[Len(todo)] = UserData
    /\ log[First] \in Bodies /\ <<"token">> \in Sent

NotHere == ~ Probe!OnEC2 /\ result = "nil"
NoFirst ==
    /\ Probe!OnEC2 /\ result = "nil" /\ <<"token">> \in Sent
    /\ log[First] \in {"status", "cut", "unreachable"}
Returned ==
    /\ Probe!OnEC2 /\ result = "info" /\ {<<"token">>, UserData} \subseteq Sent
    /\ log[First] \in Bodies

PlaceOK ==
    /\ pc = "gate" => result = "none" /\ AtToken
    /\ pc = "walk" =>
        Probe!OnEC2 /\ result = "none" /\ todo # <<>> /\ (AtToken \/ AtVersions \/ AtFirst \/ AtRest)
    /\ pc = "done" => todo = <<>> /\ (NotHere \/ NoFirst \/ Returned)

\* The token is what was answered, and every answer was the service's to give.
HonestOK ==
    /\ token = (CASE log[<<"token">>] = "ok" -> "held"
                  [] log[<<"token">>] = "garbled" -> "bad"
                  [] OTHER -> "none")
    /\ \A p \in Paths : log[p] = "ok" => Has(p)
    /\ \A p \in Paths : log[p] \in Bodies \cup {"cut"} => cloud.host.platform = "ec2"
    /\ cloud.host.platform = "ec2" /\ log[<<"token">>] = "status" => ~ Has(<<"token">>)
    /\ cloud.host.platform = "ec2" /\ Live => \A p \in Paths : log[p] = "status" => ~ Has(p)

\* What only a listing makes known is asked for after a listing that has it.
KidsOK ==
    \A d \in Dirs : \A p \in Kids(d) : p \in Sent \cup Range(todo) => p \in Listed(d, log[d])

\* p is asked for, or still to be asked for, or its directory is, or what its
\* directory listed is not p.
Accounted(p) ==
    \/ p \in Sent \cup Range(todo)
    \/ \E d \in Dirs : p \in Kids(d) /\ (d \in Range(todo) \/ (d \in Sent /\ p \notin Listed(d, log[d])))

ImdsInv ==
    /\ TypeOK /\ todo \in Seq(Paths)
    /\ PlaceOK /\ HonestOK /\ KidsOK
    /\ result # "nil" => \A p \in Contents : Accounted(p)

----------------------------------------------------------------------------
\* What a step does to the numbers and to the sequence.

LEMMA FatesAre ==
  /\ Fates = {"ok", "garbled", "blank", "cut", "status", "unreachable"}
  /\ Bodies = {"ok", "garbled", "blank"} /\ Faulty = {"garbled", "blank", "cut", "unreachable"}
BY DEF Fates, Bodies, Faulty

\* A token gets no younger.
LEMMA AgeHolds ==
  ASSUME NEW a \in 0 .. Life
  PROVE  Min({a + 1, Life}) \in 0 .. Life /\ a <= Min({a + 1, Life})
<1>1. Life \in Nat
  BY LifeAssumption
<1>2. \E x \in {a + 1, Life} : \A y \in {a + 1, Life} : x =< y
  BY <1>1
<1>3. Min({a + 1, Life}) \in {a + 1, Life} /\ \A y \in {a + 1, Life} : Min({a + 1, Life}) =< y
  BY <1>2 DEF Min
<1> QED BY <1>1, <1>3

\* The version that is taken is one that both sides know.
LEMMA VersionHolds ==
  ASSUME NEW S, S \cap Supported # {}
  PROVE  Max(S \cap Supported) \in Supported
<1>1. \E x \in S \cap Supported : \A y \in S \cap Supported : x >= y
  BY DEF Supported
<1>2. Max(S \cap Supported) \in S \cap Supported
  BY <1>1 DEF Max
<1> QED BY <1>2

\* What an answer lists is below its directory, an honest one lists what the
\* service has, and no other answer lists anything of it.
LEMMA ListedHolds ==
  ASSUME NEW d \in Dirs, NEW f
  PROVE  /\ Listed(d, f) \subseteq Kids(d) /\ Kids(d) \subseteq Contents /\ Contents \subseteq Paths
         /\ f = "ok" => \A p \in Kids(d) : Has(p) => p \in Listed(d, f)
         /\ f \notin {"ok", "garbled"} => Listed(d, f) = {}
<1>1. Listed(d, f) \subseteq Kids(d)
  BY DEF Listed, Kids
<1>2. Kids(d) \subseteq Contents /\ Contents \subseteq Paths
  BY KidsHold, PathsAre DEF Paths
<1>3. ASSUME f = "ok", NEW p \in Kids(d), Has(p) PROVE p \in Listed(d, f)
  <2>1. p \in Below /\ p[1] = d[1] /\ Len(p) > 1
    BY BelowIs, KidsHold DEF Kids
  <2>2. p[2] # Junk /\ (p[1] = "macs" => p[2] \in cloud.macs)
    BY <1>3, <2>1 DEF Has
  <2> QED BY <1>3, <2>1, <2>2 DEF Listed
<1>4. f \notin {"ok", "garbled"} => Listed(d, f) = {}
  BY DEF Listed
<1> QED BY <1>1, <1>2, <1>3, <1>4

\* And it is a sequence without repetitions.
LEMMA ListedSeq ==
  ASSUME NEW d \in Dirs, NEW f
  PROVE  /\ SetToSeq(Listed(d, f)) \in Seq(Paths) /\ IsInjective(SetToSeq(Listed(d, f)))
         /\ Range(SetToSeq(Listed(d, f))) = Listed(d, f)
<1> DEFINE S == Listed(d, f)
<1>1. S \subseteq Paths
  BY ListedHolds
<1> HIDE DEF S
<1>2. IsFiniteSet(S)
  BY <1>1, PathsFinite, FS_Subset
<1>3. SetToSeq(S) \in Seq(S) /\ IsInjective(SetToSeq(S)) /\ Range(SetToSeq(S)) = S
  BY <1>2, SetToSeqHolds
<1>4. SetToSeq(S) \in Seq(Paths)
  BY <1>1, <1>3, SeqMonotonic
<1> QED BY <1>3, <1>4 DEF S

----------------------------------------------------------------------------
\* The invariant holds at first.

LEMMA InitImdsInv == Init => ImdsInv
<1> SUFFICES ASSUME Init PROVE ImdsInv
  OBVIOUS
<1>1. todo = Full
  BY DEF Init, Full
<1>2. \A p \in Paths : log[p] = "none"
  BY DEF Init
<1>3. TypeOK
  <2>1. Range(todo) \subseteq Paths /\ IsInjective(todo)
    BY <1>1, FullHolds, PathsAre
  <2>2. log \in [Paths -> Fates \cup {"none"}]
    BY DEF Init
  <2>3. age \in 0 .. Life
    BY LifeAssumption DEF Init
  <2>4. \A p \in Range(todo) : log[p] = "none"
    BY <1>2, <2>1
  <2> QED BY <2>1, <2>2, <2>3, <2>4 DEF Init, TypeOK
<1>4. todo \in Seq(Paths)
  BY <1>1, FullHolds
<1>5. PlaceOK
  BY <1>1, <1>2 DEF Init, PlaceOK, AtToken, Sent
<1>6. <<"token">> \in Paths
  BY PathsAre
<1>7. HonestOK
  BY <1>2, <1>6, FatesAre DEF Init, HonestOK
<1>8. KidsOK
  <2>1. ASSUME NEW d \in Dirs, NEW p \in Kids(d) PROVE p \notin Range(todo)
    <3>1. p \in Below /\ p \in Contents
      BY KidsHold, PathsAre
    <3>2. p \notin Top
      BY <3>1, PathsAre
    <3> QED BY <1>1, <3>1, <3>2, FullHolds, PathsAre
  <2> QED BY <1>2, <2>1 DEF KidsOK, Sent
<1>9. ASSUME NEW p \in Contents PROVE Accounted(p)
  <2>1. CASE p \in Top
    BY <1>1, <2>1, FullHolds DEF Accounted
  <2>2. CASE p \in Below
    <3>1. PICK d \in Dirs : p \in Kids(d)
      BY <2>2, KidsHold
    <3>2. d \in Range(todo)
      BY <1>1, FullHolds, PathsAre
    <3> QED BY <3>1, <3>2 DEF Accounted
  <2> QED BY <2>1, <2>2, PathsAre
<1> QED BY <1>3, <1>4, <1>5, <1>7, <1>8, <1>9 DEF ImdsInv

----------------------------------------------------------------------------
\* A request and its answer.

\* The service answers what it has, and refuses what it has only to those who
\* come without a token where one is needed.
LEMMA FatesHold ==
  ASSUME NEW p, NEW f \in FatesOf(p)
  PROVE  /\ f = "ok" => Has(p)
         /\ f \in Bodies \cup {"cut"} => cloud.host.platform = "ec2"
         /\ f = "status" /\ cloud.host.platform = "ec2" => ~ (Has(p) /\ Authorized(p))
BY FatesAre DEF FatesOf

\* Where the walk is when a request is sent.
LEMMA WhereItIs ==
  ASSUME ImdsInv, pc = "walk"
  PROVE  /\ Head(todo) = <<"token">> <=> AtToken
         /\ Head(todo) = <<"versions">> <=> AtVersions
         /\ Head(todo) = First <=> AtFirst
         /\ Head(todo) \notin {<<"token">>, <<"versions">>, First} <=> AtRest
         /\ AtToken \/ AtVersions \/ AtFirst \/ AtRest
<1>1. AtToken \/ AtVersions \/ AtFirst \/ AtRest
  BY DEF ImdsInv, PlaceOK
<1>2. AtToken => Head(todo) = <<"token">>
  BY FullHolds DEF AtToken
<1>3. AtVersions => Head(todo) = <<"versions">>
  BY FullHolds DEF AtVersions
<1>4. AtFirst => Head(todo) = First
  BY FullHolds DEF AtFirst
<1>5. AtRest => Head(todo) \in Contents \ {First}
  <2>1. todo \in Seq(Paths) /\ todo # <<>>
    BY DEF ImdsInv, PlaceOK
  <2>2. Head(todo) \in Range(todo)
    BY <2>1, HeadIsTaken
  <2> QED BY <2>2 DEF AtRest
<1>6. First \in Contents /\ First # <<"token">> /\ First # <<"versions">>
  BY PathsAre
<1> QED BY <1>1, <1>2, <1>3, <1>4, <1>5, <1>6, PathsAre

LEMMA SendKeeps ==
  ASSUME ImdsInv, NEW p \in Paths, NEW f \in Fates, Send(p, f)
  PROVE  /\ cloud' = cloud /\ age' \in 0 .. Life /\ token' \in {"none", "held", "bad"}
         /\ log' \in [Paths -> Fates \cup {"none"}]
         /\ log'[p] = f /\ f # "none" /\ \A q \in Paths \ {p} : log'[q] = log[q]
         /\ p = Head(todo) /\ p \notin Sent /\ Sent' = Sent \cup {p}
         /\ HonestOK'
<1>1. /\ cloud' = cloud /\ p = Head(todo) /\ todo # <<>> /\ f \in FatesOf(p) /\ pc = "walk"
      /\ log' = [log EXCEPT ![p] = f]
  BY DEF Send
<1>2. /\ todo \in Seq(Paths) /\ log \in [Paths -> Fates \cup {"none"}]
      /\ age \in 0 .. Life /\ token \in {"none", "held", "bad"}
      /\ \A q \in Range(todo) : log[q] = "none"
  BY DEF ImdsInv, TypeOK
<1>3. log' \in [Paths -> Fates \cup {"none"}]
  BY <1>1, <1>2
<1>4. log'[p] = f /\ f # "none" /\ \A q \in Paths \ {p} : log'[q] = log[q]
  BY <1>1, <1>2, FatesAre
<1>5. p \notin Sent
  BY <1>1, <1>2, HeadIsTaken DEF Sent
<1>6. Sent' = Sent \cup {p}
  BY <1>4 DEF Sent
<1>7. age' \in 0 .. Life /\ (age' < Life => age < Life)
  <2>1. age' \in {age, Min({age + 1, Life})}
    BY DEF Send
  <2>2. Min({age + 1, Life}) \in 0 .. Life /\ age <= Min({age + 1, Life})
    BY <1>2, AgeHolds
  <2>3. age' \in 0 .. Life /\ age <= age'
    BY <1>2, <2>1, <2>2
  <2> QED BY <1>2, <2>3, LifeAssumption
<1>8. token' = IF p = <<"token">>
               THEN (CASE f = "ok" -> "held" [] f = "garbled" -> "bad" [] OTHER -> "none")
               ELSE token
  BY DEF Send
<1>9. <<"token">> \in Paths
  BY PathsAre
<1>10. HonestOK
  BY DEF ImdsInv
<1>11. token' = (CASE log'[<<"token">>] = "ok" -> "held"
                   [] log'[<<"token">>] = "garbled" -> "bad"
                   [] OTHER -> "none")
  BY <1>4, <1>8, <1>9, <1>10 DEF HonestOK
<1>12. \A q : Has(q)' <=> Has(q)
  BY <1>1 DEF Has
<1>13. /\ f = "ok" => Has(p)
       /\ f \in Bodies \cup {"cut"} => cloud.host.platform = "ec2"
       /\ f = "status" /\ cloud.host.platform = "ec2" => ~ (Has(p) /\ Authorized(p))
  BY <1>1, FatesHold
<1>14. /\ \A q \in Paths : log'[q] = "ok" => Has(q)'
       /\ \A q \in Paths : log'[q] \in Bodies \cup {"cut"} => cloud'.host.platform = "ec2"
  BY <1>1, <1>4, <1>10, <1>12, <1>13 DEF HonestOK
<1>15. cloud'.host.platform = "ec2" /\ log'[<<"token">>] = "status" => ~ Has(<<"token">>)'
  BY <1>1, <1>4, <1>9, <1>10, <1>12, <1>13 DEF HonestOK, Authorized
<1>16. ASSUME cloud'.host.platform = "ec2", Live', NEW q \in Paths, log'[q] = "status"
       PROVE  ~ Has(q)'
  <2>1. CASE p = <<"token">>
    <3>1. Sent = {}
      BY <1>1, <2>1, WhereItIs DEF AtToken
    <3>2. q = p
      BY <1>4, <1>16, <3>1 DEF Sent
    <3> QED BY <1>15, <1>16, <2>1, <3>2
  <2>2. CASE p # <<"token">>
    <3>1. Live
      BY <1>1, <1>7, <1>8, <1>16, <2>2 DEF Live
    <3>2. q = p => ~ Has(q)
      BY <1>1, <1>4, <1>13, <1>16, <3>1 DEF Live, Authorized
    <3>3. q # p => ~ Has(q)
      BY <1>1, <1>4, <1>10, <1>16, <3>1 DEF HonestOK
    <3> QED BY <1>12, <3>2, <3>3
  <2> QED BY <2>1, <2>2
<1>17. token' \in {"none", "held", "bad"}
  BY <1>11
<1>18. HonestOK'
  BY <1>11, <1>14, <1>15, <1>16 DEF HonestOK
<1> QED BY <1>1, <1>3, <1>4, <1>5, <1>6, <1>7, <1>17, <1>18

----------------------------------------------------------------------------
\* What is asked for next.

\* What an answer adds to the walk.
Learnt(p, f) == IF p \in Dirs THEN Listed(p, f) ELSE {}

Moves(p, f) ==
    /\ todo' \in Seq(Paths) /\ IsInjective(todo')
    /\ Range(todo') = Range(Tail(todo)) \cup Learnt(p, f)

\* What a directory lists has not been asked for before it.
LEMMA ListedIsNew ==
  ASSUME ImdsInv, NEW d \in Dirs, d \notin Sent, NEW f, NEW q \in Listed(d, f)
  PROVE  q \notin Sent \cup Range(todo) /\ q # d
<1>1. q \in Kids(d) /\ q \in Below /\ d \in Top
  BY ListedHolds, KidsHold, PathsAre
<1>2. d \in Paths
  BY <1>1, PathsAre
<1>3. q \in Sent \cup Range(todo) => q \in Listed(d, log[d])
  BY <1>1 DEF ImdsInv, KidsOK
<1>4. Listed(d, log[d]) = {}
  <2>1. log[d] = "none"
    BY <1>2 DEF Sent
  <2> QED BY <2>1, ListedHolds
<1>5. q # d
  BY <1>1, PathsAre
<1> QED BY <1>3, <1>4, <1>5

LEMMA TailMoves ==
  ASSUME ImdsInv, todo # <<>>, NEW p, NEW f, todo' = Tail(todo), p \notin Dirs
  PROVE  Moves(p, f)
<1>1. todo \in Seq(Paths) /\ IsInjective(todo)
  BY DEF ImdsInv, TypeOK
<1>2. Tail(todo) \in Seq(Paths) /\ IsInjective(Tail(todo))
  BY <1>1, HeadIsTaken
<1> QED BY <1>2 DEF Moves, Learnt

LEMMA ListMoves ==
  ASSUME ImdsInv, todo # <<>>, NEW d \in Dirs, d \notin Sent, NEW f, todo' = SetToSeq(Listed(d, f)) \o Tail(todo)
  PROVE  /\ Moves(d, f)
         /\ Tail(todo) # <<>> => todo' # <<>> /\ todo'[Len(todo')] = Tail(todo)[Len(Tail(todo))]
<1>1. todo \in Seq(Paths) /\ IsInjective(todo)
  BY DEF ImdsInv, TypeOK
<1>2. /\ Tail(todo) \in Seq(Paths) /\ IsInjective(Tail(todo))
      /\ Range(Tail(todo)) \subseteq Range(todo)
  BY <1>1, HeadIsTaken
<1>3. /\ SetToSeq(Listed(d, f)) \in Seq(Paths) /\ IsInjective(SetToSeq(Listed(d, f)))
      /\ Range(SetToSeq(Listed(d, f))) = Listed(d, f)
  BY ListedSeq
<1>4. Range(SetToSeq(Listed(d, f))) \cap Range(Tail(todo)) = {}
  <2>1. \A q \in Listed(d, f) : q \notin Range(todo)
    BY ListedIsNew
  <2> QED BY <1>2, <1>3, <2>1
<1>5. /\ Range(todo') = Range(SetToSeq(Listed(d, f))) \cup Range(Tail(todo)) /\ IsInjective(todo')
  <2> DEFINE front == SetToSeq(Listed(d, f))
             back  == Tail(todo)
  <2>1. /\ front \in Seq(Paths) /\ IsInjective(front)
        /\ back \in Seq(Paths) /\ IsInjective(back)
        /\ Range(front) \cap Range(back) = {} /\ todo' = front \o back
    BY <1>2, <1>3, <1>4
  <2> HIDE DEF front, back
  <2> HIDE DEF Paths, Range, IsInjective
  <2>2. Range(front \o back) = Range(front) \cup Range(back) /\ IsInjective(front \o back)
    <3>1. \A s, t \in Seq(Paths) :
             /\ Range(s \o t) = Range(s) \cup Range(t)
             /\ IsInjective(s) /\ IsInjective(t) /\ Range(s) \cap Range(t) = {} => IsInjective(s \o t)
      BY RangeOfConcat
    <3> QED BY <2>1, <3>1, Zenon
  <2> QED BY <2>1, <2>2 DEF front, back
<1>6. /\ todo' \in Seq(Paths) /\ Len(todo') = Len(SetToSeq(Listed(d, f))) + Len(Tail(todo))
      /\ \A i \in 1 .. Len(SetToSeq(Listed(d, f))) + Len(Tail(todo)) :
            todo'[i] = IF i <= Len(SetToSeq(Listed(d, f))) THEN SetToSeq(Listed(d, f))[i] ELSE Tail(todo)[i - Len(SetToSeq(Listed(d, f)))]
  BY <1>2, <1>3, ConcatProperties
<1>7. Moves(d, f)
  BY <1>3, <1>5, <1>6 DEF Moves, Learnt
<1>8. ASSUME Tail(todo) # <<>>
      PROVE  todo' # <<>> /\ todo'[Len(todo')] = Tail(todo)[Len(Tail(todo))]
  <2> DEFINE c == Len(SetToSeq(Listed(d, f)))
             t == Len(Tail(todo))
  <2>1. c \in Nat /\ t \in Nat \ {0}
    BY <1>2, <1>3, <1>8, LenProperties, EmptySeq
  <2> HIDE DEF c, t
  <2>2. c + t \in 1 .. c + t /\ ~ (c + t <= c) /\ (c + t) - c = t /\ c + t # 0
    BY <2>1
  <2> USE DEF c, t
  <2>3. todo' # <<>>
    BY <1>6, <2>2, EmptySeq
  <2> QED BY <1>6, <2>2, <2>3
<1> QED BY <1>7, <1>8

LEMMA WalkKeeps ==
  ASSUME ImdsInv, NEW p \in Paths, NEW f \in Fates, Send(p, f), Moves(p, f)
  PROVE  /\ Range(todo') \subseteq Paths /\ \A q \in Range(todo') : log'[q] = "none"
         /\ KidsOK' /\ \A q \in Contents : Accounted(q)'
<1>1. /\ cloud' = cloud /\ log'[p] = f /\ \A q \in Paths \ {p} : log'[q] = log[q]
      /\ p = Head(todo) /\ p \notin Sent /\ Sent' = Sent \cup {p}
  BY SendKeeps
<1>2. todo \in Seq(Paths) /\ todo # <<>> /\ IsInjective(todo) /\ \A q \in Range(todo) : log[q] = "none"
  BY DEF ImdsInv, TypeOK, Send
<1>3. Range(todo) = {p} \cup Range(Tail(todo)) /\ p \notin Range(Tail(todo))
  BY <1>1, <1>2, HeadIsTaken
<1>4. Range(todo') = Range(Tail(todo)) \cup Learnt(p, f)
  BY DEF Moves
<1>5. \A q \in Learnt(p, f) : p \in Dirs /\ q \in Listed(p, f) /\ q \notin Sent /\ q # p
  BY <1>1, ListedIsNew DEF Learnt
<1>6. \A d \in Dirs : Kids(d) \subseteq Paths /\ d \in Paths /\ \A g : Listed(d, g) \subseteq Kids(d)
  BY ListedHolds, PathsAre
<1>7. Range(todo) \subseteq Paths
  BY DEF ImdsInv, TypeOK
<1>8. Range(todo') \subseteq Paths
  BY <1>3, <1>4, <1>5, <1>6, <1>7
<1>9. ASSUME NEW q \in Range(todo') PROVE log'[q] = "none"
  <2>1. CASE q \in Range(Tail(todo))
    BY <1>1, <1>2, <1>3, <1>7, <2>1
  <2>2. CASE q \in Learnt(p, f)
    <3>1. q \in Paths /\ q \notin Sent /\ q # p
      BY <1>5, <1>6, <2>2
    <3>2. log[q] = "none"
      BY <3>1 DEF Sent
    <3> QED BY <1>1, <3>1, <3>2
  <2> QED BY <1>4, <1>9, <2>1, <2>2
<1>10. ASSUME NEW d \in Dirs, NEW q \in Kids(d), q \in Sent' \cup Range(todo')
       PROVE  q \in Listed(d, log[d])'
  <2>0. Listed(d, log[d])' = Listed(d, log'[d])
    BY <1>1 DEF Listed, Has
  <2>1. CASE q \in Learnt(p, f)
    <3>1. p \in Dirs /\ q \in Kids(p) /\ q \in Listed(p, f)
      BY <1>5, <1>6, <2>1
    <3>2. d = p
      BY <3>1, KidsHold
    <3> QED BY <1>1, <2>0, <3>1, <3>2
  <2>2. CASE q \notin Learnt(p, f)
    <3>1. q \in Sent \cup Range(todo) \/ (q = p /\ q \notin Learnt(p, f))
      BY <1>1, <1>3, <1>4, <1>10, <2>2
    <3>2. q \in Sent \cup Range(todo)
      BY <1>3, <3>1
    <3>3. q \in Listed(d, log[d])
      BY <3>2 DEF ImdsInv, KidsOK
    <3>4. log[d] \in {"ok", "garbled"}
      BY <3>3, ListedHolds
    <3>5. d \in Paths /\ d \in Sent
      BY <1>6, <3>4 DEF Sent
    <3>6. log'[d] = log[d]
      BY <1>1, <3>5
    <3> QED BY <2>0, <3>3, <3>6
  <2> QED BY <2>1, <2>2
<1>12. ASSUME NEW q \in Contents PROVE Accounted(q)'
  <2>0. \A d : Listed(d, log[d])' = Listed(d, log'[d])
    BY <1>1 DEF Listed, Has
  <2>1. Accounted(q)
    BY DEF ImdsInv, PlaceOK, Send
  <2>2. CASE q \in Sent \cup Range(todo)
    <3>1. q \in Sent' \cup Range(todo')
      BY <1>1, <1>3, <1>4, <2>2
    <3> QED BY <3>1 DEF Accounted
  <2>3. ASSUME NEW d \in Dirs, q \in Kids(d), d \in Range(todo), d # p
        PROVE  Accounted(q)'
    <3>1. d \in Range(todo')
      BY <1>3, <1>4, <2>3
    <3> QED BY <2>3, <3>1 DEF Accounted, Kids
  <2>4. ASSUME p \in Dirs, q \in Kids(p) PROVE Accounted(q)'
    <3>1. CASE q \in Listed(p, f)
      <4>1. q \in Range(todo')
        BY <1>4, <2>4, <3>1 DEF Learnt
      <4> QED BY <4>1 DEF Accounted
    <3>2. CASE q \notin Listed(p, f)
      <4>1. p \in Sent' /\ q \notin Listed(p, log[p])'
        BY <1>1, <2>0, <3>2
      <4> QED BY <2>4, <4>1 DEF Accounted, Kids
    <3> QED BY <3>1, <3>2
  <2>5. ASSUME NEW d \in Dirs, q \in Kids(d), d \in Sent, q \notin Listed(d, log[d])
        PROVE  Accounted(q)'
    <3>1. d \in Sent' /\ q \notin Listed(d, log[d])'
      BY <1>1, <1>6, <2>0, <2>5
    <3> QED BY <2>5, <3>1 DEF Accounted, Kids
  <2> QED BY <2>1, <2>2, <2>3, <2>4, <2>5 DEF Accounted
<1> QED BY <1>8, <1>9, <1>10, <1>12 DEF KidsOK, Kids

\* What is left once the first path has answered.
Rest == Tail(Tail(Tail(Full)))

LEMMA RestIs == Rest # <<>> /\ Range(Rest) \subseteq Contents \ {First} /\ Rest[Len(Rest)] = UserData
<1> DEFINE a == Tail(Full)
           b == Tail(a)
           c == Tail(b)
<1>1. /\ Full \in Seq(Paths) /\ Full # <<>> /\ Head(Full) = <<"token">> /\ IsInjective(Full)
      /\ a # <<>> /\ Head(a) = <<"versions">> /\ b # <<>> /\ Head(b) = First /\ c # <<>>
      /\ Range(Full) = {<<"token">>, <<"versions">>} \cup Top /\ Full[Len(Full)] = UserData
  BY FullHolds
<1> HIDE DEF a, b, c
<1>2. /\ a \in Seq(Paths) /\ IsInjective(a) /\ <<"token">> \notin Range(a)
      /\ Range(a) \subseteq Range(Full) /\ a[Len(a)] = UserData
  BY <1>1, HeadIsTaken DEF a
<1>3. /\ b \in Seq(Paths) /\ IsInjective(b) /\ <<"versions">> \notin Range(b)
      /\ Range(b) \subseteq Range(a) /\ b[Len(b)] = UserData
  <2>1. /\ Tail(a) \in Seq(Paths) /\ Range(a) = {Head(a)} \cup Range(Tail(a))
        /\ IsInjective(Tail(a)) /\ Head(a) \notin Range(Tail(a))
        /\ Tail(a) # <<>> => a[Len(a)] = Tail(a)[Len(Tail(a))]
    BY <1>1, <1>2, HeadIsTaken
  <2>2. b = Tail(a)
    BY DEF b
  <2> QED BY <1>1, <1>2, <2>1, <2>2
<1>4. First \notin Range(c) /\ Range(c) \subseteq Range(b) /\ c[Len(c)] = UserData
  BY <1>1, <1>3, HeadIsTaken DEF c
<1>5. Range(c) \subseteq Contents \ {First}
  BY <1>1, <1>2, <1>3, <1>4, PathsAre
<1>6. c = Rest
  BY DEF a, b, c, Rest
<1> QED BY <1>1, <1>4, <1>5, <1>6

----------------------------------------------------------------------------
\* The steps of Collect.

\* A step of the walk that stays or ends where it may keeps the invariant.
LEMMA WalkStep ==
  ASSUME ImdsInv, NEW p \in Paths, NEW f \in Fates, Send(p, f), Moves(p, f),
         version' \in Supported \cup {0}, pc' \in {"walk", "done"}, result' \in {"none", "info"},
         PlaceOK'
  PROVE  ImdsInv'
<1>1. /\ cloud' = cloud /\ age' \in 0 .. Life /\ token' \in {"none", "held", "bad"}
      /\ log' \in [Paths -> Fates \cup {"none"}] /\ HonestOK'
  BY SendKeeps
<1>2. /\ Range(todo') \subseteq Paths /\ \A q \in Range(todo') : log'[q] = "none"
      /\ KidsOK' /\ \A q \in Contents : Accounted(q)'
  BY WalkKeeps
<1>3. todo' \in Seq(Paths) /\ IsInjective(todo')
  BY DEF Moves
<1>4. cloud \in Clouds
  BY DEF ImdsInv, TypeOK
<1>5. TypeOK'
  BY <1>1, <1>2, <1>3, <1>4 DEF TypeOK
<1> QED BY <1>1, <1>2, <1>3, <1>5 DEF ImdsInv

LEMMA GateSteps ==
  ASSUME ImdsInv, Closed \/ Open
  PROVE  ImdsInv'
<1>1. pc = "gate" /\ UNCHANGED <<cloud, token, age, version, log>>
  BY DEF Closed, Open
<1>2. AtToken /\ result = "none"
  BY <1>1 DEF ImdsInv, PlaceOK
<1>3. HonestOK'
  <2>1. HonestOK
    BY DEF ImdsInv
  <2> QED BY <1>1, <2>1 DEF HonestOK, Has, Live
<1>4. CASE Closed
  <2>1. todo' = <<>> /\ pc' = "done" /\ result' = "nil" /\ ~ Probe!OnEC2
    BY <1>4 DEF Closed
  <2>2. Range(todo') = {} /\ IsInjective(todo') /\ todo' \in Seq(Paths)
    BY <2>1, EmptySeq DEF Range, IsInjective
  <2>3. ~ (Probe!OnEC2)'
    BY <1>1, <2>1 DEF Probe!OnEC2
  <2>4. TypeOK'
    BY <1>1, <2>1, <2>2 DEF ImdsInv, TypeOK
  <2>5. PlaceOK'
    BY <2>1, <2>3 DEF PlaceOK, NotHere
  <2>6. KidsOK'
    <3>1. Sent' = {}
      BY <1>1, <1>2 DEF AtToken, Sent
    <3> QED BY <2>2, <3>1 DEF KidsOK
  <2> QED BY <1>3, <2>1, <2>2, <2>4, <2>5, <2>6 DEF ImdsInv
<1>5. CASE Open
  <2>1. todo' = todo /\ pc' = "walk" /\ result' = result /\ Probe!OnEC2
    BY <1>5 DEF Open
  <2>2. (Probe!OnEC2)'
    BY <1>1, <2>1 DEF Probe!OnEC2
  <2>3. TypeOK' /\ todo' \in Seq(Paths)
    BY <1>1, <2>1 DEF ImdsInv, TypeOK
  <2>4. PlaceOK'
    <3>1. todo' # <<>>
      BY <1>2, <2>1, FullHolds DEF AtToken
    <3>2. AtToken'
      BY <1>1, <1>2, <2>1 DEF AtToken, Sent
    <3> QED BY <1>2, <2>1, <2>2, <3>1, <3>2 DEF PlaceOK
  <2>5. KidsOK'
    BY <1>1, <2>1 DEF ImdsInv, KidsOK, Sent, Kids, Listed, Has
  <2>6. \A q \in Contents : Accounted(q)'
    <3>1. \A q \in Contents : Accounted(q)
      BY <1>2 DEF ImdsInv
    <3>2. \A q : Accounted(q)' <=> Accounted(q)
      BY <1>1, <2>1 DEF Accounted, Sent, Listed, Has, Kids
    <3> QED BY <3>1, <3>2
  <2> QED BY <1>3, <2>3, <2>4, <2>5, <2>6 DEF ImdsInv
<1> QED BY <1>4, <1>5

LEMMA TokenStep ==
  ASSUME ImdsInv, NEW f \in Fates, Token(f)
  PROVE  ImdsInv'
<1>1. /\ Send(<<"token">>, f) /\ Goes(Tail(todo)) /\ version' = version /\ pc = "walk"
      /\ todo # <<>> /\ <<"token">> = Head(todo)
  BY DEF Token, Send
<1>2. <<"token">> \in Paths /\ <<"token">> \notin Dirs
  BY PathsAre DEF Dirs
<1>3. AtToken
  BY <1>1, WhereItIs
<1>4. todo' = Tail(Full) /\ pc' = "walk" /\ result' = result
  BY <1>1, <1>3, FullHolds DEF Goes, AtToken
<1>5. Moves(<<"token">>, f)
  BY <1>1, <1>2, TailMoves DEF Goes
<1>6. Sent' = Sent \cup {<<"token">>} /\ cloud' = cloud
  BY <1>1, <1>2, SendKeeps
<1>7. PlaceOK'
  <2>1. AtVersions'
    BY <1>3, <1>4, <1>6 DEF AtToken, AtVersions
  <2>2. Probe!OnEC2 /\ result = "none"
    BY <1>1 DEF ImdsInv, PlaceOK
  <2>3. (Probe!OnEC2)'
    BY <1>6, <2>2 DEF Probe!OnEC2
  <2> QED BY <1>4, <2>1, <2>2, <2>3, FullHolds DEF PlaceOK
<1>8. version' \in Supported \cup {0} /\ result' \in {"none", "info"}
  BY <1>1, <1>4 DEF ImdsInv, TypeOK, PlaceOK
<1> QED BY <1>1, <1>2, <1>4, <1>5, <1>7, <1>8, WalkStep

LEMMA VersionsStep ==
  ASSUME ImdsInv, NEW f \in Fates, Versions(f)
  PROVE  ImdsInv'
<1>1. /\ Send(<<"versions">>, f) /\ Goes(Tail(todo)) /\ pc = "walk"
      /\ todo # <<>> /\ <<"versions">> = Head(todo)
  BY DEF Versions, Send
<1>2. <<"versions">> \in Paths /\ <<"versions">> \notin Dirs
  BY PathsAre DEF Dirs
<1>3. AtVersions
  BY <1>1, WhereItIs
<1>4. todo' = Tail(Tail(Full)) /\ pc' = "walk" /\ result' = result
  BY <1>1, <1>3, FullHolds DEF Goes, AtVersions
<1>5. Moves(<<"versions">>, f)
  BY <1>1, <1>2, TailMoves DEF Goes
<1>6. Sent' = Sent \cup {<<"versions">>} /\ cloud' = cloud
  BY <1>1, <1>2, SendKeeps
<1>7. PlaceOK'
  <2>1. AtFirst'
    BY <1>3, <1>4, <1>6 DEF AtFirst, AtVersions
  <2>2. Probe!OnEC2 /\ result = "none"
    BY <1>1 DEF ImdsInv, PlaceOK
  <2>3. (Probe!OnEC2)'
    BY <1>6, <2>2 DEF Probe!OnEC2
  <2> QED BY <1>4, <2>1, <2>2, <2>3, FullHolds DEF PlaceOK
<1>8. version' \in Supported \cup {0}
  <2>1. version' = IF f = "ok" /\ cloud.versions \cap Supported # {}
                   THEN Max(cloud.versions \cap Supported) ELSE 0
    BY DEF Versions
  <2> QED BY <2>1, VersionHolds
<1>9. result' \in {"none", "info"}
  BY <1>1, <1>4 DEF ImdsInv, PlaceOK
<1> QED BY <1>1, <1>2, <1>4, <1>5, <1>7, <1>8, <1>9, WalkStep

\* The last request of a walk is that of the user data.
LEMMA TailAtRest ==
  ASSUME ImdsInv, todo # <<>>, AtRest
  PROVE  /\ Range(Tail(todo)) \subseteq Contents \ {First}
         /\ Tail(todo) = <<>> => Head(todo) = UserData
         /\ Tail(todo) # <<>> => Tail(todo)[Len(Tail(todo))] = UserData
<1>1. todo \in Seq(Paths)
  BY DEF ImdsInv
<1> QED BY <1>1, HeadIsTaken DEF AtRest

LEMMA ReadStep ==
  ASSUME ImdsInv, NEW f \in Fates, NEW p \in Contents, Read(p, f)
  PROVE  ImdsInv'
<1>1. /\ Send(p, f) /\ Goes(Tail(todo)) /\ version' = version /\ pc = "walk"
      /\ todo # <<>> /\ p = Head(todo) /\ p \notin Dirs
      /\ p = First => f \in Bodies
  BY TopIs DEF Read, Send
<1>2. p \in Paths /\ First \in Paths /\ p \notin {<<"token">>, <<"versions">>} /\ First # UserData
  BY PathsAre
<1>3. Moves(p, f)
  BY <1>1, TailMoves DEF Goes
<1>4. /\ Sent' = Sent \cup {p} /\ p \notin Sent /\ cloud' = cloud
      /\ log'[p] = f /\ \A q \in Paths \ {p} : log'[q] = log[q]
  BY <1>1, <1>2, SendKeeps
<1>5. Probe!OnEC2 /\ result = "none"
  BY <1>1 DEF ImdsInv, PlaceOK
<1>6. (Probe!OnEC2)'
  BY <1>4, <1>5 DEF Probe!OnEC2
<1>7. log'[First] \in Bodies /\ <<"token">> \in Sent'
  <2>1. CASE p = First
    <3>1. AtFirst
      BY <1>1, <2>1, WhereItIs
    <3> QED BY <1>1, <1>4, <2>1, <3>1 DEF AtFirst
  <2>2. CASE p # First
    <3>1. AtRest
      BY <1>1, <1>2, <2>2, WhereItIs
    <3> QED BY <1>2, <1>4, <2>2, <3>1 DEF AtRest
  <2> QED BY <2>1, <2>2
<1>8. /\ Range(Tail(todo)) \subseteq Contents \ {First}
      /\ Tail(todo) = <<>> => p = UserData
      /\ Tail(todo) # <<>> => Tail(todo)[Len(Tail(todo))] = UserData
  <2>1. CASE p = First
    <3>1. AtFirst
      BY <1>1, <2>1, WhereItIs
    <3>2. Tail(todo) = Rest
      BY <3>1 DEF AtFirst, Rest
    <3> QED BY <3>2, RestIs
  <2>2. CASE p # First
    <3>1. AtRest
      BY <1>1, <1>2, <2>2, WhereItIs
    <3> QED BY <1>1, <3>1, TailAtRest
  <2> QED BY <2>1, <2>2
<1>9. todo' = Tail(todo)
  BY <1>1 DEF Goes
<1>10. /\ todo' # <<>> => pc' = pc /\ result' = result
       /\ todo' = <<>> => pc' = "done" /\ result' = "info"
  BY <1>1, <1>9 DEF Goes
<1>11. PlaceOK'
  <2>1. CASE todo' = <<>>
    <3>1. Returned'
      BY <1>4, <1>6, <1>7, <1>8, <1>9, <1>10, <2>1 DEF Returned
    <3> QED BY <1>10, <2>1, <3>1 DEF PlaceOK
  <2>2. CASE todo' # <<>>
    <3>1. AtRest'
      BY <1>7, <1>8, <1>9, <2>2 DEF AtRest
    <3> QED BY <1>1, <1>5, <1>6, <1>10, <2>2, <3>1 DEF PlaceOK
  <2> QED BY <2>1, <2>2
<1>12. version' \in Supported \cup {0}
  BY <1>1 DEF ImdsInv, TypeOK
<1>13. pc' \in {"walk", "done"} /\ result' \in {"none", "info"}
  BY <1>1, <1>5, <1>10
<1> QED BY <1>1, <1>2, <1>3, <1>11, <1>12, <1>13, WalkStep

LEMMA ListStep ==
  ASSUME ImdsInv, NEW f \in Fates, NEW d \in Contents, List(d, f)
  PROVE  ImdsInv' /\ todo' # <<>>
<1>1. /\ Send(d, f) /\ version' = version /\ pc = "walk" /\ todo # <<>> /\ d = Head(todo)
      /\ d \in Dirs
      /\ Goes(SetToSeq(Listed(d, f)) \o Tail(todo))
  BY TopIs DEF List, Send
<1>2. d \in Paths /\ d \notin {<<"token">>, <<"versions">>, First, UserData} /\ First \in Paths
  BY <1>1, PathsAre
<1>3. AtRest
  BY <1>1, <1>2, WhereItIs
<1>4. /\ Sent' = Sent \cup {d} /\ d \notin Sent /\ cloud' = cloud
      /\ log'[d] = f /\ \A q \in Paths \ {d} : log'[q] = log[q]
  BY <1>1, <1>2, SendKeeps
<1>5. Tail(todo) # <<>> /\ Tail(todo)[Len(Tail(todo))] = UserData
      /\ Range(Tail(todo)) \subseteq Contents \ {First}
  BY <1>1, <1>2, <1>3, TailAtRest
<1>6. todo' = SetToSeq(Listed(d, f)) \o Tail(todo)
  BY <1>1 DEF Goes
<1>7. Moves(d, f) /\ todo' # <<>> /\ todo'[Len(todo')] = UserData
  BY <1>1, <1>4, <1>5, <1>6, ListMoves
<1>8. Range(todo') \subseteq Contents \ {First}
  <2>1. Learnt(d, f) \subseteq Below
    BY <1>1, ListedHolds, KidsHold DEF Learnt
  <2>2. Below \subseteq Contents /\ First \notin Below
    BY PathsAre
  <2> QED BY <1>5, <1>7, <2>1, <2>2 DEF Moves
<1>9. Probe!OnEC2 /\ result = "none"
  BY <1>1 DEF ImdsInv, PlaceOK
<1>10. (Probe!OnEC2)'
  BY <1>4, <1>9 DEF Probe!OnEC2
<1>11. pc' = pc /\ result' = result
  BY <1>1, <1>6, <1>7 DEF Goes
<1>12. AtRest'
  BY <1>2, <1>3, <1>4, <1>7, <1>8 DEF AtRest
<1>13. PlaceOK'
  BY <1>1, <1>7, <1>9, <1>10, <1>11, <1>12 DEF PlaceOK
<1>14. version' \in Supported \cup {0}
  BY <1>1 DEF ImdsInv, TypeOK
<1> QED BY <1>1, <1>2, <1>7, <1>9, <1>11, <1>13, <1>14, WalkStep

LEMMA FirstFailsStep ==
  ASSUME ImdsInv, NEW f \in Fates, FirstFails(f)
  PROVE  ImdsInv'
<1>1. /\ Send(First, f) /\ f \notin Bodies /\ version' = version /\ pc = "walk"
      /\ First = Head(todo) /\ todo' = <<>> /\ pc' = "done" /\ result' = "nil"
  BY DEF FirstFails, Send
<1>2. First \in Paths /\ First \notin Dirs
  BY PathsAre
<1>3. AtFirst /\ Probe!OnEC2
  BY <1>1, WhereItIs DEF ImdsInv, PlaceOK
<1>4. /\ cloud' = cloud /\ age' \in 0 .. Life /\ token' \in {"none", "held", "bad"}
      /\ log' \in [Paths -> Fates \cup {"none"}] /\ HonestOK'
      /\ Sent' = Sent \cup {First} /\ log'[First] = f
  BY <1>1, <1>2, SendKeeps
<1>5. Range(todo') = {} /\ IsInjective(todo') /\ todo' \in Seq(Paths)
  BY <1>1, EmptySeq DEF Range, IsInjective
<1>6. TypeOK'
  BY <1>1, <1>4, <1>5 DEF ImdsInv, TypeOK
<1>7. PlaceOK'
  <2>1. (Probe!OnEC2)'
    BY <1>3, <1>4 DEF Probe!OnEC2
  <2>2. log'[First] \in {"status", "cut", "unreachable"}
    BY <1>1, <1>4, FatesAre
  <2>3. NoFirst'
    BY <1>1, <1>3, <1>4, <2>1, <2>2 DEF NoFirst, AtFirst
  <2> QED BY <1>1, <2>3 DEF PlaceOK
<1>8. KidsOK'
  <2>1. Sent' \cap Below = {}
    BY <1>3, <1>4, PathsAre DEF AtFirst
  <2>2. \A d \in Dirs : Kids(d) \subseteq Below
    BY KidsHold
  <2> QED BY <1>5, <2>1, <2>2 DEF KidsOK, Kids
<1> QED BY <1>1, <1>4, <1>5, <1>6, <1>7, <1>8 DEF ImdsInv

LEMMA NextImdsInv == ImdsInv /\ [Next]_vars => ImdsInv'
<1> SUFFICES ASSUME ImdsInv, [Next]_vars PROVE ImdsInv'
  OBVIOUS
<1>1. CASE UNCHANGED vars
  <2>1. /\ cloud' = cloud /\ pc' = pc /\ todo' = todo /\ token' = token /\ age' = age
        /\ version' = version /\ log' = log /\ result' = result
    BY <1>1 DEF vars
  <2>2. TypeOK' /\ (todo \in Seq(Paths))'
    BY <2>1 DEF ImdsInv, TypeOK
  <2>3. (Probe!OnEC2)' <=> Probe!OnEC2
    BY <2>1 DEF Probe!OnEC2
  <2>4. PlaceOK'
    <3>1. PlaceOK
      BY DEF ImdsInv
    <3> QED BY <2>1, <2>3, <3>1 DEF PlaceOK, AtToken, AtVersions, AtFirst, AtRest, NotHere, NoFirst,
                                 Returned, Sent
  <2>5. HonestOK'
    <3>1. HonestOK
      BY DEF ImdsInv
    <3> QED BY <2>1, <3>1 DEF HonestOK, Has, Live
  <2>6. KidsOK'
    BY <2>1 DEF ImdsInv, KidsOK, Sent, Kids, Listed, Has
  <2>7. \A q : Accounted(q)' <=> Accounted(q)
    BY <2>1 DEF Accounted, Sent, Listed, Has, Kids
  <2> QED BY <2>1, <2>2, <2>4, <2>5, <2>6, <2>7 DEF ImdsInv
<1>2. CASE Closed \/ Open
  BY <1>2, GateSteps
<1>3. ASSUME NEW f \in Fates,
             Token(f) \/ Versions(f) \/ FirstFails(f) \/ \E p \in Contents : Read(p, f) \/ List(p, f)
      PROVE  ImdsInv'
  BY <1>3, TokenStep, VersionsStep, FirstFailsStep, ReadStep, ListStep
<1> QED BY <1>1, <1>2, <1>3 DEF Next

\* Along every walk, what is on the list, what was asked and what is reported fit together.
THEOREM ImdsInvHolds == Spec => []ImdsInv
<1> QED BY InitImdsInv, NextImdsInv, PTL DEF Spec

----------------------------------------------------------------------------
\* Type correctness: a walk holds only paths it has not asked for, each once, and
\* every variable keeps its range, whatever the service lists and answers.
THEOREM ImdsTypeCorrect == Spec => []TypeOK
<1>1. ImdsInv => TypeOK
  BY DEF ImdsInv
<1> QED BY <1>1, ImdsInvHolds, PTL

----------------------------------------------------------------------------
\* What Collect reports.

LEMMA NoFaults ==
  ASSUME Faults = 0, NEW p \in Paths
  PROVE  log[p] \notin Faulty
<1> DEFINE F == {q \in Paths : log[q] \in Faulty}
<1>1. IsFiniteSet(F)
  BY PathsFinite, FS_Subset
<1>2. F = {}
  BY <1>1, FS_EmptySet DEF Faults
<1> QED BY <1>2

\* What a walk that is over did not ask for was not listed.
LEMMA DoneHolds ==
  ASSUME ImdsInv, pc = "done", result = "info", NEW p \in Contents
  PROVE  \/ p \in Sent
         \/ \E d \in Dirs : p \in Kids(d) /\ d \in Sent /\ p \notin Listed(d, log[d])
<1>1. Range(todo) = {}
  BY DEF ImdsInv, PlaceOK, Range
<1> QED BY <1>1 DEF ImdsInv, Accounted

\* Which directory stands for which paths.
LEMMA DirectoryOf ==
  ASSUME NEW p \in Contents
  PROVE  /\ p \in EniPaths <=> p \in Kids(<<"macs">>)
         /\ p \in Volumes <=> p \in Kids(<<"block-device-mapping">>)
         /\ p \in Keys <=> p \in Kids(<<"public-keys">>)
BY BelowIs

\* The invariant is what it takes for a walk without faults to be whole.
LEMMA WholeFromInv == ImdsInv => PromptWalkIsWhole
<1> SUFFICES ASSUME ImdsInv, pc = "done", cloud.host.platform = "ec2", Probe!OnEC2, Faults = 0,
                    age < Life, Has(First), Has(<<"token">>) \/ cloud.host.v1
             PROVE  /\ result = "info"
                    /\ Got = {p \in Contents : Has(p) /\ (p \in EniPaths => Has(<<"macs">>))
                                 /\ (p \in Volumes => Has(<<"block-device-mapping">>))
                                 /\ (p \in Keys => Has(<<"public-keys">>))}
  BY DEF PromptWalkIsWhole
<1>1. HonestOK /\ KidsOK /\ (NoFirst \/ Returned)
  BY DEF ImdsInv, PlaceOK, NotHere
<1>2. \A p \in Sent : log[p] \in {"ok", "status"}
  <2>1. ASSUME NEW p \in Sent PROVE p \in Paths /\ log[p] \in Fates
    BY DEF ImdsInv, TypeOK, Sent
  <2> QED BY <2>1, NoFaults, FatesAre
<1>3. <<"token">> \in Sent
  BY <1>1 DEF NoFirst, Returned
<1>4. Live
  <2>1. CASE log[<<"token">>] = "ok"
    BY <1>1, <2>1 DEF HonestOK, Live
  <2>2. CASE log[<<"token">>] = "status"
    BY <1>1, <2>2 DEF HonestOK, Live
  <2> QED BY <1>2, <1>3, <2>1, <2>2
<1>5. \A p \in Sent : log[p] = "ok" <=> Has(p)
  <2>1. ASSUME NEW p \in Sent PROVE p \in Paths
    BY DEF Sent
  <2> QED BY <1>1, <1>2, <1>4, <2>1 DEF HonestOK
<1>6. First \in Paths /\ Contents \subseteq Paths /\ Dirs \subseteq Paths
  BY PathsAre
<1>7. result = "info"
  <2>1. log[First] # "status" /\ log[First] \notin {"cut", "unreachable"}
    BY <1>1, <1>4, <1>6, NoFaults, FatesAre DEF HonestOK
  <2> QED BY <1>1, <2>1 DEF NoFirst, Returned
<1>8. ASSUME NEW p \in Contents, log[p] = "ok", NEW d \in Dirs, p \in Kids(d)
      PROVE  Has(d)
  <2>1. p \in Sent
    BY <1>6, <1>8 DEF Sent
  <2>2. log[d] = "ok"
    <3>1. p \in Listed(d, log[d])
      BY <1>1, <1>8, <2>1 DEF KidsOK
    <3>2. log[d] \in {"ok", "garbled"}
      BY <3>1, ListedHolds
    <3> QED BY <1>6, <3>2, NoFaults, FatesAre
  <2> QED BY <1>1, <1>6, <2>2 DEF HonestOK
<1>9. {<<"macs">>, <<"block-device-mapping">>, <<"public-keys">>} = Dirs
  BY DEF Dirs
<1>10. ASSUME NEW p \in Contents, log[p] = "ok"
       PROVE  /\ Has(p) /\ (p \in EniPaths => Has(<<"macs">>))
              /\ (p \in Volumes => Has(<<"block-device-mapping">>))
              /\ (p \in Keys => Has(<<"public-keys">>))
  <2>1. Has(p)
    BY <1>1, <1>6, <1>10 DEF HonestOK
  <2> QED BY <1>8, <1>9, <1>10, <2>1, DirectoryOf
<1>11. ASSUME NEW p \in Contents, Has(p), p \in EniPaths => Has(<<"macs">>),
              p \in Volumes => Has(<<"block-device-mapping">>), p \in Keys => Has(<<"public-keys">>)
       PROVE  log[p] = "ok"
  <2>1. CASE p \in Sent
    BY <1>5, <1>11, <2>1
  <2>2. ASSUME NEW d \in Dirs, p \in Kids(d), d \in Sent, p \notin Listed(d, log[d])
        PROVE  FALSE
    <3>1. Has(d)
      BY <1>9, <1>11, <2>2, DirectoryOf
    <3>2. log[d] = "ok"
      BY <1>5, <2>2, <3>1
    <3> QED BY <1>11, <2>2, <3>2, ListedHolds
  <2> QED BY <1>7, <2>1, <2>2, DoneHolds
<1>12. Got = {p \in Contents : Has(p) /\ (p \in EniPaths => Has(<<"macs">>))
                                 /\ (p \in Volumes => Has(<<"block-device-mapping">>))
                                 /\ (p \in Keys => Has(<<"public-keys">>))}
  BY <1>10, <1>11 DEF Got
<1> QED BY <1>7, <1>12

\* If no request fails and the token outlives the walk, Collect reports all the
\* service has and nothing else, for every service and every set of interfaces.
THEOREM PromptWalkIsWholeHolds == Spec => []PromptWalkIsWhole
<1> QED BY WholeFromInv, ImdsInvHolds, PTL

\* Two paths are not both at fault if there is one fault.
LEMMA OneFault ==
  ASSUME Faults <= 1, NEW p \in Paths, NEW q \in Paths, p # q, log[p] \in Faulty
  PROVE  log[q] \notin Faulty
<1> DEFINE F == {r \in Paths : log[r] \in Faulty}
<1>1. IsFiniteSet(F)
  BY PathsFinite, FS_Subset
<1>2. ASSUME log[q] \in Faulty PROVE FALSE
  <2>1. p \in F /\ q \in F
    BY <1>2
  <2>2. Cardinality(F) <= 1
    BY DEF Faults
  <2> HIDE DEF F
  <2>3. F \ {p} # {} /\ IsFiniteSet(F \ {p}) /\ Cardinality(F \ {p}) = Cardinality(F) - 1
    BY <1>1, <2>1, FS_RemoveElement
  <2>4. Cardinality(F \ {p}) \in Nat /\ Cardinality(F) \in Nat
    BY <1>1, <2>3, FS_CardinalityType
  <2>5. Cardinality(F \ {p}) = 0
    BY <2>2, <2>3, <2>4
  <2> QED BY <2>3, <2>5, FS_EmptySet
<1> QED BY <1>2

\* And for a lost request to cost no more than what it asked for.
LEMMA LocalFromInv == ImdsInv => LossesStayLocal
<1> SUFFICES ASSUME ImdsInv, result = "info", age < Life,
                    token = "held" \/ (cloud.host.v1 /\ token = "none")
             PROVE  LossesStayLocal
  BY DEF LossesStayLocal
<1>1. HonestOK /\ KidsOK /\ Live /\ pc = "done" /\ todo = <<>> /\ Returned
  BY DEF ImdsInv, TypeOK, PlaceOK, Live, NotHere, NoFirst
<1>2. First \in Paths /\ Contents \subseteq Paths
  BY PathsAre
<1>3. cloud.host.platform = "ec2"
  BY <1>1, <1>2, FatesAre DEF Returned, HonestOK
<1>4. ASSUME NEW p \in Contents, Has(p), log[p] # "ok"
      PROVE  \/ log[p] \in Faulty
             \/ log[p] = "none" /\ \E d \in Range(Directories) : d[1] = p[1] /\ log[d] # "ok"
  <2>1. p \in Paths /\ log[p] \in Fates \cup {"none"}
    BY <1>2, <1>4 DEF ImdsInv, TypeOK
  <2>2. log[p] # "status"
    BY <1>1, <1>3, <1>4, <2>1 DEF HonestOK
  <2>3. CASE p \in Sent
    BY <1>4, <2>1, <2>2, <2>3, FatesAre DEF Sent
  <2>4. CASE p \notin Sent
    <3>1. PICK d \in Dirs : p \in Kids(d) /\ p \notin Listed(d, log[d])
      BY <1>1, <2>4, DoneHolds
    <3>2. log[d] # "ok"
      BY <1>4, <3>1, ListedHolds
    <3>3. d \in Range(Directories) /\ d[1] = p[1]
      BY <3>1, TopIs DEF Kids
    <3> QED BY <2>1, <2>4, <3>2, <3>3 DEF Sent
  <2> QED BY <2>3, <2>4
<1>5. ASSUME NEW p \in {<<"instance-id">>, <<"region">>, <<"zone">>}, Has(p), Has(<<"identity">>), Faults <= 1
      PROVE  Filled(p) = "right" \/ log[p] = "garbled"
  <2>1. /\ p \in Top \ Dirs /\ <<"identity">> \in Top \ Dirs /\ p # <<"identity">>
    BY DEF Top, Dirs
  <2>2. ASSUME NEW q \in Top \ Dirs, Has(q) PROVE log[q] = "ok" \/ log[q] \in Faulty
    <3>1. q \in Contents /\ \A d \in Dirs : q \notin Kids(d)
      BY KidsHold, PathsAre
    <3>2. q \in Sent
      BY <1>1, <3>1, DoneHolds
    <3> QED BY <1>4, <2>2, <3>1, <3>2 DEF Sent
  <2>3. CASE log[p] = "ok"
    BY <2>3 DEF Filled, Value
  <2>4. CASE log[p] \in Faulty \ {"garbled"}
    <3>1. log[<<"identity">>] \notin Faulty
      BY <1>2, <1>5, <2>1, <2>4, OneFault, PathsAre
    <3>2. <<"identity">> \in Got
      BY <1>5, <2>1, <2>2, <3>1, PathsAre DEF Got
    <3>3. Value(p) = ""
      BY <2>4, FatesAre DEF Value
    <3> QED BY <3>2, <3>3 DEF Filled
  <2> QED BY <1>5, <2>1, <2>2, <2>3, <2>4
\* What was asked for below a directory whose answer is not garbled is the service's.
<1>6. ASSUME NEW d \in Dirs, log[d] # "garbled", NEW p \in Kids(d), log[p] # "none"
      PROVE  log[d] = "ok" /\ p \in Listed(d, "ok")
  <2>1. p \in Sent
    BY <1>6, ListedHolds DEF Sent
  <2>2. p \in Listed(d, log[d])
    BY <1>1, <2>1 DEF KidsOK
  <2> QED BY <1>6, <2>2, ListedHolds
<1>7. DOMAIN Info.NetworkInterfaces = {p[2] : p \in {q \in EniPaths : log[q] # "none"}}
  BY DEF Info
<1>8. ASSUME log[<<"macs">>] # "garbled"
      PROVE  DOMAIN Info.NetworkInterfaces \subseteq cloud.macs
  <2>1. ASSUME NEW p \in EniPaths, log[p] # "none" PROVE p[2] \in cloud.macs
    <3>1. p \in Listed(<<"macs">>, "ok") /\ p[1] = "macs"
      BY <1>6, <1>8, <2>1, BelowIs DEF Dirs, EniPaths
    <3> QED BY <3>1 DEF Listed
  <2> QED BY <1>7, <2>1
<1>9. ASSUME log[<<"macs">>] = "ok"
      PROVE  cloud.macs \subseteq DOMAIN Info.NetworkInterfaces
  <2>1. ASSUME NEW m \in cloud.macs PROVE \E p \in EniPaths : p[2] = m /\ log[p] # "none"
    <3>1. m \in Macs /\ m # Junk
      <4>1. cloud.macs \subseteq Macs
        BY CloudsAssumption DEF ImdsInv, TypeOK, CloudOK
      <4> QED BY <4>1, JunkAssumption
    <3> DEFINE p == <<"macs", m, EniFields[1]>>
    <3>2. p \in EniPaths /\ p[2] = m /\ p[1] = "macs"
      BY <3>1 DEF EniPaths, EniFields
    <3> HIDE DEF p
    <3>3. p \in Below /\ p \in Contents
      BY <3>2, PathsAre DEF Below
    <3>4. p \in Listed(<<"macs">>, "ok")
      BY <3>1, <3>2, <3>3 DEF Listed
    <3>5. \A d \in Dirs : p \in Kids(d) => d = <<"macs">>
      BY <3>2 DEF Kids, Dirs
    <3>6. p \in Sent
      BY <1>1, <1>9, <3>3, <3>4, <3>5, DoneHolds
    <3> QED BY <3>2, <3>6 DEF Sent
  <2> QED BY <1>7, <2>1
<1>10. ASSUME log[<<"block-device-mapping">>] # "garbled", NEW v \in DOMAIN Info.BlockDeviceMapping
       PROVE  Has(v)
  <2>1. v \in Volumes /\ log[v] # "none"
    BY FatesAre DEF Info
  <2>2. v \in Listed(<<"block-device-mapping">>, "ok") /\ v[1] = "block-device-mapping"
    BY <1>6, <1>10, <2>1, BelowIs DEF Dirs, Volumes
  <2> QED BY <2>2 DEF Listed
<1>11. ASSUME log[<<"public-keys">>] # "garbled", NEW k \in Info.PublicKeys
       PROVE  Has(k)
  <2>1. k \in Keys /\ log[k] # "none"
    BY DEF Info, Value
  <2>2. k \in Listed(<<"public-keys">>, "ok") /\ k[1] = "public-keys"
    BY <1>6, <1>11, <2>1, BelowIs DEF Dirs, Keys
  <2> QED BY <2>2 DEF Listed
<1>12. \A p \in Contents : Value(p) # "right" => log[p] # "ok"
  BY DEF Value
<1> QED BY <1>4, <1>5, <1>8, <1>9, <1>10, <1>11, <1>12 DEF LossesStayLocal

\* One lost request costs no more than what it asked for, whichever it is.
THEOREM LossesStayLocalHolds == Spec => []LossesStayLocal
<1> QED BY LocalFromInv, ImdsInvHolds, PTL

----------------------------------------------------------------------------
\* What CloudProbe sees of the walk.

Steps == {"token", "versions", "first", "rest", "document", "vnics", "volumes", "tree", "nova"}

SeenPc == [p \in {"ec2"} \cup Others |-> IF p = "ec2" THEN ProbePc ELSE "gate"]
SeenLog == [p \in {"ec2"} \cup Others |->
               [s \in DOMAIN ProbeLog |-> IF p = "ec2" THEN ProbeLog[s] ELSE "none"]]
SeenResult == [p \in {"ec2"} \cup Others |-> IF p = "ec2" THEN result ELSE "none"]

LEMMA LogIs ==
  /\ DOMAIN ProbeLog = Steps
  /\ ProbeLog["token"] = Seen(log[<<"token">>]) /\ ProbeLog["versions"] = Seen(log[<<"versions">>])
  /\ ProbeLog["first"] = Seen(log[First])
  /\ ProbeLog["rest"] = IF result = "info" THEN Seen(log[UserData]) ELSE "none"
  /\ \A s \in {"document", "vnics", "volumes", "tree", "nova"} : ProbeLog[s] = "none"
BY DEF ProbeLog, Steps, UserData

\* Where CloudProbe sees the walk.
LEMMA PcIs ==
  /\ pc # "walk" => ProbePc = pc
  /\ pc = "walk" /\ Head(todo) = <<"token">> => ProbePc = "token"
  /\ pc = "walk" /\ Head(todo) = <<"versions">> => ProbePc = "versions"
  /\ pc = "walk" /\ Head(todo) = First => ProbePc = "first"
  /\ pc = "walk" /\ Head(todo) \notin {<<"token">>, <<"versions">>, First} => ProbePc = "rest"
<1>1. pc # "walk" => ProbePc = pc
  BY DEF ProbePc
<1>2. ASSUME pc = "walk", Head(todo) = <<"token">> PROVE ProbePc = "token"
  BY <1>2, PathsAre DEF ProbePc
<1>3. ASSUME pc = "walk", Head(todo) = <<"versions">> PROVE ProbePc = "versions"
  BY <1>3, PathsAre DEF ProbePc
<1>4. ASSUME pc = "walk", Head(todo) = First PROVE ProbePc = "first"
  BY <1>4, PathsAre DEF ProbePc
<1>5. ASSUME pc = "walk", Head(todo) \notin {<<"token">>, <<"versions">>, First}
      PROVE  ProbePc = "rest"
  BY <1>5 DEF ProbePc
<1> QED BY <1>1, <1>2, <1>3, <1>4, <1>5

\* What CloudProbe makes of an answer.
LEMMA SeenIs ==
  /\ Seen("none") = "none"
  /\ \A f \in Fates : Seen(f) \in Probe!Fates
  /\ \A f \in Fates : f \in Bodies <=> Seen(f) \in {"ok", "malformed"}
  /\ \A f : f \in {"ok", "cut", "status", "unreachable"} => Seen(f) = f
BY FatesAre DEF Seen, Probe!Fates

\* CloudProbe allows every answer.
LEMMA ProbeFates ==
  ASSUME ImdsInv, NEW p, NEW f \in FatesOf(p), f \in Fates,
         NEW s \in {"token", "versions", "first", "rest"}, s = "token" <=> p = <<"token">>
  PROVE  Seen(f) \in Probe!FatesOf("ec2", s)
<1>1. SeenLog["ec2"]["token"] = Seen(log[<<"token">>])
  BY LogIs DEF SeenLog, Steps
<1>2. CASE cloud.host.platform # "ec2"
  <2>1. f \in {"status", "unreachable"}
    BY <1>2 DEF FatesOf
  <2> QED BY <1>2, <2>1, SeenIs DEF Probe!FatesOf, Probe!Served, Probe!Refused
<1>3. CASE cloud.host.platform = "ec2"
  <2>1. Probe!Served("ec2", s)
    BY <1>3 DEF Probe!Served
  <2>2. CASE ~ Probe!Refused("ec2", s)
    <3>1. Seen(f) \in {"ok", "malformed", "cut", "status", "unreachable"}
      BY SeenIs DEF Probe!Fates
    <3> QED BY <2>1, <2>2, <3>1 DEF Probe!FatesOf
  <2>3. CASE Probe!Refused("ec2", s)
    <3>1. s # "token" /\ ~ cloud.host.v1 /\ Seen(log[<<"token">>]) \notin {"ok", "malformed"}
      BY <1>1, <2>3 DEF Probe!Refused, SeenLog
    <3>2. token = "none"
      <4>1. log[<<"token">>] \notin {"ok", "garbled"}
        BY <3>1 DEF Seen
      <4> QED BY <4>1 DEF ImdsInv, HonestOK
    <3>3. ~ Authorized(p)
      BY <3>1, <3>2 DEF Authorized
    <3>4. f \in {"status", "unreachable"}
      BY <1>3, <3>3 DEF FatesOf
    <3> QED BY <2>1, <2>3, <3>4, SeenIs DEF Probe!FatesOf
  <2> QED BY <2>2, <2>3
<1> QED BY <1>2, <1>3

LEMMA InitSeen == Init => Probe!Init
<1> SUFFICES ASSUME Init PROVE Probe!Init
  OBVIOUS
<1>1. ImdsInv
  BY InitImdsInv
<1>2. cloud \in Clouds /\ pc = "gate" /\ result = "none" /\ \A p \in Paths : log[p] = "none"
  BY DEF Init
<1>3. ProbePc = "gate"
  BY <1>1, <1>2, PcIs
<1>4. \A s \in Steps : ProbeLog[s] = "none"
  BY <1>2, LogIs, PathsAre, SeenIs DEF Steps
<1>5. {"ec2"} \cup Others = Probe!Providers
  BY DEF Others, Probe!Providers
<1>6. DOMAIN ProbeLog = Probe!Steps /\ Steps = Probe!Steps
  BY LogIs DEF Steps, Probe!Steps
<1>7. SeenPc = [p \in Probe!Providers |-> "gate"]
  BY <1>3, <1>5 DEF SeenPc
<1>8. SeenLog = [p \in Probe!Providers |-> [s \in Probe!Steps |-> "none"]]
  BY <1>4, <1>5, <1>6 DEF SeenLog
<1>9. SeenResult = [p \in Probe!Providers |-> "none"]
  BY <1>2, <1>5 DEF SeenResult
<1> QED BY <1>2, <1>7, <1>8, <1>9 DEF Probe!Init, SeenPc, SeenLog, SeenResult

\* Only the EC2 collector moves.
LEMMA SeenMoves ==
  /\ SeenPc' = [SeenPc EXCEPT !["ec2"] = ProbePc'] /\ SeenPc["ec2"] = ProbePc
  /\ SeenResult' = [SeenResult EXCEPT !["ec2"] = result']
  /\ result' = result => SeenResult' = SeenResult
  /\ ProbePc' = ProbePc => SeenPc' = SeenPc
BY DEF SeenPc, SeenResult

LEMMA SeenSame ==
  ASSUME \A t \in Steps : ProbeLog'[t] = ProbeLog[t]
  PROVE  SeenLog' = SeenLog
<1>1. DOMAIN ProbeLog = Steps
  BY LogIs
<1>2. DOMAIN ProbeLog' = Steps
  BY DEF ProbeLog, Steps
<1> QED BY <1>1, <1>2 DEF SeenLog

LEMMA SeenAnswer ==
  ASSUME NEW s \in Steps, NEW f, ProbeLog'[s] = f, \A t \in Steps \ {s} : ProbeLog'[t] = ProbeLog[t]
  PROVE  SeenLog' = [SeenLog EXCEPT !["ec2"][s] = f]
<1>1. DOMAIN ProbeLog = Steps
  BY LogIs
<1>2. DOMAIN ProbeLog' = Steps
  BY DEF ProbeLog, Steps
<1> HIDE DEF Steps
<1>3. SeenLog = [p \in {"ec2"} \cup Others |-> [t \in Steps |-> IF p = "ec2" THEN ProbeLog[t] ELSE "none"]]
  BY <1>1 DEF SeenLog
<1>4. SeenLog' = [p \in {"ec2"} \cup Others |-> [t \in Steps |-> IF p = "ec2" THEN ProbeLog'[t] ELSE "none"]]
  BY <1>2 DEF SeenLog
<1>5. "ec2" \notin Others
  BY DEF Others
<1> QED BY <1>3, <1>4, <1>5

LEMMA PcIsNext ==
  /\ pc' # "walk" => ProbePc' = pc'
  /\ pc' = "walk" /\ Head(todo') = <<"token">> => ProbePc' = "token"
  /\ pc' = "walk" /\ Head(todo') = <<"versions">> => ProbePc' = "versions"
  /\ pc' = "walk" /\ Head(todo') = First => ProbePc' = "first"
  /\ pc' = "walk" /\ Head(todo') \notin {<<"token">>, <<"versions">>, First} => ProbePc' = "rest"
<1>1. pc' # "walk" => ProbePc' = pc'
  BY DEF ProbePc
<1>2. ASSUME pc' = "walk", Head(todo') = <<"token">> PROVE ProbePc' = "token"
  BY <1>2, PathsAre DEF ProbePc
<1>3. ASSUME pc' = "walk", Head(todo') = <<"versions">> PROVE ProbePc' = "versions"
  BY <1>3, PathsAre DEF ProbePc
<1>4. ASSUME pc' = "walk", Head(todo') = First PROVE ProbePc' = "first"
  BY <1>4, PathsAre DEF ProbePc
<1>5. ASSUME pc' = "walk", Head(todo') \notin {<<"token">>, <<"versions">>, First}
      PROVE  ProbePc' = "rest"
  BY <1>5 DEF ProbePc
<1> QED BY <1>1, <1>2, <1>3, <1>4, <1>5

LEMMA LogIsNext ==
  /\ ProbeLog'["token"] = Seen(log'[<<"token">>]) /\ ProbeLog'["versions"] = Seen(log'[<<"versions">>])
  /\ ProbeLog'["first"] = Seen(log'[First])
  /\ ProbeLog'["rest"] = IF result' = "info" THEN Seen(log'[UserData]) ELSE "none"
  /\ \A s \in {"document", "vnics", "volumes", "tree", "nova"} : ProbeLog'[s] = "none"
BY DEF ProbeLog, UserData

\* The request of step s has been answered with f.
Answered(s, f) ==
    /\ SeenLog' = [SeenLog EXCEPT !["ec2"][s] = f]
    /\ f \in Probe!FatesOf("ec2", s)
    /\ cloud' = cloud

LEMMA TokenSeen ==
  ASSUME ImdsInv, NEW f \in Fates, Token(f)
  PROVE  Probe!Ec2Token(Seen(f))
<1>1. /\ Send(<<"token">>, f) /\ pc = "walk" /\ f \in FatesOf(<<"token">>)
      /\ <<"token">> = Head(todo) /\ Goes(Tail(todo))
  BY DEF Token, Send
<1>2. AtToken
  BY <1>1, WhereItIs
<1>3. pc' = "walk" /\ result' = result /\ todo' = Tail(Full)
  BY <1>1, <1>2, FullHolds DEF Goes, AtToken
<1>4. {<<"token">>, <<"versions">>, First, UserData} \subseteq Paths
      /\ <<"token">> # <<"versions">> /\ <<"token">> # First /\ <<"token">> # UserData
  BY PathsAre
<1>5. /\ log'[<<"token">>] = f /\ \A q \in Paths \ {<<"token">>} : log'[q] = log[q]
      /\ cloud' = cloud
  BY <1>1, <1>4, SendKeeps
<1>6. ProbePc = "token" /\ ProbePc' = "versions"
  BY <1>1, <1>3, FullHolds, PcIs, PcIsNext
<1>7. Answered("token", Seen(f))
  <2>1. ProbeLog'["token"] = Seen(f) /\ \A t \in Steps \ {"token"} : ProbeLog'[t] = ProbeLog[t]
    BY <1>3, <1>4, <1>5, LogIs, LogIsNext DEF Steps
  <2>2. SeenLog' = [SeenLog EXCEPT !["ec2"]["token"] = Seen(f)]
    BY <2>1, SeenAnswer DEF Steps
  <2> QED BY <1>1, <1>5, <2>2, ProbeFates DEF Answered
<1> QED BY <1>3, <1>6, <1>7, SeenMoves
    DEF Probe!Ec2Token, Probe!Send, Probe!GoTo, Answered, SeenPc, SeenLog, SeenResult

LEMMA VersionsSeen ==
  ASSUME ImdsInv, NEW f \in Fates, Versions(f)
  PROVE  Probe!Ec2Versions(Seen(f))
<1>1. /\ Send(<<"versions">>, f) /\ pc = "walk" /\ f \in FatesOf(<<"versions">>)
      /\ <<"versions">> = Head(todo) /\ Goes(Tail(todo))
  BY DEF Versions, Send
<1>2. AtVersions
  BY <1>1, WhereItIs
<1>3. pc' = "walk" /\ result' = result /\ todo' = Tail(Tail(Full))
  BY <1>1, <1>2, FullHolds DEF Goes, AtVersions
<1>4. {<<"token">>, <<"versions">>, First, UserData} \subseteq Paths
      /\ <<"versions">> # <<"token">> /\ <<"versions">> # First /\ <<"versions">> # UserData
  BY PathsAre
<1>5. /\ log'[<<"versions">>] = f /\ \A q \in Paths \ {<<"versions">>} : log'[q] = log[q]
      /\ cloud' = cloud
  BY <1>1, <1>4, SendKeeps
<1>6. ProbePc = "versions" /\ ProbePc' = "first"
  BY <1>1, <1>3, FullHolds, PcIs, PcIsNext
<1>7. Answered("versions", Seen(f))
  <2>1. ProbeLog'["versions"] = Seen(f) /\ \A t \in Steps \ {"versions"} : ProbeLog'[t] = ProbeLog[t]
    BY <1>3, <1>4, <1>5, LogIs, LogIsNext DEF Steps
  <2>2. SeenLog' = [SeenLog EXCEPT !["ec2"]["versions"] = Seen(f)]
    BY <2>1, SeenAnswer DEF Steps
  <2> QED BY <1>1, <1>4, <1>5, <2>2, ProbeFates DEF Answered
<1> QED BY <1>3, <1>6, <1>7, SeenMoves
    DEF Probe!Ec2Versions, Probe!Send, Probe!GoTo, Answered, SeenPc, SeenLog, SeenResult

LEMMA FirstFailsSeen ==
  ASSUME ImdsInv, NEW f \in Fates, FirstFails(f)
  PROVE  Probe!Ec2First(Seen(f))
<1>1. /\ Send(First, f) /\ pc = "walk" /\ f \in FatesOf(First) /\ f \notin Bodies
      /\ First = Head(todo) /\ pc' = "done" /\ result' = "nil"
  BY DEF FirstFails, Send
<1>2. result = "none"
  BY <1>1 DEF ImdsInv, PlaceOK
<1>3. {<<"token">>, <<"versions">>, First, UserData} \subseteq Paths
      /\ First # <<"token">> /\ First # <<"versions">> /\ First # UserData
  BY PathsAre
<1>4. log'[First] = f /\ (\A q \in Paths \ {First} : log'[q] = log[q]) /\ cloud' = cloud
  BY <1>1, <1>3, SendKeeps
<1>5. ProbePc = "first" /\ ProbePc' = "done"
  BY <1>1, PcIs, PcIsNext
<1>6. Answered("first", Seen(f))
  <2>1. ProbeLog'["first"] = Seen(f) /\ \A t \in Steps \ {"first"} : ProbeLog'[t] = ProbeLog[t]
    BY <1>1, <1>2, <1>3, <1>4, LogIs, LogIsNext DEF Steps
  <2>2. SeenLog' = [SeenLog EXCEPT !["ec2"]["first"] = Seen(f)]
    BY <2>1, SeenAnswer DEF Steps
  <2> QED BY <1>1, <1>3, <1>4, <2>2, ProbeFates DEF Answered
<1>7. Probe!Get(Seen(f)) # "body"
  BY <1>1, SeenIs DEF Probe!Get
<1> QED BY <1>1, <1>5, <1>6, <1>7, SeenMoves
    DEF Probe!Ec2First, Probe!Send, Probe!Return, Answered, SeenPc, SeenLog, SeenResult

LEMMA HeadOfRest ==
  ASSUME NEW s \in Seq(Paths), s # <<>>, Range(s) \subseteq Contents \ {First}
  PROVE  Head(s) \notin {<<"token">>, <<"versions">>, First}
BY HeadIsTaken, PathsAre

LEMMA FirstSeen ==
  ASSUME ImdsInv, NEW f \in Fates, Read(First, f)
  PROVE  Probe!Ec2First(Seen(f))
<1>1. /\ Send(First, f) /\ pc = "walk" /\ f \in FatesOf(First) /\ f \in Bodies
      /\ First = Head(todo) /\ todo # <<>> /\ Goes(Tail(todo))
  BY DEF Read, Send
<1>2. AtFirst
  BY <1>1, WhereItIs
<1>3. todo' = Rest /\ pc' = "walk" /\ result' = result
  BY <1>1, <1>2, RestIs DEF Goes, AtFirst, Rest
<1>4. {<<"token">>, <<"versions">>, First, UserData} \subseteq Paths
      /\ First # <<"token">> /\ First # <<"versions">> /\ First # UserData
  BY PathsAre
<1>5. log'[First] = f /\ (\A q \in Paths \ {First} : log'[q] = log[q]) /\ cloud' = cloud
  BY <1>1, <1>4, SendKeeps
<1>6. ProbePc = "first" /\ ProbePc' = "rest"
  <2>1. todo' \in Seq(Paths)
    BY <1>1, HeadIsTaken DEF ImdsInv, Goes
  <2>2. Head(todo') \notin {<<"token">>, <<"versions">>, First}
    BY <1>3, <2>1, RestIs, HeadOfRest
  <2> QED BY <1>1, <1>3, <2>2, PcIs, PcIsNext
<1>7. Answered("first", Seen(f))
  <2>1. ProbeLog'["first"] = Seen(f) /\ \A t \in Steps \ {"first"} : ProbeLog'[t] = ProbeLog[t]
    BY <1>3, <1>4, <1>5, LogIs, LogIsNext DEF Steps
  <2>2. SeenLog' = [SeenLog EXCEPT !["ec2"]["first"] = Seen(f)]
    BY <2>1, SeenAnswer DEF Steps
  <2> QED BY <1>1, <1>4, <1>5, <2>2, ProbeFates DEF Answered
<1>8. Probe!Get(Seen(f)) = "body"
  BY <1>1, SeenIs DEF Probe!Get
<1> QED BY <1>3, <1>6, <1>7, <1>8, SeenMoves
    DEF Probe!Ec2First, Probe!Send, Probe!GoTo, Answered, SeenPc, SeenLog, SeenResult

\* Of the requests after the first CloudProbe sees the last.
LEMMA ReadSeen ==
  ASSUME ImdsInv, NEW f \in Fates, NEW p \in Contents, p # First, Read(p, f)
  PROVE  Probe!Ec2Rest(Seen(f)) \/ UNCHANGED Probe!vars
<1>1. /\ Send(p, f) /\ pc = "walk" /\ f \in FatesOf(p)
      /\ p = Head(todo) /\ todo # <<>> /\ Goes(Tail(todo)) /\ todo' = Tail(todo)
  BY DEF Read, Send, Goes
<1>2. /\ {p, <<"token">>, <<"versions">>, First, UserData} \subseteq Paths
      /\ p # <<"token">> /\ p # <<"versions">>
      /\ UserData # <<"token">> /\ UserData # <<"versions">> /\ UserData # First
  BY PathsAre
<1>3. AtRest /\ result = "none" /\ todo \in Seq(Paths)
  BY <1>1, <1>2, WhereItIs DEF ImdsInv, PlaceOK
<1>4. log'[p] = f /\ (\A q \in Paths \ {p} : log'[q] = log[q]) /\ cloud' = cloud
  BY <1>1, <1>2, SendKeeps
<1>5. ProbePc = "rest"
  BY <1>1, <1>2, PcIs
<1>6. CASE todo' = <<>>
  <2>1. p = UserData /\ pc' = "done" /\ result' = "info"
    BY <1>1, <1>3, <1>6, TailAtRest DEF Goes
  <2>2. ProbePc' = "done"
    BY <2>1, PcIsNext
  <2>3. ProbeLog'["rest"] = Seen(f) /\ \A t \in Steps \ {"rest"} : ProbeLog'[t] = ProbeLog[t]
    BY <1>2, <1>4, <2>1, LogIs, LogIsNext DEF Steps
  <2>4. SeenLog' = [SeenLog EXCEPT !["ec2"]["rest"] = Seen(f)]
    BY <2>3, SeenAnswer DEF Steps
  <2>5. Answered("rest", Seen(f))
    BY <1>1, <1>2, <1>4, <2>4, ProbeFates DEF Answered
  <2>6. Probe!Ec2Rest(Seen(f))
    BY <1>5, <2>1, <2>2, <2>5, SeenMoves
       DEF Probe!Ec2Rest, Probe!Send, Probe!Return, Answered, SeenPc, SeenLog, SeenResult
  <2> QED BY <2>6
<1>7. CASE todo' # <<>>
  <2>1. pc' = "walk" /\ result' = result
    BY <1>1, <1>7 DEF Goes
  <2>2. ProbePc' = "rest"
    <3>1. todo' \in Seq(Paths) /\ Range(todo') \subseteq Contents \ {First}
      BY <1>1, <1>3, TailAtRest, HeadIsTaken
    <3> QED BY <1>7, <2>1, <3>1, HeadOfRest, PcIsNext
  <2>3. \A t \in Steps : ProbeLog'[t] = ProbeLog[t]
    BY <1>2, <1>3, <1>4, <2>1, LogIs, LogIsNext DEF Steps
  <2> QED BY <1>4, <1>5, <2>1, <2>2, <2>3, SeenSame, SeenMoves
          DEF Probe!vars, SeenPc, SeenLog, SeenResult
<1> QED BY <1>6, <1>7

LEMMA ListSeen ==
  ASSUME ImdsInv, NEW f \in Fates, NEW d \in Contents, List(d, f)
  PROVE  UNCHANGED Probe!vars
<1>1. /\ Send(d, f) /\ pc = "walk" /\ d = Head(todo) /\ d \in Dirs
      /\ Goes(SetToSeq(Listed(d, f)) \o Tail(todo))
  BY TopIs DEF List, Send
<1>2. /\ {d, <<"token">>, <<"versions">>, First, UserData} \subseteq Paths
      /\ d \notin {<<"token">>, <<"versions">>, First, UserData}
  BY <1>1, PathsAre
<1>3. AtRest /\ result = "none"
  BY <1>1, <1>2, WhereItIs DEF ImdsInv, PlaceOK
<1>4. (\A q \in Paths \ {d} : log'[q] = log[q]) /\ cloud' = cloud
  BY <1>1, <1>2, SendKeeps
<1>5. ImdsInv' /\ todo' # <<>>
  BY ListStep
<1>6. pc' = "walk" /\ result' = result
  BY <1>1, <1>5 DEF Goes
<1>7. ProbePc = "rest"
  BY <1>1, <1>2, PcIs
<1>8. ProbePc' = "rest"
  <2>1. todo' \in Seq(Paths)
    BY <1>5 DEF ImdsInv
  <2>2. <<"token">> \in Sent /\ First \in Sent /\ d \notin Sent
    BY <1>1, <1>2, <1>3, SendKeeps, FatesAre DEF AtRest, Sent
  <2>3. Sent' = Sent \cup {d}
    BY <1>1, <1>2, SendKeeps
  <2>4. AtRest'
    BY <1>2, <1>5, <1>6, <2>2, <2>3 DEF ImdsInv, PlaceOK, AtToken, AtVersions, AtFirst
  <2> QED BY <1>5, <1>6, <2>1, <2>4, HeadOfRest, PcIsNext DEF AtRest
<1>9. \A t \in Steps : ProbeLog'[t] = ProbeLog[t]
  BY <1>2, <1>3, <1>4, <1>6, LogIs, LogIsNext DEF Steps
<1> QED BY <1>4, <1>6, <1>7, <1>8, <1>9, SeenSame, SeenMoves
    DEF Probe!vars, SeenPc, SeenLog, SeenResult

LEMMA GateSeen ==
  ASSUME ImdsInv, Closed \/ Open
  PROVE  Probe!GateClosed("ec2") \/ Probe!GateOpen("ec2")
<1>1. pc = "gate" /\ result = "none" /\ AtToken /\ cloud' = cloud /\ log' = log
  BY DEF Closed, Open, ImdsInv, PlaceOK
<1>2. result' \in {"none", "nil"}
  BY <1>1 DEF Closed, Open
<1>3. SeenLog' = SeenLog
  <2>1. \A t \in Steps : ProbeLog'[t] = ProbeLog[t]
    BY <1>1, <1>2, LogIs, LogIsNext DEF Steps
  <2> QED BY <2>1, SeenSame
<1>4. ProbePc = "gate" /\ (Probe!Gate("ec2") <=> Probe!OnEC2)
  BY <1>1, PcIs DEF Probe!Gate
<1>5. CASE Closed
  <2>1. ~ Probe!OnEC2 /\ pc' = "done" /\ result' = "nil"
    BY <1>5 DEF Closed
  <2>2. ProbePc' = "done"
    BY <2>1, PcIsNext
  <2>3. Probe!GateClosed("ec2")
    BY <1>1, <1>3, <1>4, <2>1, <2>2, SeenMoves
       DEF Probe!GateClosed, Probe!Return, SeenPc, SeenLog, SeenResult
  <2> QED BY <2>3
<1>6. CASE Open
  <2>1. Probe!OnEC2 /\ pc' = "walk" /\ result' = result /\ todo' = Full
    BY <1>1, <1>6 DEF Open, AtToken
  <2>2. ProbePc' = "token"
    BY <2>1, FullHolds, PcIsNext
  <2>3. Probe!FirstStep("ec2") = "token"
    BY DEF Probe!FirstStep
  <2>4. Probe!GateOpen("ec2")
    BY <1>1, <1>3, <1>4, <2>1, <2>2, <2>3, SeenMoves
       DEF Probe!GateOpen, Probe!GoTo, SeenPc, SeenLog, SeenResult
  <2> QED BY <2>4
<1> QED BY <1>5, <1>6

LEMMA NextSeen == ImdsInv /\ [Next]_vars => [Probe!Next]_(Probe!vars)
<1> SUFFICES ASSUME ImdsInv, [Next]_vars PROVE [Probe!Next]_(Probe!vars)
  OBVIOUS
<1>1. CASE UNCHANGED vars
  <2>1. cloud' = cloud /\ pc' = pc /\ todo' = todo /\ log' = log /\ result' = result
    BY <1>1 DEF vars
  <2>2. ProbePc' = ProbePc /\ \A t \in Steps : ProbeLog'[t] = ProbeLog[t]
    BY <2>1, LogIs, LogIsNext DEF ProbePc, Steps
  <2> QED BY <2>1, <2>2, SeenSame, SeenMoves DEF Probe!vars, SeenPc, SeenLog, SeenResult
<1>2. CASE Closed \/ Open
  <2>1. Probe!GateClosed("ec2") \/ Probe!GateOpen("ec2")
    BY <1>2, GateSeen
  <2> QED BY <2>1 DEF Probe!Next, Probe!Collect
<1>3. ASSUME NEW f \in Fates,
             Token(f) \/ Versions(f) \/ FirstFails(f) \/ \E p \in Contents : Read(p, f) \/ List(p, f)
      PROVE  [Probe!Next]_(Probe!vars)
  <2>1. CASE Token(f)
    BY <2>1, TokenSeen, SeenIs DEF Probe!Next, Probe!Collect
  <2>2. CASE Versions(f)
    BY <2>2, VersionsSeen, SeenIs DEF Probe!Next, Probe!Collect
  <2>3. CASE FirstFails(f)
    BY <2>3, FirstFailsSeen, SeenIs DEF Probe!Next, Probe!Collect
  <2>4. ASSUME NEW p \in Contents, Read(p, f) PROVE [Probe!Next]_(Probe!vars)
    <3>1. Probe!Ec2First(Seen(f)) \/ Probe!Ec2Rest(Seen(f)) \/ UNCHANGED Probe!vars
      BY <2>4, FirstSeen, ReadSeen
    <3> QED BY <3>1, SeenIs DEF Probe!Next, Probe!Collect
  <2>5. ASSUME NEW d \in Contents, List(d, f) PROVE [Probe!Next]_(Probe!vars)
    BY <2>5, ListSeen
  <2> QED BY <1>3, <2>1, <2>2, <2>3, <2>4, <2>5
<1> QED BY <1>1, <1>2, <1>3 DEF Next

\* Every step of the walk is one of the EC2 collector that CloudProbe knows, or
\* one that it does not see, for any service: so what is proved of CloudProbe's
\* collectors is true of this one.
THEOREM ImplementsProbeHolds == Spec => ImplementsProbe
<1>1. Init => Probe!Init
  BY InitSeen
<1>2. ImdsInv /\ [Next]_vars => [Probe!Next]_(Probe!vars)
  BY NextSeen
<1> QED BY <1>1, <1>2, ImdsInvHolds, PTL DEF Spec, ImplementsProbe
====
