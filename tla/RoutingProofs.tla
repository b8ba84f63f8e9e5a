--------------------------- MODULE RoutingProofs ---------------------------
(***************************************************************************)
(* The books that routing, user access and site-to-site keep of the        *)
(* kernel, and what their reconcile handlers reach, for any subnets, peers *)
(* and tunnels, any limits, and any number of failing calls.               *)
(***************************************************************************)
EXTENDS BridgeRouting, FiniteSetTheorems, TLAPS

(* Kernel objects *)

\* Objects of different kinds, or on different interfaces, are different.
LEMMA Kinds ==
    /\ \A i : Switch(i)[1] = "forwarding" /\ Link(i)[1] = "link"
    /\ \A x, i : Peer(x, i)[1] = "peer" /\ Route(x, i)[1] = "route"
    /\ Masquerade[1] = "nat"
BY Zenon DEF Switch, Link, Peer, Route, Masquerade

\* The interface an object is on.
On(o) == o[Len(o)]

LEMMA Interfaces ==
    /\ \A i : On(Switch(i)) = i /\ On(Link(i)) = i /\ Link(i)[2] = i
    /\ \A x, i : On(Peer(x, i)) = i /\ On(Route(x, i)) = i
    /\ On(Masquerade) = "access"
BY Zenon DEF Switch, Link, Peer, Route, Masquerade, On

LEMMA Injective ==
    /\ \A i, j : Link(i) = Link(j) => i = j
    /\ \A x, y, i, j : Peer(x, i) = Peer(y, j) => x = y /\ i = j
    /\ \A x, y, i, j : Route(x, i) = Route(y, j) => x = y /\ i = j
BY Zenon DEF Link, Peer, Route

\* o is on an interface that is removed with the objects gone.
Carried(o, gone) == \E g \in gone : g[1] = "link" /\ g[2] = On(o)

LEMMA WithoutIs ==
    ASSUME NEW k, NEW D, NEW R, NEW o
    PROVE  o \in Without(k, D, R) <=> o \in k /\ o \notin D \ R /\ ~ Carried(o, D \ R)
BY DEF Without, OnLink, Carried, On

LEMMA LeftIs ==
    ASSUME NEW k, NEW R, NEW o
    PROVE  o \in Left(k, R) <=> o \in R \/ (o \in k /\ Carried(o, R))
BY DEF Left, OnLink, Carried, On

----------------------------------------------------------------------------
(* Sequences of additions *)

LEMMA MadeAll ==
    ASSUME NEW want
    PROVE  Made(want, {}) = Elems(want)
BY Zenon DEF Made, Elems

\* Made is a prefix without the failing additions: whatever was made, the first
\* was, and no object that comes last is made when one of them fails.
LEMMA MadeSome ==
    ASSUME NEW T, NEW want \in Seq(T), NEW A
    PROVE  /\ Made(want, A) \subseteq Elems(want) \ A
           /\ Made(want, A) # {} => want[1] \in Made(want, A)
<1>1. ASSUME NEW j \in DOMAIN want, \A h \in 1 .. j : want[h] \notin A
      PROVE  want[j] \in Elems(want) \ A /\ want[1] \in Made(want, A)
  <2>1. j \in Nat /\ 1 <= j /\ j \in 1 .. j /\ 1 \in 1 .. j /\ 1 \in DOMAIN want
    OBVIOUS
  <2>2. \A h \in 1 .. 1 : want[h] \notin A
    BY <1>1, <2>1
  <2> QED BY Zenon, <1>1, <2>1, <2>2 DEF Elems, Made
<1> QED BY Zenon, <1>1 DEF Made

LEMMA Concat ==
    ASSUME NEW T, NEW s \in Seq(T), NEW r \in Seq(T)
    PROVE  /\ s \o r \in Seq(T) /\ Len(s \o r) = Len(s) + Len(r)
           /\ \A i \in 1 .. (Len(s) + Len(r)) :
                 (s \o r)[i] = IF i <= Len(s) THEN s[i] ELSE r[i - Len(s)]
OBVIOUS

LEMMA ElemsConcat ==
    ASSUME NEW T, NEW s \in Seq(T), NEW t \in Seq(T)
    PROVE  /\ s \o t \in Seq(T) /\ Elems(s \o t) = Elems(s) \union Elems(t)
           /\ Len(s) > 0 => (s \o t)[1] = s[1] /\ Len(s \o t) > 0
<1> DEFINE u == s \o t
<1>1. u \in Seq(T) /\ Len(u) = Len(s) + Len(t)
      /\ \A i \in 1 .. (Len(s) + Len(t)) : u[i] = IF i <= Len(s) THEN s[i] ELSE t[i - Len(s)]
  OBVIOUS
<1>2. /\ Len(s) \in Nat /\ Len(t) \in Nat /\ DOMAIN s = 1 .. Len(s) /\ DOMAIN t = 1 .. Len(t)
      /\ DOMAIN u = 1 .. Len(u)
  BY <1>1
<1> HIDE DEF u
<1>3. ASSUME NEW i \in 1 .. Len(s) PROVE s[i] \in Elems(u)
  <2>1. i \in 1 .. (Len(s) + Len(t)) /\ i <= Len(s)
    BY <1>2
  <2> QED BY Zenon, <1>1, <1>2, <2>1 DEF Elems
<1>4. ASSUME NEW i \in 1 .. Len(t) PROVE t[i] \in Elems(u)
  <2>1. /\ Len(s) + i \in 1 .. (Len(s) + Len(t)) /\ ~ (Len(s) + i <= Len(s))
        /\ (Len(s) + i) - Len(s) = i
    BY <1>2
  <2>2. u[Len(s) + i] = t[i] /\ Len(s) + i \in DOMAIN u
    BY Zenon, <1>1, <1>2, <2>1
  <2> QED BY Zenon, <2>2 DEF Elems
<1>5. ASSUME NEW i \in 1 .. (Len(s) + Len(t)) PROVE u[i] \in Elems(s) \union Elems(t)
  <2>1. CASE i <= Len(s)
    BY <1>1, <1>2, <2>1 DEF Elems
  <2>2. CASE i > Len(s)
    <3>1. i - Len(s) \in 1 .. Len(t) /\ u[i] = t[i - Len(s)]
      BY <1>1, <1>2, <2>2
    <3> QED BY Zenon, <1>2, <3>1 DEF Elems
  <2> QED BY <1>2, <2>1, <2>2
<1>6. Elems(u) \subseteq Elems(s) \union Elems(t)
  BY Zenon, <1>1, <1>2, <1>5 DEF Elems
<1>7. Elems(s) \union Elems(t) \subseteq Elems(u)
  BY Zenon, <1>2, <1>3, <1>4 DEF Elems
<1>8. Len(s) > 0 => u[1] = s[1] /\ Len(u) > 0
  <2>1. Len(s) > 0 => 1 \in 1 .. (Len(s) + Len(t)) /\ 1 <= Len(s) /\ Len(s) + Len(t) > 0
    BY <1>2
  <2> QED BY Zenon, <1>1, <2>1
<1> QED BY Zenon, <1>1, <1>6, <1>7, <1>8 DEF u

LEMMA SeqWider ==
    ASSUME NEW S, NEW T, S \subseteq T, NEW s \in Seq(S)
    PROVE  s \in Seq(T)
OBVIOUS

LEMMA Pairs ==
    ASSUME NEW x, NEW y
    PROVE  /\ <<x, y>> \in Seq({x, y}) /\ Elems(<<x, y>>) = {x, y}
           /\ Len(<<x, y>>) > 0 /\ <<x, y>>[1] = x
           /\ <<x>> \in Seq({x}) /\ Elems(<<x>>) = {x}
           /\ <<>> \in Seq({x}) /\ Elems(<<>>) = {}
BY DEF Elems

LEMMA RoutesAre ==
    ASSUME NEW S, NEW subnets \in Seq(S), NEW i
    PROVE  /\ Routes(subnets, i) \in Seq({Route(s, i) : s \in Elems(subnets)})
           /\ Elems(Routes(subnets, i)) = {Route(s, i) : s \in Elems(subnets)}
<1>1. DOMAIN subnets = 1 .. Len(subnets) /\ Len(subnets) \in Nat
  OBVIOUS
<1>2. Routes(subnets, i) \in [1 .. Len(subnets) -> {Route(s, i) : s \in Elems(subnets)}]
  BY Zenon, <1>1 DEF Routes, Elems
<1>3. Routes(subnets, i) \in Seq({Route(s, i) : s \in Elems(subnets)})
  BY <1>1, <1>2
<1>4. Elems(Routes(subnets, i)) = {Route(s, i) : s \in Elems(subnets)}
  BY Zenon DEF Routes, Elems
<1> QED BY Zenon, <1>3, <1>4

----------------------------------------------------------------------------
(* What the three managers set up *)

SetupWant == Forwarding("mesh", "access") \o Routes(AccessSubnets, "access")
                 \o IF NatEnabled THEN <<Masquerade>> ELSE <<>>

LEMMA SetupWants ==
    /\ \E T : SetupWant \in Seq(T)
    /\ SetupWant[1] = Switch("mesh")
    /\ Elems(SetupWant) = {Switch("mesh"), Switch("access")}
                              \union {Route(s, "access") : s \in Elems(AccessSubnets)}
                              \union IF NatEnabled THEN {Masquerade} ELSE {}
<1> DEFINE F == Forwarding("mesh", "access")
           G == Routes(AccessSubnets, "access")
           N == IF NatEnabled THEN <<Masquerade>> ELSE <<>>
           T == {Switch("mesh"), Switch("access"), Masquerade}
                    \union {Route(s, "access") : s \in Elems(AccessSubnets)}
<1>1. F \in Seq(T) /\ Elems(F) = {Switch("mesh"), Switch("access")} /\ Len(F) > 0
      /\ F[1] = Switch("mesh")
  <2>1. F \in Seq({Switch("mesh"), Switch("access")})
    BY Zenon, Pairs DEF Forwarding
  <2>2. F \in Seq(T)
    BY Zenon, <2>1, SeqWider
  <2> QED BY Zenon, <2>2, Pairs DEF Forwarding
<1>2. G \in Seq(T) /\ Elems(G) = {Route(s, "access") : s \in Elems(AccessSubnets)}
  <2>1. /\ G \in Seq({Route(s, "access") : s \in Elems(AccessSubnets)})
        /\ Elems(G) = {Route(s, "access") : s \in Elems(AccessSubnets)}
    BY ZenonT(30), RoutesAre, BridgeAssumption
  <2>2. {Route(s, "access") : s \in Elems(AccessSubnets)} \subseteq T
    BY Zenon
  <2> HIDE DEF T, G
  <2> QED BY Zenon, <2>1, <2>2, SeqWider
<1>3. N \in Seq(T) /\ Elems(N) = IF NatEnabled THEN {Masquerade} ELSE {}
  <2>1. N \in Seq({Masquerade})
    BY Zenon, Pairs
  <2>2. N \in Seq(T)
    BY Zenon, <2>1, SeqWider
  <2> QED BY Zenon, <2>2, Pairs
<1> HIDE DEF F, G, N, T
<1> DEFINE FG == F \o G
<1>4. FG \in Seq(T) /\ Elems(FG) = Elems(F) \union Elems(G)
      /\ FG[1] = Switch("mesh") /\ Len(FG) > 0
  BY Zenon, <1>1, <1>2, ElemsConcat
<1> HIDE DEF FG
<1>5. FG \o N \in Seq(T) /\ Elems(FG \o N) = Elems(FG) \union Elems(N)
      /\ (FG \o N)[1] = Switch("mesh")
  BY <1>3, <1>4, ElemsConcat
<1>6. SetupWant = FG \o N
  BY Zenon DEF SetupWant, FG, F, G, N
<1>7. SetupWant \in Seq(T) /\ SetupWant[1] = Switch("mesh")
  BY Zenon, <1>5, <1>6
<1>8. Elems(SetupWant) = (Elems(F) \union Elems(G)) \union Elems(N)
  BY Zenon, <1>4, <1>5, <1>6
<1> QED BY Zenon, <1>1, <1>2, <1>3, <1>7, <1>8

AccessWant == <<Link("users")>> \o Forwarding("users", "access")

LEMMA AccessWants ==
    /\ Elems(AccessWant) = {Link("users"), Switch("users"), Switch("access")}
    /\ \A A : Made(AccessWant, A) \subseteq Elems(AccessWant) \ A
    /\ \A A : Made(AccessWant, A) # {} => Link("users") \in Made(AccessWant, A)
    /\ \A A : Elems(AccessWant) \intersect A # {} => Switch("access") \notin Made(AccessWant, A)
<1> DEFINE T == {Link("users"), Switch("users"), Switch("access")}
           L == <<Link("users")>>
           F == Forwarding("users", "access")
<1>2. AccessWant \in Seq(T) /\ AccessWant[1] = Link("users") /\ Elems(AccessWant) = T
      /\ DOMAIN AccessWant = 1 .. 3 /\ AccessWant[2] = Switch("users") /\ AccessWant[3] = Switch("access")
  <2>1. L \in Seq(T) /\ Len(L) = 1 /\ L[1] = Link("users")
    OBVIOUS
  <2>2. F \in Seq(T) /\ Len(F) = 2 /\ F[1] = Switch("users") /\ F[2] = Switch("access")
    BY DEF Forwarding
  <2>3. AccessWant = L \o F
    BY Zenon DEF AccessWant
  <2> HIDE DEF T, L, F
  <2>4. /\ AccessWant \in Seq(T) /\ Len(AccessWant) = 3
        /\ \A i \in 1 .. 3 : AccessWant[i] = IF i <= 1 THEN L[i] ELSE F[i - 1]
    <3>1. /\ L \o F \in Seq(T) /\ Len(L \o F) = Len(L) + Len(F)
          /\ \A i \in 1 .. (Len(L) + Len(F)) :
                (L \o F)[i] = IF i <= Len(L) THEN L[i] ELSE F[i - Len(L)]
      BY Zenon, <2>1, <2>2, Concat
    <3> QED BY <2>1, <2>2, <2>3, <3>1
  <2>5. AccessWant[1] = L[1] /\ AccessWant[2] = F[1] /\ AccessWant[3] = F[2]
    BY <2>4
  <2>6. DOMAIN AccessWant = 1 .. 3
    BY <2>4
  <2>7. Elems(AccessWant) = {AccessWant[1], AccessWant[2], AccessWant[3]}
    BY <2>6 DEF Elems
  <2> QED BY Zenon, <2>1, <2>2, <2>4, <2>5, <2>6, <2>7 DEF T
<1>3. ASSUME NEW A, Elems(AccessWant) \intersect A # {}, Switch("access") \in Made(AccessWant, A)
      PROVE  FALSE
  <2>1. Switch("access") # Link("users") /\ Switch("access") # Switch("users")
    BY Zenon DEF Switch, Link
  <2>2. PICK j \in 1 .. 3 : AccessWant[j] = Switch("access") /\ \A h \in 1 .. j : AccessWant[h] \notin A
    BY Zenon, <1>2, <1>3 DEF Made
  <2>3. j = 3
    BY <1>2, <2>1, <2>2
  <2>4. \A h \in 1 .. 3 : AccessWant[h] \notin A
    BY Zenon, <2>2, <2>3
  <2> QED BY <1>2, <1>3, <2>4
<1> HIDE DEF T
<1> QED BY <1>2, <1>3, MadeSome DEF T

TunnelWant(t, config) == <<Link(t), Peer(t, t)>> \o Forwarding(t, "mesh") \o Routes(config, t)

LEMMA TunnelWants ==
    ASSUME NEW t, NEW config \in TunnelConfig
    PROVE  /\ \E T : TunnelWant(t, config) \in Seq(T)
           /\ TunnelWant(t, config)[1] = Link(t)
           /\ Elems(TunnelWant(t, config)) = ObjectsOf(t, config)
<1> DEFINE L == <<Link(t), Peer(t, t)>>
           F == Forwarding(t, "mesh")
           G == Routes(config, t)
           T == ObjectsOf(t, config)
<1>1. L \in Seq(T) /\ Elems(L) = {Link(t), Peer(t, t)} /\ Len(L) > 0 /\ L[1] = Link(t)
  <2>1. L \in Seq({Link(t), Peer(t, t)})
    BY Zenon, Pairs
  <2>2. {Link(t), Peer(t, t)} \subseteq T
    BY Zenon DEF ObjectsOf
  <2>3. L \in Seq(T)
    BY Zenon, <2>1, <2>2, SeqWider
  <2> QED BY Zenon, <2>3, Pairs
<1>2. F \in Seq(T) /\ Elems(F) = {Switch(t), Switch("mesh")}
  <2>1. F \in Seq({Switch(t), Switch("mesh")})
    BY Zenon, Pairs DEF Forwarding
  <2>2. {Switch(t), Switch("mesh")} \subseteq T
    BY Zenon DEF ObjectsOf
  <2>3. F \in Seq(T)
    BY Zenon, <2>1, <2>2, SeqWider
  <2> QED BY Zenon, <2>3, Pairs DEF Forwarding
<1>3. G \in Seq(T) /\ Elems(G) = {Route(s, t) : s \in Elems(config)}
  <2>0. config \in Seq(RemoteSubnet)
    <3>1. PICK s \in RemoteSubnet : config = <<s>>
      BY Zenon DEF TunnelConfig
    <3> QED BY <3>1
  <2>1. /\ G \in Seq({Route(s, t) : s \in Elems(config)})
        /\ Elems(G) = {Route(s, t) : s \in Elems(config)}
    BY Zenon, <2>0, RoutesAre
  <2>2. {Route(s, t) : s \in Elems(config)} \subseteq T
    BY Zenon DEF ObjectsOf
  <2> HIDE DEF T, G
  <2> QED BY Zenon, <2>1, <2>2, SeqWider
<1>4. Elems(L) \union Elems(F) \union Elems(G) = T
  BY Zenon, <1>1, <1>2, <1>3 DEF ObjectsOf
<1>5. TunnelWant(t, config) = (L \o F) \o G
  BY Zenon DEF TunnelWant
<1> HIDE DEF L, F, G, T
<1> DEFINE LF == L \o F
<1>6. LF \in Seq(T) /\ Elems(LF) = Elems(L) \union Elems(F)
      /\ LF[1] = Link(t) /\ Len(LF) > 0
  BY Zenon, <1>1, <1>2, ElemsConcat
<1> HIDE DEF LF
<1>7. LF \o G \in Seq(T) /\ Elems(LF \o G) = Elems(LF) \union Elems(G)
      /\ (LF \o G)[1] = Link(t)
  BY <1>3, <1>6, ElemsConcat
<1>8. TunnelWant(t, config) \in Seq(T) /\ TunnelWant(t, config)[1] = Link(t)
  BY Zenon, <1>5, <1>7 DEF LF
<1>9. Elems(TunnelWant(t, config)) = (Elems(L) \union Elems(F)) \union Elems(G)
  BY Zenon, <1>5, <1>6, <1>7 DEF LF
<1>10. Elems(TunnelWant(t, config)) = ObjectsOf(t, config)
  BY Zenon, <1>4, <1>9 DEF T
<1> QED BY Zenon, <1>8, <1>10

----------------------------------------------------------------------------
(* The books and the kernel *)

BridgePart ==
    {Route(s, "access") : s \in activeRoutes}
        \union (IF bridge.nat THEN {Masquerade} ELSE {})
        \union (IF bridge.active THEN {Switch("mesh"), Switch("access")} ELSE {})
AccessPart ==
    (IF access THEN {Link("users"), Switch("users"), Switch("access")} ELSE {})
        \union {Peer(p, "users") : p \in activePeers}
SitePart == UNION {ObjectsOf(t, activeTunnels[t]) : t \in Up}

LEMMA TrackedParts ==
    /\ Tracked = (BridgePart \union AccessPart) \union SitePart
    /\ Tracked' = (BridgePart' \union AccessPart') \union SitePart'
BY Zenon DEF Tracked, BridgePart, AccessPart, SitePart

\* A user's peer is never there without the interface of the users.
PeersOnLink(k) == \A p : Peer(p, "users") \in k => Link("users") \in k

BooksInv ==
    /\ bridge \in [called : BOOLEAN, active : BOOLEAN, nat : BOOLEAN]
    /\ ~bridge.called => activeRoutes = {} /\ ~bridge.active /\ ~bridge.nat
    /\ access \in BOOLEAN /\ siteToSite \in BOOLEAN
    /\ activeTunnels \in [TunnelID -> TunnelConfig \union {Down}]
    /\ PeersOnLink(kernel)
    /\ NothingLeaks /\ TrackedIsInstalled

\* Where the objects of each manager are, but for the switches.
LEMMA Places ==
    ASSUME NEW o, o[1] # "forwarding"
    PROVE  /\ o \in BridgePart => On(o) = "access"
           /\ o \in AccessPart => On(o) = "users"
           /\ o \in SitePart => \E t \in Up : On(o) = t /\ o \in ObjectsOf(t, activeTunnels[t])
<1>1. o \in BridgePart => On(o) = "access"
  BY Kinds, Interfaces DEF BridgePart
<1>2. o \in AccessPart => On(o) = "users"
  BY Kinds, Interfaces DEF AccessPart
<1>3. o \in SitePart => \E t \in Up : On(o) = t /\ o \in ObjectsOf(t, activeTunnels[t])
  BY Kinds, Interfaces DEF SitePart, ObjectsOf
<1> QED BY Zenon, <1>1, <1>2, <1>3

\* Removals on the interfaces I leave what is on others.
LEMMA Untouched ==
    ASSUME NEW k, NEW D, NEW R, NEW I,
           \A g \in D : g[1] # "forwarding" => On(g) \in I /\ (g[1] = "link" => g[2] \in I),
           NEW o \in k, o[1] # "forwarding", On(o) \notin I
    PROVE  o \in Without(k, D, R)
<1>1. o \notin D
  BY Zenon
<1>2. ~ Carried(o, D \ R)
  BY Zenon DEF Carried
<1> QED BY Zenon, <1>1, <1>2, WithoutIs

LEMMA PeersStayOnLink ==
    ASSUME NEW k, PeersOnLink(k), NEW D, NEW R
    PROVE  PeersOnLink(Without(k, D, R))
<1> SUFFICES ASSUME NEW p, Peer(p, "users") \in Without(k, D, R)
             PROVE  Link("users") \in Without(k, D, R)
  BY Zenon DEF PeersOnLink
<1>1. Peer(p, "users") \in k /\ ~ Carried(Peer(p, "users"), D \ R)
  <2> DEFINE o == Peer(p, "users")
  <2>1. o \in Without(k, D, R)
    BY Zenon
  <2> HIDE DEF o
  <2>2. o \in k /\ ~ Carried(o, D \ R)
    BY Zenon, <2>1, WithoutIs
  <2> QED BY Zenon, <2>2 DEF o
<1>2. Link("users") \in k
  BY Zenon, <1>1 DEF PeersOnLink
<1>3. Link("users")[1] = "link" /\ Link("users")[2] = "users" /\ On(Peer(p, "users")) = "users"
      /\ On(Link("users")) = "users"
  BY Kinds, Interfaces
<1>4. Link("users") \notin D \ R /\ ~ Carried(Link("users"), D \ R)
  BY Zenon, <1>1, <1>3 DEF Carried
<1> QED BY ZenonT(30), <1>2, <1>4, WithoutIs

\* Nothing leaks when what is new or no longer tracked is left over.
LEMMA NoLeak ==
    ASSUME BooksInv, NEW New, NEW X, kernel' \subseteq kernel \union New,
           leftovers \intersect kernel' \subseteq leftovers', X \intersect kernel' \subseteq leftovers',
           \A o \in kernel' : o \in Tracked \union New => o \in Tracked' \union X
    PROVE  NothingLeaks'
BY Zenon DEF BooksInv, NothingLeaks

\* An operation makes objects and then removes some of D, on the interfaces I.
LEMMA Operation ==
    ASSUME BooksInv, NEW made, NEW D, NEW R, NEW X, NEW I,
           kernel' = Without(kernel \union made, D, R),
           leftovers' = (leftovers \union X) \intersect kernel',
           \A g \in D : g[1] # "forwarding" => On(g) \in I /\ (g[1] = "link" => g[2] \in I),
           \A o \in kernel' : o \in Tracked \union made => o \in Tracked' \union X,
           \A o \in Tracked' : o[1] # "forwarding" => o \in kernel' \/ (o \in Tracked /\ On(o) \notin I),
           PeersOnLink(kernel \union made)
    PROVE  NothingLeaks' /\ TrackedIsInstalled' /\ PeersOnLink(kernel')
<1> DEFINE k == kernel \union made
<1>1. kernel' = Without(k, D, R) /\ PeersOnLink(k)
  BY Zenon
<1> HIDE DEF k
<1>2. NothingLeaks'
  BY ZenonT(30), <1>1, WithoutIs, NoLeak DEF k
<1>3. ASSUME NEW o \in Tracked', o[1] # "forwarding" PROVE o \in kernel'
  <2>1. CASE o \in Tracked /\ On(o) \notin I
    <3>1. o \in k
      BY Zenon, <1>3, <2>1 DEF k, BooksInv, TrackedIsInstalled
    <3>2. o \in Without(k, D, R)
      BY Zenon, <1>3, <2>1, <3>1, Untouched
    <3> QED BY Zenon, <1>1, <3>2
  <2> QED BY Zenon, <1>3, <2>1
<1>4. PeersOnLink(kernel')
  BY Zenon, <1>1, PeersStayOnLink
<1> QED BY ZenonT(30), <1>2, <1>3, <1>4 DEF TrackedIsInstalled

LEMMA Removal ==
    ASSUME BooksInv, NEW D, NEW R, NEW X, NEW I,
           kernel' = Without(kernel, D, R),
           leftovers' = (leftovers \union X) \intersect kernel',
           \A g \in D : g[1] # "forwarding" => On(g) \in I /\ (g[1] = "link" => g[2] \in I),
           \A o \in Tracked : o \in Tracked' \union X \/ o \in D \ R \/ Carried(o, D \ R),
           \A o \in Tracked' : o[1] # "forwarding" => o \in kernel' \/ (o \in Tracked /\ On(o) \notin I)
    PROVE  NothingLeaks' /\ TrackedIsInstalled' /\ PeersOnLink(kernel')
<1> DEFINE made == {}
<1>1. kernel \union made = kernel
  BY Zenon
<1>2. kernel' = Without(kernel \union made, D, R) /\ PeersOnLink(kernel \union made)
  BY Zenon, <1>1 DEF BooksInv
<1>3. \A o \in kernel' : o \in Tracked \union made => o \in Tracked' \union X
  <2> SUFFICES ASSUME NEW o \in kernel', o \in Tracked PROVE o \in Tracked' \union X
    BY Zenon
  <2>1. o \notin D \ R /\ ~ Carried(o, D \ R)
    BY Zenon, WithoutIs
  <2> QED BY Zenon, <2>1
<1> HIDE DEF made
<1> QED BY ZenonT(30), <1>2, <1>3, Operation

LEMMA Failures ==
    /\ \A S : \A A \in FailOne(S) : A = {} \/ \E o \in S : A = {o}
    /\ \A S : \A R \in FailSome(S) : R \subseteq S
BY Zenon DEF FailOne, FailSome

LEMMA StopsMore ==
    ASSUME NEW R, NEW a, NEW b
    PROVE  R \subseteq StopsAt(R, a, b) /\ StopsAt(R, a, b) \subseteq R \union {Switch(b)}
BY Zenon DEF StopsAt

----------------------------------------------------------------------------
(* The bridge's own steps *)

LEMMA SetupBooks ==
    ASSUME BooksInv, Setup
    PROVE  NothingLeaks' /\ TrackedIsInstalled' /\ PeersOnLink(kernel')
<1>1. PICK A \in FailOne(Elems(SetupWant)) :
        \E R \in FailSome(IF A = {} THEN {} ELSE rollbackSetup(Made(SetupWant, A))) :
          /\ ~bridge.called
          /\ kernel' = Without(kernel \union Made(SetupWant, A),
                               IF A = {} THEN {} ELSE rollbackSetup(Made(SetupWant, A)),
                               StopsAt(R, "mesh", "access"))
          /\ leftovers' = StillThere(Left(kernel', StopsAt(R, "mesh", "access"))
                 \union IF A = {} \/ Switch("access") \in Made(SetupWant, A) THEN {}
                        ELSE Made(SetupWant, A))
          /\ bridge' = [called |-> TRUE, active |-> A = {}, nat |-> A = {} /\ NatEnabled]
          /\ activeRoutes' = IF A = {} THEN Elems(AccessSubnets) ELSE {}
          /\ UNCHANGED <<accessVars, siteVars>>
  BY ZenonT(30) DEF Setup, SetupWant
<1> DEFINE made == Made(SetupWant, A)
           undo == IF A = {} THEN {} ELSE rollbackSetup(made)
<1>2. PICK R \in FailSome(undo) :
          /\ ~bridge.called
          /\ kernel' = Without(kernel \union made, undo, StopsAt(R, "mesh", "access"))
          /\ leftovers' = StillThere(Left(kernel', StopsAt(R, "mesh", "access"))
                 \union IF A = {} \/ Switch("access") \in made THEN {} ELSE made)
          /\ bridge' = [called |-> TRUE, active |-> A = {}, nat |-> A = {} /\ NatEnabled]
          /\ activeRoutes' = IF A = {} THEN Elems(AccessSubnets) ELSE {}
          /\ UNCHANGED <<accessVars, siteVars>>
  BY Zenon, <1>1
<1> DEFINE Stuck == StopsAt(R, "mesh", "access")
           X == Left(kernel', Stuck) \union IF A = {} \/ Switch("access") \in made THEN {} ELSE made
<1>3. /\ made \subseteq Elems(SetupWant)
      /\ Switch("access") \in made => Switch("mesh") \in made
      /\ A = {} => made = Elems(SetupWant)
  <2>1. PICK T : SetupWant \in Seq(T)
    BY Zenon, SetupWants
  <2>2. made \subseteq Elems(SetupWant) /\ (made # {} => SetupWant[1] \in made)
    BY Zenon, <2>1, MadeSome
  <2> QED BY ZenonT(30), <2>2, SetupWants, MadeAll
<1>4. undo \subseteq made /\ (Switch("access") \in made /\ A # {} => undo = made) /\ (A = {} => undo = {})
  BY Zenon, <1>3 DEF rollbackSetup
<1>5. BridgePart = {} /\ AccessPart' = AccessPart /\ SitePart' = SitePart
  BY Zenon, <1>2 DEF BooksInv, BridgePart, AccessPart, SitePart, Up, accessVars, siteVars
<1>6. bridge'.active = (A = {}) /\ bridge'.nat = (A = {} /\ NatEnabled)
  BY Zenon, <1>2
<1>7. (A = {} => BridgePart' = Elems(SetupWant)) /\ (A # {} => BridgePart' = {})
  BY ZenonT(30), <1>2, <1>6, SetupWants DEF BridgePart
<1> DEFINE k == kernel \union made
<1>8. kernel' = Without(k, undo, Stuck) /\ leftovers' = (leftovers \union X) \intersect kernel'
  BY Zenon, <1>2 DEF StillThere
<1> HIDE DEF made, undo, Stuck, X, k
<1>9. ASSUME NEW o \in kernel', o \in made PROVE o \in Tracked' \union X
  <2>1. CASE A = {}
    BY Zenon, <1>3, <1>7, <1>9, <2>1, TrackedParts
  <2>2. CASE A # {} /\ Switch("access") \notin made
    BY Zenon, <1>9, <2>2 DEF X
  <2>3. CASE A # {} /\ Switch("access") \in made
    <3>1. o \in undo /\ o \notin undo \ Stuck
      BY ZenonT(30), <1>4, <1>8, <1>9, <2>3, WithoutIs
    <3> QED BY Zenon, <3>1, LeftIs DEF X
  <2> QED BY Zenon, <2>1, <2>2, <2>3
<1>10. \A o \in kernel' : o \in Tracked \union made => o \in Tracked' \union X
  BY Zenon, <1>5, <1>9, TrackedParts
<1> DEFINE I == {"access"}
<1>11. ASSUME NEW o \in Tracked', o[1] # "forwarding"
       PROVE  o \in kernel' \/ (o \in Tracked /\ On(o) \notin I)
  <2>1. CASE o \in BridgePart'
    BY <1>3, <1>4, <1>7, <1>8, <2>1, WithoutIs DEF k, Carried
  <2>2. CASE o \in AccessPart \union SitePart
    BY Zenon, <1>11, <2>2, Places, TrackedParts, BridgeAssumption DEF Up
  <2> QED BY Zenon, <1>5, <1>11, <2>1, <2>2, TrackedParts
<1>12. \A g \in undo : g[1] # "forwarding" => On(g) \in I /\ (g[1] = "link" => g[2] \in I)
  BY <1>3, <1>4, SetupWants, Kinds, Interfaces
<1>13. PeersOnLink(kernel \union made)
  BY <1>3, SetupWants, Kinds DEF BooksInv, PeersOnLink
<1> HIDE DEF I
<1> QED BY ZenonT(30), <1>8, <1>10, <1>11, <1>12, <1>13, Operation DEF k

LEMMA TeardownBooks ==
    ASSUME BooksInv, Teardown
    PROVE  NothingLeaks' /\ TrackedIsInstalled' /\ PeersOnLink(kernel')
<1> DEFINE tracked == {Route(s, "access") : s \in activeRoutes}
                          \union (IF bridge.nat THEN {Masquerade} ELSE {})
                          \union {Switch("mesh"), Switch("access")}
<1>1. PICK R \in FailSome(tracked) :
          /\ kernel' = Without(kernel, tracked, StopsAt(R, "mesh", "access"))
          /\ leftovers' = StillThere(StopsAt(R, "mesh", "access"))
          /\ bridge.active
          /\ bridge' = [bridge EXCEPT !.active = FALSE, !.nat = FALSE]
          /\ activeRoutes' = {}
          /\ UNCHANGED <<accessVars, siteVars>>
  BY Zenon DEF Teardown
<1>2. BridgePart = tracked /\ AccessPart' = AccessPart /\ SitePart' = SitePart
  BY Zenon, <1>1 DEF BridgePart, AccessPart, SitePart, Up, accessVars, siteVars
<1>3. BridgePart' = {}
  <2>1. ~ bridge'.active /\ ~ bridge'.nat
    BY Zenon, <1>1 DEF BooksInv
  <2> QED BY Zenon, <1>1, <2>1 DEF BridgePart
<1> DEFINE X == StopsAt(R, "mesh", "access")
           I == {"access"}
<1>4. /\ kernel' = Without(kernel, tracked, X)
      /\ leftovers' = (leftovers \union X) \intersect kernel'
  BY Zenon, <1>1 DEF StillThere
<1>5. \A g \in tracked : g[1] # "forwarding" => On(g) \in I /\ (g[1] = "link" => g[2] \in I)
  BY Kinds, Interfaces
<1> HIDE DEF tracked, X
<1>6. \A o \in Tracked : o \in Tracked' \union X \/ o \in tracked \ X
  BY Zenon, <1>2, TrackedParts
<1>7. ASSUME NEW o \in Tracked', o[1] # "forwarding" PROVE o \in Tracked /\ On(o) \notin I
  BY Zenon, <1>2, <1>3, <1>7, Places, TrackedParts, BridgeAssumption DEF Up
<1> HIDE DEF I
<1> QED BY ZenonT(30), <1>4, <1>5, <1>6, <1>7, Removal

LEMMA UpdateRoutesBooks ==
    ASSUME BooksInv, NEW subnets, UpdateRoutes(subnets)
    PROVE  NothingLeaks' /\ TrackedIsInstalled' /\ PeersOnLink(kernel')
<1>1. PICK A \in SUBSET (subnets \ activeRoutes), R \in SUBSET (activeRoutes \ subnets) :
        /\ kernel' = Without(kernel, {Route(s, "access") : s \in activeRoutes \ subnets},
                             {Route(s, "access") : s \in R})
                         \union {Route(s, "access") : s \in (subnets \ activeRoutes) \ A}
        /\ activeRoutes' = KeptRoutes(subnets, A, R)
        /\ leftovers' = StillThere({})
        /\ UNCHANGED <<bridge, accessVars, siteVars>>
  BY Zenon DEF UpdateRoutes
<1> DEFINE D == {Route(s, "access") : s \in activeRoutes \ subnets}
           Stuck == {Route(s, "access") : s \in R}
           New == {Route(s, "access") : s \in (subnets \ activeRoutes) \ A}
           Kept == Without(kernel, D, Stuck)
<1>2. kernel' = Kept \union New /\ leftovers' = leftovers \intersect kernel'
  BY Zenon, <1>1 DEF StillThere
<1>3. ASSUME NEW o \in D PROVE o[1] = "route" /\ o[1] # "forwarding" /\ o[1] # "link" /\ On(o) = "access"
  BY Kinds, Interfaces
<1> HIDE DEF Kept
<1>4. \A o : o \in Kept <=> o \in kernel /\ o \notin D \ Stuck
  <2> HIDE DEF D, Stuck
  <2> QED BY <1>3, WithoutIs DEF Carried, Kept
<1>5. AccessPart' = AccessPart /\ SitePart' = SitePart /\ bridge' = bridge
  BY Zenon, <1>1 DEF AccessPart, SitePart, Up, accessVars, siteVars
<1>6. \A s : s \in activeRoutes' <=> \/ s \in activeRoutes /\ (s \in subnets \/ s \in R)
                                     \/ s \in subnets /\ s \notin A
  BY Zenon, <1>1 DEF KeptRoutes
<1>7. ASSUME NEW o \in kernel', o \in Tracked \union New PROVE o \in Tracked' \union {}
  <2>1. CASE \E s \in activeRoutes : o = Route(s, "access")
    <3>1. PICK s \in activeRoutes : o = Route(s, "access")
      BY Zenon, <2>1
    <3>2. s \in activeRoutes'
      BY <1>2, <1>4, <1>6, <1>7, <3>1, Injective
    <3> QED BY Zenon, <3>1, <3>2, TrackedParts DEF BridgePart
  <2>2. CASE o \in New
    BY Zenon, <1>6, <2>2, TrackedParts DEF BridgePart
  <2>3. CASE o \in Tracked /\ ~ \E s \in activeRoutes : o = Route(s, "access")
    BY Zenon, <1>5, <2>3, TrackedParts DEF BridgePart
  <2> QED BY Zenon, <1>7, <2>1, <2>2, <2>3
<1>8. NothingLeaks'
  BY Zenon, <1>2, <1>4, <1>7, NoLeak
<1>9. ASSUME NEW o \in Tracked', o[1] # "forwarding" PROVE o \in kernel'
  <2>1. CASE \E s \in activeRoutes' : o = Route(s, "access")
    <3>1. PICK s \in activeRoutes' : o = Route(s, "access")
      BY Zenon, <2>1
    <3>2. CASE s \in activeRoutes
      <4>1. o \in Tracked
        BY Zenon, <3>1, <3>2, TrackedParts DEF BridgePart
      <4>2. o \notin D \ Stuck
        BY <1>6, <3>1, <3>2, Injective
      <4> QED BY Zenon, <1>2, <1>4, <1>9, <4>1, <4>2 DEF BooksInv, TrackedIsInstalled
    <3>3. CASE s \notin activeRoutes
      BY Zenon, <1>2, <1>6, <3>1, <3>3
    <3> QED BY Zenon, <3>2, <3>3
  <2>2. CASE ~ \E s \in activeRoutes' : o = Route(s, "access")
    <3>1. o \in Tracked
      BY Zenon, <1>5, <1>9, <2>2, TrackedParts DEF BridgePart
    <3>2. o \notin D
      <4>1. o[1] # "route" \/ On(o) # "access"
        BY Zenon, <1>5, <1>9, <2>2, TrackedParts, Places, Kinds, BridgeAssumption DEF BridgePart, Up
      <4> QED BY Zenon, <1>3, <4>1
    <3> QED BY Zenon, <1>2, <1>4, <1>9, <3>1, <3>2 DEF BooksInv, TrackedIsInstalled
  <2> QED BY Zenon, <2>1, <2>2
<1>10. PeersOnLink(kernel')
  <2>1. \A p : Peer(p, "users") \notin New
    BY Zenon, Kinds
  <2>2. PeersOnLink(Kept)
    BY Zenon, PeersStayOnLink DEF Kept, BooksInv
  <2> QED BY Zenon, <1>2, <2>1, <2>2 DEF PeersOnLink
<1> QED BY Zenon, <1>8, <1>9, <1>10 DEF TrackedIsInstalled

----------------------------------------------------------------------------
(* User access *)

LEMMA UserAccessSetupBooks ==
    ASSUME BooksInv, UserAccessSetup
    PROVE  NothingLeaks' /\ TrackedIsInstalled' /\ PeersOnLink(kernel')
<1>1. PICK A \in FailOne(Elems(AccessWant)) :
        \E R \in FailSome(IF A = {} THEN {} ELSE Made(AccessWant, A) \intersect {Link("users")}) :
          /\ ~access /\ Link("users") \notin kernel
          /\ kernel' = Without(kernel \union Made(AccessWant, A),
                         IF A = {} THEN {} ELSE Made(AccessWant, A) \intersect {Link("users")}, R)
          /\ leftovers' = StillThere(Left(kernel', R))
          /\ access' = (A = {})
          /\ UNCHANGED <<managerVars, activePeers, siteVars>>
  BY ZenonT(30) DEF UserAccessSetup, AccessWant
<1> DEFINE made == Made(AccessWant, A)
           undo == IF A = {} THEN {} ELSE made \intersect {Link("users")}
<1>2. PICK R \in FailSome(undo) :
          /\ ~access /\ Link("users") \notin kernel
          /\ kernel' = Without(kernel \union made, undo, R)
          /\ leftovers' = StillThere(Left(kernel', R))
          /\ access' = (A = {})
          /\ UNCHANGED <<managerVars, activePeers, siteVars>>
  BY Zenon, <1>1
<1> DEFINE X == Left(kernel', R)
           I == {"users"}
           k == kernel \union made
<1>3. /\ made \subseteq {Link("users"), Switch("users"), Switch("access")}
      /\ made # {} => Link("users") \in made
      /\ A # {} => Switch("access") \notin made
      /\ A = {} => made = {Link("users"), Switch("users"), Switch("access")}
  <2>1. A # {} => Elems(AccessWant) \intersect A # {}
    BY Failures
  <2> QED BY Zenon, <2>1, AccessWants, MadeAll
<1>4. kernel' = Without(k, undo, R) /\ leftovers' = (leftovers \union X) \intersect kernel'
  BY Zenon, <1>2 DEF StillThere
<1>5. activePeers = {}
  <2> SUFFICES ASSUME NEW p \in activePeers PROVE FALSE
    BY Zenon
  <2>1. Peer(p, "users") \in Tracked /\ Peer(p, "users")[1] # "forwarding"
    BY Zenon, TrackedParts, Kinds DEF AccessPart
  <2> QED BY Zenon, <1>2, <2>1 DEF BooksInv, TrackedIsInstalled, PeersOnLink
<1>6. /\ AccessPart = {} /\ BridgePart' = BridgePart /\ SitePart' = SitePart
      /\ AccessPart' = IF A = {} THEN {Link("users"), Switch("users"), Switch("access")} ELSE {}
  BY ZenonT(30), <1>2, <1>5 DEF BridgePart, AccessPart, SitePart, Up, managerVars, siteVars
<1>7. undo \subseteq made \intersect {Link("users")} /\ (A = {} => undo = {}) /\ (A # {} /\ made # {} => undo = {Link("users")})
  BY Zenon, <1>3
<1>8. \A g \in undo : g[1] # "forwarding" => On(g) \in I /\ (g[1] = "link" => g[2] \in I)
  BY Zenon, <1>7, Interfaces
<1> HIDE DEF made, undo, X, k
<1>9. ASSUME NEW o \in kernel', o \in made PROVE o \in Tracked' \union X
  <2>1. CASE A = {}
    BY Zenon, <1>3, <1>6, <1>9, <2>1, TrackedParts
  <2>2. CASE A # {}
    <3>1. undo = {Link("users")} /\ o \in {Link("users"), Switch("users")}
      BY Zenon, <1>3, <1>7, <1>9, <2>2
    <3>2. On(o) = "users" /\ Link("users")[1] = "link" /\ Link("users")[2] = "users"
      BY Zenon, <3>1, Kinds, Interfaces
    <3>3. Link("users") \in R
      <4>1. ~ Carried(o, undo \ R)
        BY Zenon, <1>4, <1>9, WithoutIs
      <4> QED BY Zenon, <3>1, <3>2, <4>1 DEF Carried
    <3>4. Carried(o, R)
      BY Zenon, <3>2, <3>3 DEF Carried
    <3> QED BY Zenon, <1>9, <3>4, LeftIs DEF X
  <2> QED BY Zenon, <2>1, <2>2
<1>10. \A o \in kernel' : o \in Tracked \union made => o \in Tracked' \union X
  BY Zenon, <1>6, <1>9, TrackedParts
<1>11. ASSUME NEW o \in Tracked', o[1] # "forwarding"
       PROVE  o \in kernel' \/ (o \in Tracked /\ On(o) \notin I)
  <2>1. CASE o \in AccessPart'
    BY <1>3, <1>4, <1>6, <1>7, <2>1, WithoutIs DEF k, Carried
  <2>2. CASE o \in BridgePart \union SitePart
    BY Zenon, <1>11, <2>2, Places, TrackedParts, BridgeAssumption DEF Up
  <2> QED BY Zenon, <1>6, <1>11, <2>1, <2>2, TrackedParts
<1>12. PeersOnLink(kernel \union made)
  BY Zenon, <1>3, Kinds DEF BooksInv, PeersOnLink
<1> HIDE DEF I
<1> QED BY ZenonT(30), <1>4, <1>8, <1>10, <1>11, <1>12, Operation DEF k

LEMMA UserAccessTeardownBooks ==
    ASSUME BooksInv, UserAccessTeardown
    PROVE  NothingLeaks' /\ TrackedIsInstalled' /\ PeersOnLink(kernel')
<1> DEFINE tracked == {Peer(p, "users") : p \in activePeers}
                          \union {Switch("users"), Switch("access"), Link("users")}
<1>1. PICK R \in FailSome(tracked) :
          /\ access
          /\ kernel' = Without(kernel, tracked, StopsAt(R, "users", "access"))
          /\ leftovers' = StillThere(StopsAt(R, "users", "access"))
          /\ access' = FALSE /\ activePeers' = {}
          /\ UNCHANGED <<managerVars, siteVars>>
  BY ZenonT(30) DEF UserAccessTeardown
<1>2. AccessPart = tracked /\ AccessPart' = {} /\ BridgePart' = BridgePart /\ SitePart' = SitePart
  BY Zenon, <1>1 DEF BridgePart, AccessPart, SitePart, Up, managerVars, siteVars
<1> DEFINE X == StopsAt(R, "users", "access")
           I == {"users"}
<1>3. kernel' = Without(kernel, tracked, X) /\ leftovers' = (leftovers \union X) \intersect kernel'
  BY Zenon, <1>1 DEF StillThere
<1>4. \A g \in tracked : g[1] # "forwarding" => On(g) \in I /\ (g[1] = "link" => g[2] \in I)
  BY Kinds, Interfaces
<1> HIDE DEF tracked, X
<1>5. \A o \in Tracked : o \in Tracked' \union X \/ o \in tracked \ X
  BY Zenon, <1>2, TrackedParts
<1>6. ASSUME NEW o \in Tracked', o[1] # "forwarding" PROVE o \in Tracked /\ On(o) \notin I
  BY Zenon, <1>2, <1>6, Places, TrackedParts, BridgeAssumption DEF Up
<1> HIDE DEF I
<1> QED BY ZenonT(30), <1>3, <1>4, <1>5, <1>6, Removal

LEMMA AddPeerBooks ==
    ASSUME BooksInv, NEW p, AddPeer(p)
    PROVE  NothingLeaks' /\ TrackedIsInstalled' /\ PeersOnLink(kernel')
<1>1. /\ \/ kernel' = kernel /\ activePeers' = activePeers
         \/ /\ Link("users") \in kernel
            /\ kernel' = kernel \union {Peer(p, "users")}
            /\ activePeers' = activePeers \union {p}
      /\ UNCHANGED <<leftovers, access, managerVars, siteVars>>
  BY Zenon DEF AddPeer
<1>2. /\ BridgePart' = BridgePart /\ SitePart' = SitePart
      /\ \/ kernel' = kernel /\ AccessPart' = AccessPart
         \/ /\ Link("users") \in kernel
            /\ kernel' = kernel \union {Peer(p, "users")}
            /\ AccessPart' = AccessPart \union {Peer(p, "users")}
  BY Zenon, <1>1 DEF BridgePart, SitePart, AccessPart, Up, managerVars, siteVars
<1>3. NothingLeaks' /\ TrackedIsInstalled'
  BY Zenon, <1>1, <1>2, TrackedParts DEF BooksInv, NothingLeaks, TrackedIsInstalled
<1> QED BY Zenon, <1>2, <1>3 DEF BooksInv, PeersOnLink

LEMMA RemovePeerBooks ==
    ASSUME BooksInv, NEW p, RemovePeer(p)
    PROVE  NothingLeaks' /\ TrackedIsInstalled' /\ PeersOnLink(kernel')
<1>1. PICK R \in FailSome({Peer(p, "users") : q \in activePeers \intersect {p}}) :
        /\ kernel' = IF p \in activePeers THEN Without(kernel, {Peer(p, "users")}, R) ELSE kernel
        /\ leftovers' = StillThere({})
        /\ activePeers' = IF R = {} THEN activePeers \ {p} ELSE activePeers
        /\ UNCHANGED <<access, managerVars, siteVars>>
  BY Zenon DEF RemovePeer
<1>2. R \subseteq {Peer(p, "users")} /\ (p \notin activePeers => R = {})
  BY Failures
<1>3. BridgePart' = BridgePart /\ SitePart' = SitePart
  BY Zenon, <1>1 DEF BridgePart, SitePart, Up, managerVars, siteVars
<1>4. CASE p \notin activePeers
  <2>1. kernel' = kernel /\ AccessPart' = AccessPart
    BY Zenon, <1>1, <1>2, <1>4 DEF AccessPart
  <2>2. leftovers \intersect kernel \subseteq leftovers'
    BY Zenon, <1>1, <2>1 DEF StillThere
  <2> QED BY Zenon, <1>3, <2>1, <2>2, TrackedParts DEF BooksInv, NothingLeaks, TrackedIsInstalled
<1>5. CASE p \in activePeers
  <2> DEFINE D == {Peer(p, "users")}
  <2>1. kernel' = Without(kernel, D, R) /\ leftovers' = leftovers \intersect kernel'
    BY Zenon, <1>1, <1>5 DEF StillThere
  <2>2. Peer(p, "users")[1] = "peer" /\ On(Peer(p, "users")) = "users"
    BY Kinds, Interfaces
  <2>3. \A o : o \in kernel' <=> o \in kernel /\ o \notin D \ R
    BY <2>1, <2>2, WithoutIs DEF Carried
  <2>4. \A o : o \in AccessPart' <=> o \in AccessPart /\ o \notin D \ R
    <3>1. CASE R = {}
      <4>1. \A q \in activePeers : Peer(q, "users") = Peer(p, "users") => q = p
        BY Zenon, Injective
      <4>2. Peer(p, "users") \notin {Link("users"), Switch("users"), Switch("access")}
        BY Zenon, Kinds
      <4> QED BY Zenon, <1>1, <3>1, <4>1, <4>2 DEF AccessPart
    <3>2. CASE R # {}
      <4>1. D \ R = {}
        BY Zenon, <1>2, <3>2
      <4> QED BY Zenon, <1>1, <3>2, <4>1 DEF AccessPart
    <3> QED BY Zenon, <3>1, <3>2
  <2>5. \A o \in BridgePart \union SitePart : o[1] # "forwarding" => o \notin D
    BY Zenon, <2>2, Places, BridgeAssumption DEF Up
  <2>6. PeersOnLink(kernel')
    BY Zenon, <2>1, PeersStayOnLink DEF BooksInv
  <2> HIDE DEF D
  <2>7. NothingLeaks'
    BY Zenon, <1>3, <2>1, <2>3, <2>4, TrackedParts DEF BooksInv, NothingLeaks
  <2>8. TrackedIsInstalled'
    BY Zenon, <1>3, <2>3, <2>4, <2>5, TrackedParts DEF BooksInv, TrackedIsInstalled
  <2> QED BY Zenon, <2>6, <2>7, <2>8
<1> QED BY Zenon, <1>4, <1>5

----------------------------------------------------------------------------
(* Site-to-site *)

LEMMA TunnelObjects ==
    ASSUME NEW t, NEW config, NEW o \in ObjectsOf(t, config)
    PROVE  /\ o[1] # "forwarding" => On(o) = t /\ (o[1] = "link" => o[2] = t)
           /\ o \in {Link(t), Peer(t, t), Switch(t)} => On(o) = t
           /\ \A q : t # "users" => Peer(q, "users") # o
<1>1. o[1] # "forwarding" => On(o) = t /\ (o[1] = "link" => o[2] = t)
  BY Kinds, Interfaces DEF ObjectsOf
<1>2. o \in {Link(t), Peer(t, t), Switch(t)} => On(o) = t
  BY Interfaces
<1>3. ASSUME NEW q, t # "users" PROVE Peer(q, "users") # o
  BY <1>1, <1>3, Kinds, Interfaces
<1> QED BY Zenon, <1>1, <1>2, <1>3

\* What the other tunnels have when the tunnel t comes or goes.
LEMMA SiteParts ==
    ASSUME BooksInv, NEW t \in TunnelID, NEW config \in TunnelConfig \union {Down},
           activeTunnels' = [activeTunnels EXCEPT ![t] = config]
    PROVE  /\ \A o \in SitePart : o \in SitePart' \/ (t \in Up /\ o \in ObjectsOf(t, activeTunnels[t]))
           /\ \A o \in SitePart' :
                \/ o \in SitePart /\ (o[1] # "forwarding" => On(o) # t)
                \/ config # Down /\ o \in ObjectsOf(t, config)
           /\ config # Down => ObjectsOf(t, config) \subseteq SitePart'
           /\ Up' = IF config = Down THEN Up \ {t} ELSE Up \union {t}
<1>1. /\ activeTunnels'[t] = config
      /\ \A r \in TunnelID \ {t} : activeTunnels'[r] = activeTunnels[r]
  BY Zenon DEF BooksInv
<1>2. /\ t \in Up' <=> config # Down
      /\ \A r \in TunnelID \ {t} : r \in Up' <=> r \in Up
      /\ Up \subseteq TunnelID /\ Up' \subseteq TunnelID
  BY Zenon, <1>1 DEF Up
<1>3. ASSUME NEW o \in SitePart PROVE o \in SitePart' \/ (t \in Up /\ o \in ObjectsOf(t, activeTunnels[t]))
  <2>1. PICK r \in Up : o \in ObjectsOf(r, activeTunnels[r])
    BY Zenon, <1>3 DEF SitePart
  <2>2. CASE r # t
    <3>1. r \in Up' /\ activeTunnels'[r] = activeTunnels[r]
      BY Zenon, <1>1, <1>2, <2>2
    <3>2. o \in ObjectsOf(r, activeTunnels'[r])
      BY Zenon, <2>1, <3>1
    <3> QED BY Zenon, <3>1, <3>2 DEF SitePart, ObjectsOf
  <2> QED BY Zenon, <2>1, <2>2
<1>4. ASSUME NEW o \in SitePart'
      PROVE  \/ o \in SitePart /\ (o[1] # "forwarding" => On(o) # t)
             \/ config # Down /\ o \in ObjectsOf(t, config)
  <2>1. PICK r \in Up' : o \in ObjectsOf(r, activeTunnels'[r])
    BY Zenon, <1>4 DEF SitePart, ObjectsOf
  <2>2. CASE r # t
    <3>1. r \in Up /\ activeTunnels'[r] = activeTunnels[r]
      BY Zenon, <1>1, <1>2, <2>2
    <3>2. o \in ObjectsOf(r, activeTunnels[r])
      BY Zenon, <2>1, <3>1
    <3>3. o \in SitePart
      BY Zenon, <3>1, <3>2 DEF SitePart
    <3> QED BY Zenon, <2>2, <3>2, <3>3, TunnelObjects
  <2>3. CASE r = t
    BY Zenon, <1>1, <1>2, <2>1, <2>3
  <2> QED BY Zenon, <2>2, <2>3
<1>5. config # Down => ObjectsOf(t, config) \subseteq SitePart'
  BY Zenon, <1>1, <1>2 DEF SitePart, ObjectsOf
<1> QED BY Zenon, <1>2, <1>3, <1>4, <1>5

LEMMA AddTunnelBooks ==
    ASSUME BooksInv, NEW t \in TunnelID, NEW config \in TunnelConfig, AddTunnel(t, config)
    PROVE  NothingLeaks' /\ TrackedIsInstalled' /\ PeersOnLink(kernel')
<1> DEFINE want == TunnelWant(t, config)
           refused == ~siteToSite \/ activeTunnels[t] # Down \/ Cardinality(Up) >= MaxTunnels
<1>1. CASE UNCHANGED <<kernel, leftovers, faults, activeTunnels>>
  <2>1. BridgePart' = BridgePart /\ AccessPart' = AccessPart /\ SitePart' = SitePart
    BY ZenonT(30), <1>1 DEF AddTunnel, BridgePart, SitePart, AccessPart, Up, managerVars, accessVars
  <2> QED BY Zenon, <1>1, <2>1, TrackedParts DEF BooksInv, NothingLeaks, TrackedIsInstalled
<1>2. CASE ~ UNCHANGED <<kernel, leftovers, faults, activeTunnels>>
  <2>1. PICK A \in FailOne(Elems(want)) :
        \E R \in FailSome(IF A = {} THEN {} ELSE rollbackTunnel(t, Made(want, A))) :
          /\ activeTunnels[t] = Down
          /\ kernel' = Without(kernel \union Made(want, A),
                               IF A = {} THEN {} ELSE rollbackTunnel(t, Made(want, A)),
                               StopsAt(R, t, "mesh"))
          /\ leftovers' = StillThere(Left(kernel', StopsAt(R, t, "mesh")))
          /\ activeTunnels' = [activeTunnels EXCEPT ![t] = IF A = {} THEN config ELSE Down]
          /\ UNCHANGED <<siteToSite, managerVars, accessVars>>
    BY Zenon, <1>2 DEF AddTunnel, TunnelWant
  <2> DEFINE made == Made(want, A)
             undo == IF A = {} THEN {} ELSE rollbackTunnel(t, made)
  <2>2. PICK R \in FailSome(undo) :
          /\ activeTunnels[t] = Down
          /\ kernel' = Without(kernel \union made, undo, StopsAt(R, t, "mesh"))
          /\ leftovers' = StillThere(Left(kernel', StopsAt(R, t, "mesh")))
          /\ activeTunnels' = [activeTunnels EXCEPT ![t] = IF A = {} THEN config ELSE Down]
          /\ UNCHANGED <<siteToSite, managerVars, accessVars>>
    BY Zenon, <2>1
  <2> DEFINE Stuck == StopsAt(R, t, "mesh")
             X == Left(kernel', Stuck)
             I == {t}
             k == kernel \union made
  <2>3. /\ made \subseteq ObjectsOf(t, config)
        /\ made # {} => Link(t) \in made
        /\ A = {} => made = ObjectsOf(t, config)
    <3>1. PICK T : want \in Seq(T)
      BY Zenon, TunnelWants
    <3>2. made \subseteq Elems(want) /\ (made # {} => want[1] \in made)
      BY Zenon, <3>1, MadeSome
    <3> QED BY ZenonT(30), <3>2, TunnelWants, MadeAll
  <2>4. /\ undo \subseteq made /\ (A = {} => undo = {})
        /\ A # {} => \A o \in made : o # Switch(t) => o \in undo
        /\ A # {} /\ made # {} => Link(t) \in undo
    <3>1. Link(t) # Switch(t)
      BY Zenon, Kinds
    <3> QED BY Zenon, <2>3, <3>1 DEF rollbackTunnel
  <2>5. kernel' = Without(k, undo, Stuck) /\ leftovers' = (leftovers \union X) \intersect kernel'
    BY Zenon, <2>2 DEF StillThere
  <2>6. BridgePart' = BridgePart /\ AccessPart' = AccessPart
    BY Zenon, <2>2 DEF BridgePart, AccessPart, managerVars, accessVars
  <2> DEFINE c == IF A = {} THEN config ELSE Down
  <2>7. /\ SitePart \subseteq SitePart'
        /\ \A o \in SitePart' :
                \/ o \in SitePart /\ (o[1] # "forwarding" => On(o) # t)
                \/ A = {} /\ o \in ObjectsOf(t, config)
        /\ A = {} => ObjectsOf(t, config) \subseteq SitePart'
    <3>1. c \in TunnelConfig \union {Down} /\ activeTunnels' = [activeTunnels EXCEPT ![t] = c] /\ t \notin Up
      BY Zenon, <2>2 DEF Up
    <3>2. A = {} => c = config /\ config # Down
      BY SMTT(30) DEF TunnelConfig, Down
    <3>3. A # {} => c = Down
      BY Zenon
    <3> HIDE DEF c
    <3> QED BY ZenonT(30), <3>1, <3>2, <3>3, SiteParts
  <2> HIDE DEF want, made, undo, Stuck, X, k
  <2>8. ASSUME NEW o \in kernel', o \in made PROVE o \in Tracked' \union X
    <3>1. CASE A = {}
      BY Zenon, <2>3, <2>7, <2>8, <3>1, TrackedParts
    <3>2. CASE A # {} /\ o \in undo
      <4>1. o \in Stuck
        BY ZenonT(30), <2>5, <2>8, <3>2, WithoutIs
      <4> QED BY Zenon, <4>1, LeftIs DEF X
    <3>3. CASE A # {} /\ o = Switch(t)
      <4>1. On(o) = t /\ Link(t)[1] = "link" /\ Link(t)[2] = t /\ Link(t) \in undo
        BY Zenon, <2>4, <2>8, <3>3, Kinds, Interfaces
      <4>2. ~ Carried(o, undo \ Stuck)
        BY Zenon, <2>5, <2>8, WithoutIs
      <4>3. Carried(o, Stuck)
        BY Zenon, <4>1, <4>2 DEF Carried
      <4> QED BY Zenon, <2>8, <4>3, LeftIs DEF X
    <3> QED BY Zenon, <2>4, <2>8, <3>1, <3>2, <3>3
  <2>9. \A o \in kernel' : o \in Tracked \union made => o \in Tracked' \union X
    BY Zenon, <2>6, <2>7, <2>8, TrackedParts
  <2>10. \A g \in undo : g[1] # "forwarding" => On(g) \in I /\ (g[1] = "link" => g[2] \in I)
    BY Zenon, <2>3, <2>4, TunnelObjects
  <2>11. ASSUME NEW o \in Tracked', o[1] # "forwarding"
         PROVE  o \in kernel' \/ (o \in Tracked /\ On(o) \notin I)
    <3>1. CASE o \in BridgePart \union AccessPart
      BY Zenon, <2>11, <3>1, Places, TrackedParts, BridgeAssumption
    <3>2. CASE o \in SitePart /\ On(o) # t
      BY Zenon, <3>2, TrackedParts
    <3>3. CASE A = {} /\ o \in ObjectsOf(t, config)
      BY <2>3, <2>4, <2>5, <3>3, WithoutIs DEF k, Carried
    <3> QED BY Zenon, <2>6, <2>7, <2>11, <3>1, <3>2, <3>3, TrackedParts
  <2>12. PeersOnLink(kernel \union made)
    <3>1. \A q : Peer(q, "users") \notin made
      BY <2>3, TunnelObjects, BridgeAssumption
    <3> QED BY Zenon, <3>1 DEF BooksInv, PeersOnLink
  <2> HIDE DEF I
  <2> QED BY ZenonT(30), <2>5, <2>9, <2>10, <2>11, <2>12, Operation DEF k
<1> QED BY Zenon, <1>1, <1>2

LEMMA RemoveTunnelBooks ==
    ASSUME BooksInv, NEW t \in TunnelID, RemoveTunnel(t)
    PROVE  NothingLeaks' /\ TrackedIsInstalled' /\ PeersOnLink(kernel')
<1> DEFINE tracked == IF siteToSite /\ t \in Up THEN ObjectsOf(t, activeTunnels[t]) ELSE {}
<1>1. PICK R \in FailSome(tracked) :
          /\ kernel' = Without(kernel, tracked, StopsAt(R, t, "mesh"))
          /\ leftovers' = StillThere(StopsAt(R, t, "mesh"))
          /\ activeTunnels' = IF siteToSite THEN [activeTunnels EXCEPT ![t] = Down] ELSE activeTunnels
          /\ UNCHANGED <<siteToSite, managerVars, accessVars>>
  BY Zenon DEF RemoveTunnel
<1> DEFINE X == StopsAt(R, t, "mesh")
           I == {t}
<1>2. kernel' = Without(kernel, tracked, X) /\ leftovers' = (leftovers \union X) \intersect kernel'
  BY Zenon, <1>1 DEF StillThere
<1>3. \A g \in tracked : g[1] # "forwarding" => On(g) \in I /\ (g[1] = "link" => g[2] \in I)
  BY Zenon, TunnelObjects
<1>4. BridgePart' = BridgePart /\ AccessPart' = AccessPart
  BY Zenon, <1>1 DEF BridgePart, AccessPart, managerVars, accessVars
<1>5. /\ \A o \in SitePart : o \in SitePart' \/ o \in tracked
      /\ \A o \in SitePart' : o \in SitePart /\ (o[1] # "forwarding" => On(o) # t \/ tracked = {})
  <2>1. CASE siteToSite
    <3>1. activeTunnels' = [activeTunnels EXCEPT ![t] = Down]
      BY Zenon, <1>1, <2>1
    <3> QED BY ZenonT(30), <2>1, <3>1, SiteParts
  <2>2. CASE ~siteToSite
    <3>1. SitePart' = SitePart
      BY Zenon, <1>1, <2>2 DEF SitePart, Up
    <3> QED BY Zenon, <2>2, <3>1
  <2> QED BY Zenon, <2>1, <2>2
<1> HIDE DEF tracked, X
<1>6. \A o \in Tracked : o \in Tracked' \union X \/ o \in tracked \ X
  BY Zenon, <1>4, <1>5, TrackedParts
<1>7. ASSUME NEW o \in Tracked', o[1] # "forwarding"
      PROVE  o \in kernel' \/ (o \in Tracked /\ On(o) \notin I)
  <2>1. o \in Tracked
    BY Zenon, <1>4, <1>5, TrackedParts
  <2>2. CASE tracked = {}
    BY SMTT(30), <1>2, <1>7, <2>1, <2>2, WithoutIs DEF Carried, BooksInv, TrackedIsInstalled
  <2>3. CASE tracked # {}
    BY Zenon, <1>4, <1>5, <1>7, <2>1, <2>3, Places, TrackedParts, BridgeAssumption
  <2> QED BY Zenon, <2>2, <2>3
<1> HIDE DEF I
<1> QED BY ZenonT(30), <1>2, <1>3, <1>6, <1>7, Removal

LEMMA SiteTeardownBooks ==
    ASSUME BooksInv, SiteTeardown
    PROVE  NothingLeaks' /\ TrackedIsInstalled' /\ PeersOnLink(kernel')
<1> DEFINE tracked == UNION {ObjectsOf(t, activeTunnels[t]) \ {Peer(t, t)} : t \in Up}
           stuck(R) == R \union IF Up # {} /\ \A t \in Up : Switch(t) \in R
                                THEN {Switch("mesh")} ELSE {}
<1>1. PICK R \in FailSome(tracked) :
          /\ kernel' = Without(kernel, tracked, stuck(R))
          /\ leftovers' = StillThere(Left(kernel', stuck(R)))
          /\ activeTunnels' = [t \in TunnelID |-> Down]
          /\ UNCHANGED <<managerVars, accessVars>>
  BY ZenonT(30) DEF SiteTeardown
<1> DEFINE S == stuck(R)
           X == Left(kernel', S)
           I == TunnelID
<1>2. kernel' = Without(kernel, tracked, S) /\ leftovers' = (leftovers \union X) \intersect kernel'
  BY Zenon, <1>1 DEF StillThere
<1>3. \A g \in tracked : g[1] # "forwarding" => On(g) \in I /\ (g[1] = "link" => g[2] \in I)
  <2> SUFFICES ASSUME NEW t \in Up, NEW g \in ObjectsOf(t, activeTunnels[t]), g[1] # "forwarding"
               PROVE  On(g) \in I /\ (g[1] = "link" => g[2] \in I)
    BY Zenon
  <2> QED BY TunnelObjects DEF Up
<1>4. BridgePart' = BridgePart /\ AccessPart' = AccessPart /\ SitePart' = {}
  <2>1. Up' = {}
    BY Zenon, <1>1 DEF Up
  <2> QED BY Zenon, <1>1, <2>1 DEF BridgePart, AccessPart, SitePart, managerVars, accessVars
<1> HIDE DEF S, X
<1>5. ASSUME NEW o \in kernel', o \in SitePart PROVE o \in X
  <2>1. PICK t \in Up : o \in ObjectsOf(t, activeTunnels[t])
    BY Zenon, <1>5 DEF SitePart
  <2>2. CASE o = Peer(t, t)
    <3>1. On(o) = t /\ Link(t)[1] = "link" /\ Link(t)[2] = t /\ Link(t) # Peer(t, t)
      BY SMTT(30), <2>2, Kinds, Interfaces
    <3>2. Link(t) \in tracked
      BY <3>1 DEF ObjectsOf
    <3> HIDE DEF tracked
    <3>3. ~ Carried(o, tracked \ S)
      BY Zenon, <1>2, <1>5, WithoutIs
    <3>4. Carried(o, S)
      BY Zenon, <3>1, <3>2, <3>3 DEF Carried
    <3> QED BY Zenon, <1>5, <3>4, LeftIs DEF X
  <2>3. CASE o # Peer(t, t)
    <3>1. o \in tracked
      BY <2>1, <2>3
    <3> HIDE DEF tracked
    <3>2. o \in S
      BY ZenonT(30), <1>2, <1>5, <3>1, WithoutIs
    <3> QED BY Zenon, <3>2, LeftIs DEF X
  <2> QED BY Zenon, <2>2, <2>3
<1> HIDE DEF tracked
<1>6. kernel' \subseteq kernel
  BY ZenonT(30), <1>2, WithoutIs
<1>7. NothingLeaks'
  BY Zenon, <1>2, <1>4, <1>5, <1>6, TrackedParts DEF BooksInv, NothingLeaks
<1>8. ASSUME NEW o \in Tracked', o[1] # "forwarding" PROVE o \in kernel'
  <2>1. o \in Tracked /\ On(o) \notin I
    BY Zenon, <1>4, <1>8, Places, TrackedParts, BridgeAssumption
  <2>2. o \in kernel
    BY Zenon, <1>8, <2>1 DEF BooksInv, TrackedIsInstalled
  <2> HIDE DEF I
  <2>3. o \in Without(kernel, tracked, S)
    BY Zenon, <1>3, <1>8, <2>1, <2>2, Untouched
  <2> QED BY Zenon, <1>2, <2>3
<1>9. PeersOnLink(kernel')
  BY Zenon, <1>2, PeersStayOnLink DEF BooksInv
<1> QED BY Zenon, <1>7, <1>8, <1>9 DEF TrackedIsInstalled

----------------------------------------------------------------------------
(* Limits, and the reconcile handlers *)

LimitInv == IsFiniteSet(activePeers) /\ IsFiniteSet(Up) /\ LimitsHold

\* What a handler that nothing disturbed has done, and what it has left to do.
CycleInv ==
    /\ cycle.of \in {"none", "users", "tunnels"}
    /\ cycle.of = "users" /\ cycle.clean =>
          /\ activePeers = (cycle.want \ cycle.add) \union cycle.remove
          /\ cycle.remove \intersect cycle.want = {} /\ cycle.add \subseteq cycle.want
    /\ cycle.of = "tunnels" =>
          /\ cycle.want \in [TunnelID -> TunnelConfig \union {Down}]
          /\ cycle.remove \subseteq TunnelID
          /\ cycle.add \subseteq {t \in TunnelID : cycle.want[t] # Down}
    /\ cycle.of = "tunnels" /\ cycle.clean /\ siteToSite =>
          \A t \in TunnelID :
             /\ t \in cycle.remove => activeTunnels[t] # Down /\ t \notin cycle.add
             /\ t \in cycle.add => activeTunnels[t] = Down
             /\ t \notin cycle.remove \union cycle.add => activeTunnels[t] = cycle.want[t]

RoutingInv == BooksInv /\ LimitInv /\ CycleInv

\* Every step is an operation of a manager, by an event or by a handler, or
\* changes the handler's plan only.
LEMMA Operations ==
    ASSUME CycleInv, [RoutingNext]_routingVars
    PROVE  \/ Setup \/ Teardown \/ (\E subnets : UpdateRoutes(subnets))
           \/ UserAccessSetup \/ UserAccessTeardown
           \/ (\E p : AddPeer(p)) \/ (\E p : RemovePeer(p))
           \/ SiteSetup \/ SiteTeardown
           \/ (\E t \in TunnelID : RemoveTunnel(t))
           \/ (\E t \in TunnelID, config \in TunnelConfig : AddTunnel(t, config))
           \/ UNCHANGED <<kernel, leftovers, managerVars, accessVars, siteVars>>
<1>1. CASE PeerEvent \/ CyclePeers
  BY ZenonT(30), <1>1 DEF PeerEvent, CyclePeers
<1>2. CASE TunnelEvent
  BY Zenon, <1>2 DEF TunnelEvent
<1>3. CASE CycleTunnels
  <2>1. ASSUME NEW t \in cycle.add, AddTunnel(t, cycle.want[t])
        PROVE  \E r \in TunnelID, config \in TunnelConfig : AddTunnel(r, config)
    <3>1. t \in TunnelID /\ cycle.want[t] \in TunnelConfig
      BY ZenonT(30), <1>3 DEF CycleTunnels, CycleInv
    <3> QED BY Zenon, <2>1, <3>1
  <2>2. cycle.remove \subseteq TunnelID
    BY ZenonT(30), <1>3 DEF CycleTunnels, CycleInv
  <2> QED BY ZenonT(30), <1>3, <2>1, <2>2 DEF CycleTunnels
<1>4. CASE PlanPeers \/ PlanTunnels \/ CycleEnds \/ UNCHANGED routingVars
  BY ZenonT(30), <1>4 DEF PlanPeers, PlanTunnels, Plan, CycleEnds, routingVars
<1> QED BY Zenon, <1>1, <1>2, <1>3, <1>4 DEF RoutingNext

\* The types and flags of the managers' fields.
FlagsInv ==
    /\ bridge \in [called : BOOLEAN, active : BOOLEAN, nat : BOOLEAN]
    /\ ~bridge.called => activeRoutes = {} /\ ~bridge.active /\ ~bridge.nat
    /\ access \in BOOLEAN /\ siteToSite \in BOOLEAN
    /\ activeTunnels \in [TunnelID -> TunnelConfig \union {Down}]

LEMMA FlagsStep ==
    ASSUME FlagsInv, CycleInv, [RoutingNext]_routingVars
    PROVE  FlagsInv'
<1> USE DEF FlagsInv
<1>1. CASE Setup
  <2>1. UNCHANGED <<accessVars, siteVars>>
    BY Zenon, <1>1 DEF Setup
  <2>2. PICK A : bridge' = [called |-> TRUE, active |-> A = {}, nat |-> A = {} /\ NatEnabled]
    BY ZenonT(30), <1>1 DEF Setup
  <2>3. (A = {}) \in BOOLEAN /\ (A = {} /\ NatEnabled) \in BOOLEAN
    BY Zenon
  <2>4. bridge' \in [called : BOOLEAN, active : BOOLEAN, nat : BOOLEAN] /\ bridge'.called
    BY ZenonT(30), <2>2, <2>3
  <2> QED BY Zenon, <2>1, <2>4 DEF accessVars, siteVars
<1>2. CASE Teardown
  <2>1. bridge' = [bridge EXCEPT !.active = FALSE, !.nat = FALSE] /\ bridge.active
        /\ UNCHANGED <<accessVars, siteVars>>
    BY Zenon, <1>2 DEF Teardown
  <2>2. bridge' \in [called : BOOLEAN, active : BOOLEAN, nat : BOOLEAN] /\ bridge'.called
    BY ZenonT(30), <2>1
  <2> QED BY Zenon, <2>1, <2>2 DEF accessVars, siteVars
<1>3. ASSUME NEW subnets, UpdateRoutes(subnets) PROVE FlagsInv'
  BY Zenon, <1>3 DEF UpdateRoutes, accessVars, siteVars
<1>4. CASE UserAccessSetup
  BY Zenon, <1>4 DEF UserAccessSetup, managerVars, siteVars
<1>5. CASE UserAccessTeardown
  BY ZenonT(30), <1>5 DEF UserAccessTeardown, managerVars, siteVars
<1>6. ASSUME NEW p, AddPeer(p) \/ RemovePeer(p) PROVE FlagsInv'
  BY Zenon, <1>6 DEF AddPeer, RemovePeer, managerVars, siteVars
<1>7. CASE SiteSetup
  BY Zenon, <1>7 DEF SiteSetup, managerVars, accessVars
<1>8. CASE SiteTeardown
  BY ZenonT(30), <1>8 DEF SiteTeardown, managerVars, accessVars
<1>9. ASSUME NEW t \in TunnelID, RemoveTunnel(t) PROVE FlagsInv'
  <2>1. /\ activeTunnels' = IF siteToSite THEN [activeTunnels EXCEPT ![t] = Down] ELSE activeTunnels
        /\ UNCHANGED <<siteToSite, managerVars, accessVars>>
    BY Zenon, <1>9 DEF RemoveTunnel
  <2> QED BY Zenon, <2>1 DEF managerVars, accessVars
<1>10. ASSUME NEW t \in TunnelID, NEW config \in TunnelConfig, AddTunnel(t, config) PROVE FlagsInv'
  <2>1. /\ \/ activeTunnels' = activeTunnels
           \/ \E c \in {config, Down} : activeTunnels' = [activeTunnels EXCEPT ![t] = c]
        /\ UNCHANGED <<siteToSite, managerVars, accessVars>>
    BY ZenonT(30), <1>10 DEF AddTunnel
  <2> QED BY Zenon, <2>1 DEF managerVars, accessVars
<1>11. CASE UNCHANGED <<kernel, leftovers, managerVars, accessVars, siteVars>>
  BY Zenon, <1>11 DEF managerVars, accessVars, siteVars
<1> HIDE DEF FlagsInv
<1> QED BY ZenonT(30), <1>1, <1>2, <1>3, <1>4, <1>5, <1>6, <1>7, <1>8, <1>9, <1>10, <1>11, Operations

LEMMA BooksStep ==
    ASSUME BooksInv, CycleInv, [RoutingNext]_routingVars
    PROVE  BooksInv'
<1>1. FlagsInv'
  BY Zenon, FlagsStep DEF BooksInv, FlagsInv
<1>2. CASE SiteSetup \/ UNCHANGED <<kernel, leftovers, managerVars, accessVars, siteVars>>
  <2>1. UNCHANGED <<kernel, leftovers, managerVars, accessVars, activeTunnels>>
    BY Zenon, <1>2 DEF SiteSetup, siteVars
  <2>2. Tracked' = Tracked
    BY <2>1 DEF Tracked, Up, managerVars, accessVars
  <2>3. NothingLeaks' /\ TrackedIsInstalled' /\ PeersOnLink(kernel')
    BY Zenon, <2>1, <2>2 DEF BooksInv, NothingLeaks, TrackedIsInstalled
  <2> QED BY Zenon, <1>1, <2>3 DEF BooksInv, FlagsInv
<1>3. CASE ~ (SiteSetup \/ UNCHANGED <<kernel, leftovers, managerVars, accessVars, siteVars>>)
  <2>1. NothingLeaks' /\ TrackedIsInstalled' /\ PeersOnLink(kernel')
    BY Zenon, <1>3, Operations, SetupBooks, TeardownBooks, UpdateRoutesBooks, UserAccessSetupBooks,
       UserAccessTeardownBooks, AddPeerBooks, RemovePeerBooks, SiteTeardownBooks,
       RemoveTunnelBooks, AddTunnelBooks
  <2> QED BY Zenon, <1>1, <2>1 DEF BooksInv, FlagsInv
<1> QED BY Zenon, <1>2, <1>3

LEMMA Smaller ==
    ASSUME NEW S, IsFiniteSet(S), NEW N \in Nat, Cardinality(S) <= N, NEW T, T \subseteq S
    PROVE  IsFiniteSet(T) /\ Cardinality(T) <= N
BY FS_Subset, FS_CardinalityType

LEMMA OneMore ==
    ASSUME NEW S, IsFiniteSet(S), NEW N \in Nat, Cardinality(S) < N, NEW x, NEW T,
           T \subseteq S \union {x}
    PROVE  IsFiniteSet(T) /\ Cardinality(T) <= N
<1>1. IsFiniteSet(S \union {x}) /\ Cardinality(S) \in Nat
      /\ (Cardinality(S \union {x}) = Cardinality(S) \/ Cardinality(S \union {x}) = Cardinality(S) + 1)
  BY Zenon, FS_AddElement, FS_CardinalityType
<1>2. Cardinality(S \union {x}) <= N
  BY <1>1
<1> QED BY Zenon, <1>1, <1>2, Smaller

LEMMA LimitsStep ==
    ASSUME FlagsInv, LimitInv, CycleInv, [RoutingNext]_routingVars
    PROVE  LimitInv'
<1>1. MaxAccessPeers \in Nat /\ MaxTunnels \in Nat
  BY Zenon, BridgeAssumption
<1>2. \/ activePeers' \subseteq activePeers
      \/ \E p : Cardinality(activePeers) < MaxAccessPeers /\ activePeers' \subseteq activePeers \union {p}
  <2>1. ASSUME NEW p, AddPeer(p)
        PROVE  \/ activePeers' = activePeers
               \/ Cardinality(activePeers) < MaxAccessPeers /\ activePeers' = activePeers \union {p}
    BY Zenon, <2>1 DEF AddPeer, CanAddPeer
  <2>2. ASSUME NEW p, RemovePeer(p) PROVE activePeers' \subseteq activePeers
    BY Zenon, <2>2 DEF RemovePeer
  <2>3. UserAccessTeardown => activePeers' = {}
    BY Zenon DEF UserAccessTeardown
  <2>4. ASSUME NEW t, NEW config, AddTunnel(t, config) PROVE activePeers' = activePeers
    BY Zenon, <2>4 DEF AddTunnel, accessVars
  <2>5. ASSUME NEW t, RemoveTunnel(t) PROVE activePeers' = activePeers
    BY Zenon, <2>5 DEF RemoveTunnel, accessVars
  <2>6. ASSUME NEW subnets, UpdateRoutes(subnets) PROVE activePeers' = activePeers
    BY Zenon, <2>6 DEF UpdateRoutes, accessVars
  <2>7. \/ Setup \/ Teardown \/ UserAccessSetup \/ SiteSetup \/ SiteTeardown
        \/ UNCHANGED <<kernel, leftovers, managerVars, accessVars, siteVars>>
        => activePeers' = activePeers
    BY ZenonT(30) DEF Setup, Teardown, UserAccessSetup, SiteSetup, SiteTeardown, accessVars
  <2> QED BY Zenon, <2>1, <2>2, <2>3, <2>4, <2>5, <2>6, <2>7, Operations
<1>3. \/ Up' \subseteq Up
      \/ \E t : Cardinality(Up) < MaxTunnels /\ Up' \subseteq Up \union {t}
  <2>1. ASSUME NEW t \in TunnelID, NEW config \in TunnelConfig, AddTunnel(t, config)
        PROVE  \/ Up' = Up
               \/ Cardinality(Up) < MaxTunnels /\ Up' \subseteq Up \union {t}
    <3>1. \/ activeTunnels' = activeTunnels
          \/ /\ ~ (Cardinality(Up) >= MaxTunnels)
             /\ \E c \in {config, Down} : activeTunnels' = [activeTunnels EXCEPT ![t] = c]
      BY ZenonT(30), <2>1 DEF AddTunnel
    <3>2. CASE activeTunnels' = activeTunnels
      BY Zenon, <3>2 DEF Up
    <3>3. CASE ~ (Cardinality(Up) >= MaxTunnels) /\ \E c \in {config, Down} : activeTunnels' = [activeTunnels EXCEPT ![t] = c]
      <4>1. Up' \subseteq Up \union {t}
        BY Zenon, <3>3 DEF Up, FlagsInv
      <4>2. Cardinality(Up) \in Nat
        BY Zenon, FS_CardinalityType DEF LimitInv
      <4>3. Cardinality(Up) < MaxTunnels
        BY <1>1, <3>3, <4>2
      <4> QED BY Zenon, <4>1, <4>3
    <3> QED BY Zenon, <3>1, <3>2, <3>3
  <2>2. ASSUME NEW t \in TunnelID, RemoveTunnel(t) PROVE Up' \subseteq Up
    <3>1. activeTunnels' = [activeTunnels EXCEPT ![t] = Down] \/ activeTunnels' = activeTunnels
      BY Zenon, <2>2 DEF RemoveTunnel
    <3> QED BY Zenon, <3>1 DEF Up, FlagsInv
  <2>3. SiteTeardown => Up' \subseteq Up
    BY Zenon DEF SiteTeardown, Up
  <2>4. ASSUME NEW p, AddPeer(p) \/ RemovePeer(p) PROVE Up' = Up
    BY Zenon, <2>4 DEF AddPeer, RemovePeer, siteVars, Up
  <2>5. ASSUME NEW subnets, UpdateRoutes(subnets) PROVE Up' = Up
    BY Zenon, <2>5 DEF UpdateRoutes, siteVars, Up
  <2>6. \/ Setup \/ Teardown \/ UserAccessSetup \/ UserAccessTeardown \/ SiteSetup
        \/ UNCHANGED <<kernel, leftovers, managerVars, accessVars, siteVars>>
        => Up' = Up
    BY ZenonT(30) DEF Setup, Teardown, UserAccessSetup, UserAccessTeardown, SiteSetup, siteVars, Up
  <2> QED BY Zenon, <2>1, <2>2, <2>3, <2>4, <2>5, <2>6, Operations
<1>4. IsFiniteSet(activePeers') /\ Cardinality(activePeers') <= MaxAccessPeers
  BY Zenon, <1>1, <1>2, Smaller, OneMore DEF LimitInv, LimitsHold
<1>5. IsFiniteSet(Up') /\ Cardinality(Up') <= MaxTunnels
  BY ZenonT(30), <1>1, <1>3, Smaller, OneMore DEF LimitInv, LimitsHold
<1> QED BY Zenon, <1>4, <1>5 DEF LimitInv, LimitsHold

LEMMA Disturbed ==
    ASSUME CycleInv, Disturb
    PROVE  CycleInv'
<1>1. CASE cycle.of = "none"
  BY Zenon, <1>1 DEF Disturb, CycleInv
<1>2. CASE cycle.of # "none"
  <2>1. /\ cycle'.of = cycle.of /\ cycle'.want = cycle.want /\ cycle'.remove = cycle.remove
        /\ cycle'.add = cycle.add /\ ~cycle'.clean
    BY Zenon, <1>2 DEF Disturb, Goes
  <2> QED BY Zenon, <2>1 DEF CycleInv
<1> QED BY Zenon, <1>1, <1>2

LEMMA Went ==
    ASSUME NEW remove, NEW add, NEW clean, cycle' = Goes(remove, add, clean)
    PROVE  /\ cycle'.of = cycle.of /\ cycle'.want = cycle.want /\ cycle'.remove = remove
           /\ cycle'.add = add /\ (cycle'.clean => cycle.clean /\ clean)
BY ZenonT(30) DEF Goes

LEMMA PeersCycled ==
    ASSUME CycleInv, CyclePeers
    PROVE  CycleInv'
<1>1. cycle.of = "users"
  BY Zenon DEF CyclePeers
<1>2. ASSUME NEW p \in cycle.remove, RemovePeer(p), cycle' = Visited(p, p \notin activePeers')
      PROVE  CycleInv'
  <2>1. /\ cycle'.of = "users" /\ cycle'.want = cycle.want /\ cycle'.remove = cycle.remove \ {p}
        /\ cycle'.add = cycle.add /\ (cycle'.clean => cycle.clean /\ p \notin activePeers')
    BY ZenonT(30), <1>1, <1>2, Went DEF Visited
  <2>2. activePeers' = activePeers \/ activePeers' = activePeers \ {p}
    <3>1. PICK R : activePeers' = IF R = {} THEN activePeers \ {p} ELSE activePeers
      BY ZenonT(30), <1>2 DEF RemovePeer
    <3> QED BY ZenonT(30), <3>1
  <2>3. cycle'.clean => activePeers' = (cycle'.want \ cycle'.add) \union cycle'.remove
    BY ZenonT(30), <1>1, <1>2, <2>1, <2>2 DEF CycleInv
  <2>4. cycle'.clean => cycle'.remove \intersect cycle'.want = {} /\ cycle'.add \subseteq cycle'.want
    BY Zenon, <1>1, <2>1 DEF CycleInv
  <2> QED BY Zenon, <2>1, <2>3, <2>4 DEF CycleInv
<1>3. ASSUME NEW p \in cycle.add, AddPeer(p), cycle' = Added(p, p \in activePeers')
      PROVE  CycleInv'
  <2>1. /\ cycle'.of = "users" /\ cycle'.want = cycle.want /\ cycle'.remove = cycle.remove
        /\ cycle'.add = cycle.add \ {p} /\ (cycle'.clean => cycle.clean /\ p \in activePeers')
    BY ZenonT(30), <1>1, <1>3 DEF Added, Goes
  <2>2. activePeers' = activePeers \/ activePeers' = activePeers \union {p}
    BY ZenonT(30), <1>3 DEF AddPeer
  <2>3. ASSUME cycle'.clean PROVE activePeers' = (cycle'.want \ cycle'.add) \union cycle'.remove
    <3>1. activePeers = (cycle.want \ cycle.add) \union cycle.remove /\ cycle.add \subseteq cycle.want
      BY ZenonT(30), <1>1, <2>1, <2>3 DEF CycleInv
    <3>2. activePeers' = activePeers \union {p}
      BY Zenon, <2>1, <2>2, <2>3
    <3> QED BY Zenon, <1>3, <2>1, <3>1, <3>2
  <2>4. cycle'.clean => cycle'.remove \intersect cycle'.want = {} /\ cycle'.add \subseteq cycle'.want
    BY Zenon, <1>1, <2>1 DEF CycleInv
  <2> QED BY ZenonT(30), <2>1, <2>3, <2>4 DEF CycleInv
<1> QED BY Zenon, <1>2, <1>3 DEF CyclePeers

LEMMA TunnelsCycled ==
    ASSUME FlagsInv, CycleInv, CycleTunnels
    PROVE  CycleInv'
<1>1. /\ cycle.of = "tunnels"
      /\ cycle.want \in [TunnelID -> TunnelConfig \union {Down}]
      /\ cycle.remove \subseteq TunnelID
      /\ cycle.add \subseteq {t \in TunnelID : cycle.want[t] # Down}
  BY ZenonT(30) DEF CycleTunnels, CycleInv
<1>2. ASSUME NEW t \in cycle.remove, Restart(t), RemoveTunnel(t),
             cycle' = Goes(cycle.remove \ {t},
                           IF cycle.want[t] = Down THEN cycle.add ELSE cycle.add \union {t}, TRUE)
      PROVE  CycleInv'
  <2>1. /\ cycle'.of = "tunnels" /\ cycle'.want = cycle.want /\ cycle'.remove = cycle.remove \ {t}
        /\ cycle'.add = IF cycle.want[t] = Down THEN cycle.add ELSE cycle.add \union {t}
        /\ (cycle'.clean => cycle.clean)
    BY ZenonT(30), <1>1, <1>2, Went
  <2>2. siteToSite' = siteToSite /\ (siteToSite => activeTunnels' = [activeTunnels EXCEPT ![t] = Down])
    BY ZenonT(30), <1>2 DEF RemoveTunnel
  <2>3. cycle'.add \subseteq {r \in TunnelID : cycle.want[r] # Down}
    BY ZenonT(30), <1>1, <1>2, <2>1
  <2>4. ASSUME cycle'.clean, siteToSite, NEW r \in TunnelID
        PROVE  /\ r \in cycle'.remove => activeTunnels'[r] # Down /\ r \notin cycle'.add
               /\ r \in cycle'.add => activeTunnels'[r] = Down
               /\ r \notin cycle'.remove \union cycle'.add => activeTunnels'[r] = cycle.want[r]
    <3>1. /\ r \in cycle.remove => activeTunnels[r] # Down /\ r \notin cycle.add
          /\ r \in cycle.add => activeTunnels[r] = Down
          /\ r \notin cycle.remove \union cycle.add => activeTunnels[r] = cycle.want[r]
      BY Zenon, <1>1, <2>1, <2>4 DEF CycleInv
    <3>2. activeTunnels'[r] = IF r = t THEN Down ELSE activeTunnels[r]
      BY Zenon, <2>2, <2>4 DEF FlagsInv
    <3>3. CASE r = t
      BY ZenonT(30), <1>2, <2>1, <3>1, <3>2, <3>3
    <3>4. CASE r # t
      BY Zenon, <1>2, <2>1, <3>1, <3>2, <3>4
    <3> QED BY Zenon, <3>3, <3>4
  <2> QED BY ZenonT(30), <1>1, <2>1, <2>2, <2>3, <2>4 DEF CycleInv
<1>3. ASSUME NEW t \in cycle.remove, ~Restart(t), cycle' = Visited(t, TRUE), UNCHANGED siteVars
      PROVE  CycleInv'
  <2>1. /\ cycle'.of = "tunnels" /\ cycle'.want = cycle.want /\ cycle'.remove = cycle.remove \ {t}
        /\ cycle'.add = cycle.add /\ (cycle'.clean => cycle.clean)
    BY ZenonT(30), <1>1, <1>3, Went DEF Visited
  <2>2. activeTunnels[t] \in {Down, cycle.want[t]}
    BY Zenon, <1>3 DEF Restart
  <2> QED BY ZenonT(30), <1>1, <1>3, <2>1, <2>2 DEF CycleInv, siteVars
<1>4. ASSUME NEW t \in cycle.add, AddTunnel(t, cycle.want[t]),
             cycle' = Added(t, activeTunnels'[t] = cycle.want[t])
      PROVE  CycleInv'
  <2>1. /\ cycle'.of = "tunnels" /\ cycle'.want = cycle.want /\ cycle'.remove = cycle.remove
        /\ cycle'.add = cycle.add \ {t}
        /\ (cycle'.clean => cycle.clean /\ activeTunnels'[t] = cycle.want[t])
    BY ZenonT(30), <1>1, <1>4, Went DEF Added
  <2>2. /\ siteToSite' = siteToSite
        /\ \/ activeTunnels' = activeTunnels
           \/ \E c \in {cycle.want[t], Down} : activeTunnels' = [activeTunnels EXCEPT ![t] = c]
    <3> DEFINE w == cycle.want[t]
    <3>1. AddTunnel(t, w)
      BY Zenon, <1>4
    <3> HIDE DEF w
    <3>2. /\ siteToSite' = siteToSite
          /\ \/ activeTunnels' = activeTunnels
             \/ \E c \in {w, Down} : activeTunnels' = [activeTunnels EXCEPT ![t] = c]
      BY ZenonT(30), <3>1 DEF AddTunnel
    <3> QED BY Zenon, <3>2 DEF w
  <2>3. \A r \in TunnelID : r # t => activeTunnels'[r] = activeTunnels[r]
    BY Zenon, <1>1, <2>2 DEF FlagsInv
  <2>4. ASSUME cycle'.clean, siteToSite, NEW r \in TunnelID
        PROVE  /\ r \in cycle'.remove => activeTunnels'[r] # Down /\ r \notin cycle'.add
               /\ r \in cycle'.add => activeTunnels'[r] = Down
               /\ r \notin cycle'.remove \union cycle'.add => activeTunnels'[r] = cycle.want[r]
    <3>1. /\ r \in cycle.remove => activeTunnels[r] # Down /\ r \notin cycle.add
          /\ r \in cycle.add => activeTunnels[r] = Down
          /\ r \notin cycle.remove \union cycle.add => activeTunnels[r] = cycle.want[r]
      BY Zenon, <1>1, <2>1, <2>4 DEF CycleInv
    <3>2. CASE r = t
      BY ZenonT(30), <1>4, <2>1, <2>4, <3>1, <3>2
    <3>3. CASE r # t
      BY Zenon, <2>1, <2>3, <3>1, <3>3
    <3> QED BY Zenon, <3>2, <3>3
  <2> QED BY ZenonT(30), <1>1, <2>1, <2>2, <2>4 DEF CycleInv
<1> QED BY ZenonT(30), <1>2, <1>3, <1>4 DEF CycleTunnels

LEMMA CycleStep ==
    ASSUME FlagsInv, CycleInv, [RoutingNext]_routingVars
    PROVE  CycleInv'
<1>1. CASE Disturb
  BY Zenon, <1>1, Disturbed
<1>2. CASE PlanPeers
  <2>1. PICK want \in SUBSET UserKey : Plan("users", want, activePeers \ want, want \ activePeers)
    BY ZenonT(30), <1>2 DEF PlanPeers
  <2>2. /\ cycle'.of = "users" /\ cycle'.want = want /\ cycle'.remove = activePeers \ want
        /\ cycle'.add = want \ activePeers /\ activePeers' = activePeers
    BY Zenon, <2>1 DEF Plan, accessVars
  <2> QED BY Zenon, <2>2 DEF CycleInv
<1>3. CASE PlanTunnels
  <2>1. PICK want \in [TunnelID -> TunnelConfig \union {Down}] :
          Plan("tunnels", want, Up, {t \in TunnelID : want[t] # Down} \ Up)
    BY ZenonT(30), <1>3 DEF PlanTunnels
  <2>2. /\ cycle'.of = "tunnels" /\ cycle'.want = want /\ cycle'.remove = Up
        /\ cycle'.add = {t \in TunnelID : want[t] # Down} \ Up
        /\ activeTunnels' = activeTunnels /\ siteToSite' = siteToSite
    BY Zenon, <2>1 DEF Plan, siteVars
  <2>3. ASSUME NEW t \in TunnelID
        PROVE  /\ t \in cycle'.remove => activeTunnels'[t] # Down /\ t \notin cycle'.add
               /\ t \in cycle'.add => activeTunnels'[t] = Down
               /\ t \notin cycle'.remove \union cycle'.add => activeTunnels'[t] = want[t]
    BY Zenon, <2>2 DEF Up
  <2>4. cycle'.remove \subseteq TunnelID /\ cycle'.add \subseteq {t \in TunnelID : want[t] # Down}
    BY Zenon, <2>2 DEF Up
  <2> QED BY ZenonT(30), <2>2, <2>3, <2>4 DEF CycleInv
<1>4. CASE CyclePeers
  BY Zenon, <1>4, PeersCycled
<1>5. CASE CycleTunnels
  BY Zenon, <1>5, TunnelsCycled
<1>6. CASE CycleEnds
  BY Zenon, <1>6 DEF CycleEnds, NoCycle, CycleInv
<1>7. CASE UNCHANGED routingVars
  BY Zenon, <1>7 DEF routingVars, accessVars, siteVars, CycleInv
<1> QED
  BY ZenonT(30), <1>1, <1>2, <1>3, <1>4, <1>5, <1>6, <1>7
     DEF RoutingNext, Setup, Teardown, UpdateRoutes, UserAccessSetup, UserAccessTeardown,
         PeerEvent, SiteSetup, SiteTeardown, TunnelEvent

LEMMA RoutingInitially == RoutingInit => RoutingInv
<1> SUFFICES ASSUME RoutingInit PROVE RoutingInv
  BY Zenon
<1>1. Up = {} /\ activePeers = {} /\ kernel = {}
  BY Zenon DEF RoutingInit, Up
<1>2. Tracked = {}
  <2>1. bridge.nat = FALSE /\ bridge.active = FALSE /\ access = FALSE /\ activeRoutes = {}
    BY Zenon DEF RoutingInit
  <2> QED BY Zenon, <1>1, <2>1 DEF Tracked
<1>3. BooksInv
  <2>1. NothingLeaks /\ TrackedIsInstalled /\ PeersOnLink(kernel)
    BY Zenon, <1>1, <1>2 DEF NothingLeaks, TrackedIsInstalled, PeersOnLink
  <2>2. FlagsInv
    BY ZenonT(30) DEF RoutingInit, FlagsInv
  <2> QED BY Zenon, <2>1, <2>2 DEF BooksInv, FlagsInv
<1>4. LimitInv
  BY SMTT(30), <1>1, FS_EmptySet, BridgeAssumption DEF LimitInv, LimitsHold
<1>5. CycleInv
  BY Zenon DEF RoutingInit, NoCycle, CycleInv
<1> QED BY Zenon, <1>3, <1>4, <1>5 DEF RoutingInv

THEOREM RoutingInvariant == RoutingSpec => []RoutingInv
<1>1. RoutingInv /\ [RoutingNext]_routingVars => RoutingInv'
  <2>1. BooksInv => FlagsInv
    BY Zenon DEF BooksInv, FlagsInv
  <2> QED BY Zenon, <2>1, BooksStep, LimitsStep, CycleStep DEF RoutingInv
<1> QED BY <1>1, RoutingInitially, PTL DEF RoutingSpec

\* manager.go, user_access.go, site_to_site.go: whichever kernel calls of set-ups,
\* roll-backs, updates and teardowns fail, what is in the kernel is tracked or
\* left over from a failed call, what is tracked is in the kernel, and the
\* limits on peers and tunnels hold.
THEOREM KernelAlwaysAgrees == RoutingSpec => []KernelAgrees
<1>1. RoutingInv => KernelAgrees
  BY Zenon DEF RoutingInv, BooksInv, LimitInv, KernelAgrees
<1> QED BY <1>1, RoutingInvariant, PTL

\* A reconcile handler of user access or site-to-site that nothing disturbed
\* leaves exactly the desired peers or tunnels.
THEOREM HandlersReachDesired == RoutingSpec => []CycleExact
<1>1. RoutingInv => CycleExact
  <2> SUFFICES ASSUME RoutingInv, cycle.of # "none", cycle.remove = {}, cycle.add = {}, cycle.clean
               PROVE  IF cycle.of = "users" THEN activePeers = cycle.want
                      ELSE siteToSite => activeTunnels = cycle.want
    BY ZenonT(30) DEF CycleExact
  <2>1. CASE cycle.of = "users"
    BY Zenon, <2>1 DEF RoutingInv, CycleInv
  <2>2. CASE cycle.of = "tunnels" /\ siteToSite
    <3>1. /\ cycle.want \in [TunnelID -> TunnelConfig \union {Down}]
          /\ activeTunnels \in [TunnelID -> TunnelConfig \union {Down}]
      BY Zenon, <2>2 DEF RoutingInv, CycleInv, BooksInv
    <3>2. \A t \in TunnelID : activeTunnels[t] = cycle.want[t]
      BY Zenon, <2>2 DEF RoutingInv, CycleInv
    <3>3. activeTunnels = cycle.want
      BY <3>1, <3>2
    <3> QED BY Zenon, <2>2, <3>3
  <2> QED BY ZenonT(30), <2>1, <2>2 DEF RoutingInv, CycleInv
<1> QED BY <1>1, RoutingInvariant, PTL

=============================================================================
