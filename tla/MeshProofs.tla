----------------------------- MODULE MeshProofs -----------------------------
(***************************************************************************)
(* What the WireGuard handler and the policy handler make of the peers and *)
(* of the packet filter, each registered on its own: for any sets of       *)
(* peers, configurations and policies, any number of changes and faults,   *)
(* and every order of the Manager calls.                                   *)
(***************************************************************************)
EXTENDS ReconcilerProofs

----------------------------------------------------------------------------
(* The WireGuard handler on its own: each peer is as in the snapshot until  *)
(* its call is made, and as in the desired state from then on.              *)

\* The calls the loop still has to make.
Left == Range(Mine.todo)

\* Peer p is in the index and in the kernel as the table has it.
Settled(p, table, idx, dev) ==
    /\ p \in DOMAIN idx <=> p \in DOMAIN table
    /\ p \in DOMAIN table =>
         /\ idx[p] = PublicKey(p, table[p])
         /\ idx[p] \in DOMAIN dev
         /\ dev[idx[p]] = table[p].endpoint

\* The kernel was called for c, the index is still to follow.
HalfDone(c) == Mine.stage = "index" /\ c.id = Head(Mine.todo).id

BetweenCycles == pc \in {"select", "fetch"} \/ (pc = "handlers" /\ ~ Running)

InstallingPeers ==
    /\ ~ Mine.failed
    /\ OnePerPeer(Mine.todo)
    /\ \A c \in Left :
         /\ c.kind = "RemovePeerByID" => c.id \in DOMAIN snapshot.peers \ DOMAIN desired.peers
         /\ c.kind # "RemovePeerByID" =>
              c.id \in DOMAIN desired.peers /\ c.cfg = desired.peers[c.id]
         /\ ~ HalfDone(c) => Settled(c.id, snapshot.peers, index, device)
    /\ \A p \in PeerID : (\A c \in Left : c.id # p) => Settled(p, desired.peers, index, device)
    /\ Mine.stage = "index" /\ Head(Mine.todo).kind # "RemovePeerByID" =>
         /\ Mine.key = PublicKey(Head(Mine.todo).id, Head(Mine.todo).cfg)
         /\ Mine.key \in DOMAIN device
         /\ device[Mine.key] = Head(Mine.todo).cfg.endpoint

PeersFollow ==
    /\ Undisturbed
    /\ ~ handlerFailed
    /\ BetweenCycles => \A p \in PeerID : Settled(p, snapshot.peers, index, device)
    /\ Running => InstallingPeers
    /\ pc = "report" => \A p \in PeerID : Settled(p, desired.peers, index, device)

PeersInv == MeshTypeInv /\ ({"events", "failing"} \cap env = {} => PeersFollow)

\* With one handler registered, invokeHandlers calls it and reports.
LEMMA OneHandler ==
    ASSUME NEW h, Handlers = <<h>>, LoopOK
    PROVE  /\ pc = "handlers" => next = 1 /\ Handler = h
           /\ \A ok : HandlerReturns(ok) => pc' = "report"
           /\ Fetch => pc' = "select" \/ (pc' = "handlers" /\ next' = 1)
<1>1. HandlerIdx = {1} /\ Handlers[1] = h
  BY DEF HandlerIdx
<1>2. pc = "handlers" => next = 1
  BY Zenon, <1>1 DEF LoopOK, NextInRange
<1>3. HandlerPc(1) = "handlers" /\ HandlerPc(1 + 1) = "report"
  BY <1>1 DEF HandlerPc
<1>4. \A ok : HandlerReturns(ok) => pc' = "report"
  BY Zenon, <1>2, <1>3 DEF HandlerReturns
<1>5. Fetch => pc' = "select" \/ (pc' = "handlers" /\ next' = 1)
  BY Zenon, <1>3 DEF Fetch, BeginHandlers
<1> QED BY Zenon, <1>1, <1>2, <1>4, <1>5 DEF Handler

\* A peer whose index entry and device entry are not touched stays settled.
LEMMA StaysSettled ==
    ASSUME NEW p, NEW table, NEW i, NEW d, NEW j, NEW e, Settled(p, table, i, d),
           p \in DOMAIN i <=> p \in DOMAIN j,
           p \in DOMAIN i => j[p] = i[p],
           p \in DOMAIN i /\ i[p] \in DOMAIN d => i[p] \in DOMAIN e /\ e[i[p]] = d[i[p]]
    PROVE  Settled(p, table, j, e)
BY Zenon DEF Settled

\* The WireGuard handler's list leaves out exactly the peers that are the same
\* in the snapshot and in the desired state.
LEMMA WireGuardStarts ==
    ASSUME MeshTypeInv, PeersFollow, Handlers = <<"wireguard">>, WireGuardHandler
    PROVE  InstallingPeers' /\ Running' /\ UNCHANGED <<pc, desired, snapshot, handlerFailed>>
<1>1. PICK rs \in Orders(RemoveCalls(diff.peersToRemove)),
           us \in Orders(PutCalls("UpdatePeer", diff.peersToUpdate)),
           as \in Orders(PutCalls("AddPeer", diff.peersToAdd)) :
           Start(rs \o us \o as, FALSE)
  BY Zenon DEF WireGuardHandler
<1> DEFINE todo == rs \o us \o as
           f == desired.peers
           g == snapshot.peers
<1>2. pc = "handlers" /\ ~ Running
      /\ UNCHANGED <<pc, desired, snapshot, handlerFailed, index, device>>
  BY Zenon DEF WireGuardHandler, vars, cycle
<1>3. LoopOK /\ CallsOK
  BY Zenon DEF MeshTypeInv
<1>4. /\ todo \in Seq(ManagerCall) /\ OnePerPeer(todo)
      /\ Range(todo) = RemoveCalls(diff.peersToRemove)
             \cup PutCalls("UpdatePeer", diff.peersToUpdate)
             \cup PutCalls("AddPeer", diff.peersToAdd)
  BY Zenon, <1>2, <1>3, WireGuardList
<1>5. /\ diff.peersToRemove = Removed(f, g)
      /\ diff.peersToUpdate = PeersToUpdate(f, g)
      /\ diff.peersToAdd = Added(f, g)
  BY Zenon, <1>2, <1>3, DiffParts
<1> HIDE DEF todo, f, g
<1>6. Running' /\ Mine'.todo = todo /\ Mine'.failed = FALSE /\ Mine'.stage = "start"
  BY Zenon, <1>1, <1>2, <1>4, StartTypes DEF Mine, todo
<1>7. \A c \in Range(todo) :
        /\ c.kind = "RemovePeerByID" => c.id \in DOMAIN g \ DOMAIN f
        /\ c.kind # "RemovePeerByID" => c.id \in DOMAIN f /\ c.cfg = f[c.id]
  <2>1. \A c \in RemoveCalls(diff.peersToRemove) :
          c.kind = "RemovePeerByID" /\ c.id \in DOMAIN g \ DOMAIN f
    BY <1>5 DEF RemoveCalls, Call, Removed
  <2>2. \A c \in PutCalls("UpdatePeer", diff.peersToUpdate) :
          c.kind # "RemovePeerByID" /\ c.id \in DOMAIN f /\ c.cfg = f[c.id]
    BY <1>5 DEF PutCalls, Call, PeersToUpdate
  <2>3. \A c \in PutCalls("AddPeer", diff.peersToAdd) :
          c.kind # "RemovePeerByID" /\ c.id \in DOMAIN f /\ c.cfg = f[c.id]
    BY <1>5 DEF PutCalls, Call, Added
  <2> QED BY Zenon, <1>4, <2>1, <2>2, <2>3
<1>8. \A p \in PeerID : Settled(p, g, index, device)
  BY Zenon, <1>2 DEF PeersFollow, BetweenCycles, g
<1>9. ASSUME NEW p \in PeerID, \A c \in Range(todo) : c.id # p
      PROVE  Settled(p, f, index, device)
  <2>1. p \notin diff.peersToRemove
    <3>1. ASSUME p \in diff.peersToRemove PROVE FALSE
      <4>1. Call("RemovePeerByID", p, NoCfg) \in Range(todo)
        BY Zenon, <1>4, <3>1 DEF RemoveCalls
      <4> QED BY Zenon, <1>9, <4>1 DEF Call
    <3> QED BY Zenon, <3>1
  <2>2. p \notin DOMAIN diff.peersToUpdate
    <3>1. ASSUME p \in DOMAIN diff.peersToUpdate PROVE FALSE
      <4>1. Call("UpdatePeer", p, diff.peersToUpdate[p]) \in Range(todo)
        BY Zenon, <1>4, <3>1 DEF PutCalls
      <4> QED BY Zenon, <1>9, <4>1 DEF Call
    <3> QED BY Zenon, <3>1
  <2>3. p \notin DOMAIN diff.peersToAdd
    <3>1. ASSUME p \in DOMAIN diff.peersToAdd PROVE FALSE
      <4>1. Call("AddPeer", p, diff.peersToAdd[p]) \in Range(todo)
        BY Zenon, <1>4, <3>1 DEF PutCalls
      <4> QED BY Zenon, <1>9, <4>1 DEF Call
    <3> QED BY Zenon, <3>1
  <2>4. (p \in DOMAIN f <=> p \in DOMAIN g) /\ (p \in DOMAIN f => f[p] = g[p])
    BY Zenon, <1>5, <2>1, <2>2, <2>3 DEF Removed, Added, PeersToUpdate
  <2> QED BY Zenon, <1>8, <2>4 DEF Settled
<1>10. \A c \in Range(todo) : c.id \in PeerID
  BY <1>4 DEF Range, ManagerCall
<1>11. InstallingPeers'
  <2>1. Left' = Range(todo) /\ OnePerPeer(Mine'.todo)
    BY Zenon, <1>4, <1>6 DEF Left
  <2>2. \A c \in Range(todo) : Settled(c.id, g, index, device)
    BY Zenon, <1>8, <1>10
  <2>3. f = desired'.peers /\ g = snapshot'.peers
    BY Zenon, <1>2 DEF f, g
  <2> QED BY Zenon, <1>2, <1>6, <1>7, <1>9, <2>1, <2>2, <2>3 DEF InstallingPeers
<1> QED BY Zenon, <1>2, <1>6, <1>11

\* A Manager call of the handler only touches its own peer, and settles it.
LEMMA InstallStep ==
    ASSUME MeshTypeInv, InstallingPeers, "failing" \notin env, ManagerStep("reconcile"),
           UNCHANGED <<desired, snapshot>>
    PROVE  InstallingPeers'
<1> DEFINE h == Head(Mine.todo)
           f == desired.peers
           g == snapshot.peers
<1>0. /\ Mine.todo # <<>> /\ Mine \in CallState /\ CallOK(Mine) /\ h.id \in PeerID
      /\ h.kind \in PutKind \/ h.kind = "RemovePeerByID"
      /\ Mine.todo \in Seq(ManagerCall)
  BY Zenon, ManagerCases DEF CallState
<1>1. /\ h \in Left /\ OnePerPeer(Mine.todo) /\ ~ Mine.failed
      /\ OnePerPeer(Tail(Mine.todo))
      /\ Range(Tail(Mine.todo)) = {c \in Left : c.id # h.id}
  BY Zenon, <1>0, Rest DEF InstallingPeers, Left
<1>2. /\ \A p \in DOMAIN index : index[p][1] = p
      /\ f' = f /\ g' = g
  BY Zenon DEF MeshTypeInv, TablesOK
<1>3. \A c \in Left :
        /\ c.kind = "RemovePeerByID" => c.id \in DOMAIN g \ DOMAIN f
        /\ c.kind # "RemovePeerByID" => c.id \in DOMAIN f /\ c.cfg = f[c.id]
        /\ ~ HalfDone(c) => Settled(c.id, g, index, device)
  BY Zenon DEF InstallingPeers
<1>4. \A p \in PeerID : (\A c \in Left : c.id # p) => Settled(p, f, index, device)
  BY Zenon DEF InstallingPeers
<1> HIDE DEF h, f, g
<1>5. \A c \in Left : c.id # h.id => ~ HalfDone(c)
  BY Zenon DEF HalfDone, h
\* What is to show of a step within the call, and of its last one.
<1>6. ASSUME Mine'.todo = Mine.todo, Mine'.failed = Mine.failed, index' = index,
             Mine'.stage = "index" \/ device' = device,
             \A k \in DOMAIN device : k[1] # h.id => k \in DOMAIN device' /\ device'[k] = device[k],
             Mine'.stage # "index" => Mine.stage # "index",
             Mine'.stage = "index" /\ h.kind # "RemovePeerByID" =>
               /\ Mine'.key = PublicKey(h.id, h.cfg) /\ Mine'.key \in DOMAIN device'
               /\ device'[Mine'.key] = h.cfg.endpoint
      PROVE  InstallingPeers'
  <2>1. ASSUME NEW p, NEW table, p # h.id, Settled(p, table, index, device)
        PROVE  Settled(p, table, index', device')
    BY Zenon, <1>2, <1>6, <2>1, StaysSettled
  <2>2. Left' = Left /\ Head(Mine'.todo) = h
    BY Zenon, <1>6 DEF Left, h
  <2>3. ASSUME NEW c \in Left, ~ HalfDone(c)' PROVE Settled(c.id, g, index', device')
    <3>1. CASE c.id # h.id
      BY Zenon, <1>3, <1>5, <2>1, <3>1
    <3>2. CASE c.id = h.id
      <4>1. Mine'.stage # "index"
        BY Zenon, <2>2, <2>3, <3>2 DEF HalfDone
      <4>2. ~ HalfDone(c) /\ device' = device
        BY Zenon, <1>6, <4>1 DEF HalfDone
      <4> QED BY Zenon, <1>3, <1>6, <4>2
    <3> QED BY Zenon, <3>1, <3>2
  <2>4. ASSUME NEW p \in PeerID, \A c \in Left : c.id # p PROVE Settled(p, f, index', device')
    BY Zenon, <1>1, <1>4, <2>1, <2>4
  <2>5. desired'.peers = f /\ snapshot'.peers = g
    BY Zenon, <1>2 DEF f, g
  <2> QED BY ZenonT(30), <1>1, <1>3, <1>6, <2>2, <2>3, <2>4, <2>5 DEF InstallingPeers
<1>7. ASSUME Mine'.todo = Tail(Mine.todo), Mine'.failed = Mine.failed, Mine'.stage = "start",
             device' = device,
             \A p : p # h.id => (p \in DOMAIN index <=> p \in DOMAIN index'),
             \A p \in DOMAIN index : p # h.id => index'[p] = index[p],
             Settled(h.id, f, index', device')
      PROVE  InstallingPeers'
  <2>1. ASSUME NEW p, NEW table, p # h.id, Settled(p, table, index, device)
        PROVE  Settled(p, table, index', device')
    BY Zenon, <1>7, <2>1, StaysSettled
  <2>2. Left' = {c \in Left : c.id # h.id}
    BY Zenon, <1>1, <1>7 DEF Left
  <2>3. ASSUME NEW p \in PeerID, \A c \in Left' : c.id # p PROVE Settled(p, f, index', device')
    <3>1. CASE p = h.id
      BY Zenon, <1>7, <3>1
    <3>2. CASE p # h.id
      <4>1. \A c \in Left : c.id # p
        BY Zenon, <2>2, <2>3, <3>2
      <4> QED BY Zenon, <1>4, <2>1, <3>2, <4>1
    <3> QED BY Zenon, <3>1, <3>2
  <2>4. \A c \in Left' : Settled(c.id, g, index', device')
    BY ZenonT(30), <1>3, <1>5, <2>1, <2>2
  <2>5. desired'.peers = f /\ snapshot'.peers = g
    BY Zenon, <1>2 DEF f, g
  <2> QED BY ZenonT(30), <1>1, <1>3, <1>7, <2>2, <2>3, <2>4, <2>5 DEF InstallingPeers
<1>8. CASE LookUp("reconcile")
  <2>1. Mine.stage = "start" /\ h.kind = "RemovePeerByID" /\ UNCHANGED <<device, index>>
    BY Zenon, <1>8 DEF LookUp, Mine, Current, h
  <2>2. h.id \in DOMAIN index
    <3>1. ~ HalfDone(h)
      BY Zenon, <2>1 DEF HalfDone
    <3> QED BY Zenon, <1>1, <1>3, <2>1, <3>1 DEF Settled
  <2>3. Mine' = [Mine EXCEPT !.stage = "controller", !.key = index[h.id]]
    BY Zenon, <1>8, <2>2, MineReplaced DEF LookUp, Mine, Current, h
  <2>4. Mine'.stage = "controller" /\ Mine'.todo = Mine.todo /\ Mine'.failed = Mine.failed
    BY Zenon, <1>0, <2>3 DEF CallState
  <2> QED BY Zenon, <1>6, <2>1, <2>4
<1>9. CASE ControllerRemove("reconcile")
  <2>1. /\ Mine.stage = "controller" /\ h.kind = "RemovePeerByID"
        /\ device' = Drop(device, Mine.key) /\ index' = index
        /\ Mine' = [Mine EXCEPT !.stage = "index"]
    BY Zenon, <1>9, MineReplaced DEF ControllerRemove, Mine, Current, h
  <2>2. Mine'.stage = "index" /\ Mine'.todo = Mine.todo /\ Mine'.failed = Mine.failed
    BY Zenon, <1>0, <2>1 DEF CallState
  <2>3. Mine.key[1] = h.id
    BY Zenon, <1>0, <2>1 DEF CallOK, h
  <2>4. \A k \in DOMAIN device : k[1] # h.id => k \in DOMAIN device' /\ device'[k] = device[k]
    BY Zenon, <2>1, <2>3 DEF Drop
  <2> QED BY Zenon, <1>6, <2>1, <2>2, <2>4
<1>10. CASE ControllerPut("reconcile")
  <2> DEFINE k == PublicKey(h.id, h.cfg)
  <2>1. /\ Mine.stage = "start"
        /\ device' = Put(device, k, h.cfg.endpoint) /\ index' = index
        /\ call' = [call EXCEPT !["reconcile"] = [Mine EXCEPT !.stage = "index", !.key = k]]
    BY Zenon, <1>10 DEF ControllerPut, Mine, Current, h
  <2>2. Mine' = [Mine EXCEPT !.stage = "index", !.key = k]
    BY Zenon, <2>1, MineReplaced
  <2>3. /\ Mine'.stage = "index" /\ Mine'.key = k /\ Mine'.todo = Mine.todo
        /\ Mine'.failed = Mine.failed
    BY Zenon, <1>0, <2>2 DEF CallState
  <2>4. k[1] = h.id
    BY Zenon DEF PublicKey
  <2>5. /\ \A j \in DOMAIN device : j[1] # h.id => j \in DOMAIN device' /\ device'[j] = device[j]
        /\ k \in DOMAIN device' /\ device'[k] = h.cfg.endpoint
    BY Zenon, <2>1, <2>4 DEF Put
  <2> HIDE DEF k
  <2>6. k = PublicKey(h.id, h.cfg)
    BY Zenon DEF k
  <2> QED BY Zenon, <1>6, <2>1, <2>3, <2>5, <2>6
<1>11. CASE ControllerFails("reconcile")
  BY Zenon, <1>11 DEF ControllerFails, CallFails
<1>12. CASE UpdateIndex("reconcile")
  <2>1. /\ Mine.stage = "index" /\ device' = device
        /\ call' = [call EXCEPT !["reconcile"] = Returned("reconcile", TRUE)]
        /\ index' = IF h.kind = "RemovePeerByID" THEN Drop(index, h.id) ELSE Put(index, h.id, Mine.key)
    BY Zenon, <1>12 DEF UpdateIndex, Mine, Current, h
  <2>2. Mine'.todo = Tail(Mine.todo) /\ Mine'.stage = "start" /\ Mine'.failed = (Mine.failed \/ ~ TRUE)
    BY Zenon, <1>0, <2>1, MineReturned
  <2>3. Mine'.failed = Mine.failed
    BY Zenon, <1>0, <2>2 DEF CallState
  <2>4. CASE h.kind = "RemovePeerByID"
    <3>1. DOMAIN index' = DOMAIN index \ {h.id} /\ \A p \in DOMAIN index' : index'[p] = index[p]
      BY Zenon, <2>1, <2>4 DEF Drop
    <3>2. h.id \notin DOMAIN f
      BY Zenon, <1>1, <1>3, <2>4
    <3>3. Settled(h.id, f, index', device')
      BY Zenon, <3>1, <3>2 DEF Settled
    <3> QED BY Zenon, <1>7, <2>1, <2>2, <2>3, <3>1, <3>3
  <2>5. CASE h.kind # "RemovePeerByID"
    <3>1. DOMAIN index' = DOMAIN index \cup {h.id} /\ index'[h.id] = Mine.key
          /\ \A p \in DOMAIN index : p # h.id => index'[p] = index[p]
      BY Zenon, <2>1, <2>5 DEF Put
    <3>2. h.id \in DOMAIN f /\ h.cfg = f[h.id]
      BY Zenon, <1>1, <1>3, <2>5
    <3>3. Mine.key = PublicKey(h.id, h.cfg) /\ Mine.key \in DOMAIN device
          /\ device[Mine.key] = h.cfg.endpoint
      BY Zenon, <2>1, <2>5 DEF InstallingPeers, h
    <3>4. Settled(h.id, f, index', device')
      BY Zenon, <2>1, <3>1, <3>2, <3>3 DEF Settled
    <3> QED BY Zenon, <1>7, <2>1, <2>2, <2>3, <3>1, <3>4
  <2> QED BY Zenon, <2>4, <2>5
<1> QED BY Zenon, <1>8, <1>9, <1>10, <1>11, <1>12 DEF ManagerStep

LEMMA PeersInit == MeshInit => PeersInv
<1> SUFFICES ASSUME MeshInit, {"events", "failing"} \cap env = {} PROVE PeersFollow
  BY Zenon, MeshTypeInit DEF PeersInv
<1>1. Mine = Idle /\ call["sse"] = Idle
  BY Zenon DEF MeshInit, Mine, Goroutine
<1>2. Undisturbed /\ ~ Running
  BY <1>1 DEF MeshInit, Undisturbed, Running, Idle, Mine
<1>3. pc = "fetch" /\ ~ handlerFailed /\ snapshot.peers = NoEntries /\ index = NoEntries
  BY Zenon DEF MeshInit, Init, EmptyState
<1>4. \A p \in PeerID : Settled(p, snapshot.peers, index, device)
  BY Zenon, <1>3 DEF Settled, NoEntries
<1> QED BY Zenon, <1>2, <1>3, <1>4 DEF PeersFollow

LEMMA PeersStep ==
    ASSUME Handlers = <<"wireguard">>, PeersInv, [MeshNext]_meshVars
    PROVE  PeersInv'
<1>0. MeshTypeInv /\ MeshTypeInv' /\ LoopOK /\ HandlerOK
  BY Zenon, MeshTypeStep DEF PeersInv, MeshTypeInv
<1>1. env' = env
  BY Zenon, SameSurroundings
<1> SUFFICES ASSUME {"events", "failing"} \cap env = {} PROVE PeersFollow'
  BY Zenon, <1>0, <1>1 DEF PeersInv
<1>2. PeersFollow /\ Undisturbed /\ Undisturbed' /\ "failing" \notin env /\ ~ handlerFailed
  <2>1. PeersFollow
    BY Zenon DEF PeersInv
  <2> QED BY Zenon, <1>0, <2>1, UndisturbedStep DEF PeersFollow
<1>3. pc = "handlers" => next = 1 /\ Handler = "wireguard"
  BY Zenon, <1>0, OneHandler
<1>4. ASSUME UNCHANGED <<pc, desired, snapshot, handlerFailed, index, device, Mine>>
      PROVE  PeersFollow'
  BY Zenon, <1>2, <1>4 DEF PeersFollow, BetweenCycles, Running, InstallingPeers, HalfDone, Left, Mine
<1>5. CASE \/ \E p \in PeerID, c \in PeerCfg : AddOrChangePeer(p, c)
           \/ \E p \in PeerID : DeletePeer(p)
           \/ \E q \in PolicyID, r \in Rules : ChangePolicy(q, r)
           \/ \E q \in PolicyID : DeletePolicy(q)
           \/ \E m \in Metadata : ChangeMetadata(m)
  BY Zenon, <1>0, <1>4, <1>5, ChangesOK DEF ChangeState, cycle, Mine
<1>6. CASE DeliverEvent \/ LoseEvent
  BY Zenon, <1>2, <1>6 DEF DeliverEvent, LoseEvent, Undisturbed
<1>7. CASE (Tick \/ Fetch \/ ReportAndUpdate \/ FetchFails) /\ UNCHANGED mesh
  <2>1. UNCHANGED <<index, device, Mine, Running>>
    BY Zenon, <1>7 DEF mesh, Mine, Running
  <2>2. ~ Running
    BY Zenon, <1>0, <1>7 DEF HandlerOK, Tick, Fetch, ReportAndUpdate, FetchFails
  <2>3. CASE Tick \/ FetchFails
    <3>1. pc \in {"select", "fetch"} /\ pc' \in {"select", "fetch"} /\ UNCHANGED <<snapshot, handlerFailed>>
      BY Zenon, <2>3 DEF Tick, FetchFails, cycle
    <3> QED BY Zenon, <1>2, <2>1, <2>2, <3>1 DEF PeersFollow, BetweenCycles
  <2>4. CASE Fetch
    <3>1. pc = "fetch" /\ pc' \in {"select", "handlers"} /\ snapshot' = snapshot
      BY Zenon, <1>0, <2>4, OneHandler DEF Fetch
    <3>2. ~ handlerFailed'
      BY Zenon, <1>2, <2>4 DEF Fetch, cycle, BeginHandlers
    <3> QED BY Zenon, <1>2, <2>1, <2>2, <3>1, <3>2 DEF PeersFollow, BetweenCycles
  <2>5. CASE ReportAndUpdate
    <3>1. pc = "report" /\ pc' = "select" /\ snapshot' = Snapshot(desired) /\ ~ handlerFailed'
      BY Zenon, <1>2, <2>5 DEF ReportAndUpdate
    <3>2. snapshot'.peers = desired.peers
      BY Zenon, <1>0, <3>1 DEF Snapshot, LoopOK, TypeOK, StateResponse
    <3> QED BY Zenon, <1>2, <2>1, <2>2, <3>1, <3>2 DEF PeersFollow, BetweenCycles
  <2> QED BY Zenon, <1>7, <2>3, <2>4, <2>5
<1>8. CASE WireGuardHandler
  <2>1. InstallingPeers' /\ Running' /\ UNCHANGED <<pc, handlerFailed>> /\ pc = "handlers"
    BY Zenon, <1>0, <1>2, <1>8, WireGuardStarts DEF WireGuardHandler
  <2> QED BY Zenon, <1>2, <2>1 DEF PeersFollow, BetweenCycles
<1>9. CASE PolicyHandlerSkips \/ PolicyHandler
  BY Zenon, <1>3, <1>9 DEF PolicyHandlerSkips, PolicyHandler
<1>10. CASE HandlerDone
  <2>1. Running /\ Mine.todo = <<>> /\ HandlerReturns(~ Mine.failed)
        /\ UNCHANGED <<index, device>>
    BY Zenon, <1>10 DEF HandlerDone, Mine
  <2>2. InstallingPeers /\ ~ Mine.failed
    BY ZenonT(30), <1>2, <2>1 DEF PeersFollow, InstallingPeers
  <2>3. pc' = "report" /\ desired' = desired /\ ~ handlerFailed' /\ ~ Running'
    BY Zenon, <1>0, <1>2, <1>10, <2>1, <2>2, OneHandler, DoneTypes DEF HandlerReturns
  <2>4. Left = {}
    BY <2>1 DEF Left, Range
  <2>5. \A p \in PeerID : Settled(p, desired.peers, index, device)
    BY Zenon, <2>2, <2>4 DEF InstallingPeers
  <2> QED BY Zenon, <1>2, <2>1, <2>3, <2>5 DEF PeersFollow, BetweenCycles
<1>11. ASSUME NEW k \in Goroutine, ManagerStep(k) PROVE PeersFollow'
  <2>1. call[k].todo # <<>> /\ UNCHANGED <<pc, desired, snapshot, handlerFailed>>
    BY Zenon, <1>11 DEF ManagerStep, LookUp, ControllerRemove, ControllerPut, ControllerFails, UpdateIndex,
                 vars, cycle
  <2>2. k = "reconcile"
    BY Zenon, <1>2, <2>1 DEF Undisturbed, Goroutine
  <2>3. Running /\ pc = "handlers"
    BY Zenon, <1>0, <2>1, <2>2 DEF HandlerOK
  <2>4. InstallingPeers'
    BY Zenon, <1>0, <1>2, <1>11, <2>1, <2>2, <2>3, InstallStep DEF PeersFollow
  <2>5. Running'
    BY Zenon, <1>0, <1>11, <2>2, <2>3, ManagerTypes DEF ListKept, Running
  <2> QED BY Zenon, <1>2, <2>1, <2>3, <2>4, <2>5 DEF PeersFollow, BetweenCycles
<1>12. CASE UNCHANGED meshVars
  BY Zenon, <1>4, <1>12 DEF meshVars, mesh, vars, cycle, Mine
<1> QED BY Zenon, <1>5, <1>6, <1>7, <1>8, <1>9, <1>10, <1>11, <1>12 DEF MeshNext

\* With the WireGuard handler registered, the peers installed between cycles
\* are those of the snapshot, key and endpoint included, for any set of peers,
\* in every behaviour without SSE events and failing calls: every order of the
\* Manager calls of every diff leads there.
THEOREM PeersAlwaysMatch ==
    ASSUME Handlers = <<"wireguard">>
    PROVE  MeshSpec => []PeersMatchSnapshot
<1>1. PeersInv => PeersMatchSnapshot
  <2> SUFFICES ASSUME PeersInv, {"events", "failing"} \cap env = {}, pc \in {"select", "fetch"}
               PROVE  /\ DOMAIN index = DOMAIN snapshot.peers
                      /\ \A p \in DOMAIN index :
                            /\ index[p] = PublicKey(p, snapshot.peers[p])
                            /\ device[index[p]] = snapshot.peers[p].endpoint
    BY Zenon DEF PeersMatchSnapshot
  <2>1. \A p \in PeerID : Settled(p, snapshot.peers, index, device)
    BY ZenonT(30) DEF PeersInv, PeersFollow, BetweenCycles
  <2>2. index \in Partial(PeerID, PeerKey) /\ snapshot.peers \in Partial(PeerID, PeerCfg)
    BY Zenon DEF PeersInv, MeshTypeInv, TablesOK, LoopOK, TypeOK, StateResponse
  <2>3. DOMAIN index \subseteq PeerID /\ DOMAIN snapshot.peers \subseteq PeerID
    BY Zenon, <2>2, PartialFunction
  <2> QED BY Zenon, <2>1, <2>3 DEF Settled
<1>2. PeersInv /\ [MeshNext]_meshVars => PeersInv'
  BY Zenon, PeersStep
<1> QED BY <1>1, <1>2, PeersInit, PTL DEF MeshSpec

----------------------------------------------------------------------------
(* The policy handler on its own: a peer is in the index as the old allowed *)
(* set has it until its call is made, and as the new one from then on.     *)

\* The policies of s have the rules that belong to their IDs.
SamePolicies(s) == \A q \in DOMAIN s.policies : s.policies[q] = RulesOf[q]

FilteringPeers ==
    /\ ~ Mine.failed
    /\ firewall = desired.policies
    /\ OnePerPeer(Mine.todo)
    /\ \A c \in Left :
         /\ c.kind = "RemovePeerByID" => c.id \in DOMAIN index /\ c.id \notin NewAllowed
         /\ c.kind # "RemovePeerByID" => c.id \in NewAllowed
    /\ \A p \in PeerID : (\A c \in Left : c.id # p) => (p \in DOMAIN index <=> p \in NewAllowed)

AllowedFollow ==
    /\ ~ handlerFailed
    /\ SamePolicies(cp) /\ SamePolicies(desired) /\ SamePolicies(snapshot)
    /\ BetweenCycles =>
         /\ allowed = FilterPeers(snapshot.peers, snapshot.policies)
         /\ DOMAIN index = allowed
         /\ firewall = snapshot.policies
    /\ Running => FilteringPeers
    /\ pc = "report" =>
         /\ allowed = NewAllowed /\ DOMAIN index = NewAllowed
         /\ firewall = desired.policies

AllowedInv ==
    MeshTypeInv /\ Undisturbed /\ ({"failing", "rewriting"} \cap env = {} => AllowedFollow)

FirewallInv ==
    /\ Running /\ ~ Mine.failed => firewall = desired.policies
    /\ FirewallOfAcceptedState

LEMMA PolicyStarts ==
    ASSUME MeshTypeInv, AllowedFollow, "failing" \notin env, Handlers = <<"policy">>, PolicyHandler
    PROVE  FilteringPeers' /\ Running' /\ UNCHANGED <<pc, desired, snapshot, cp, handlerFailed>>
<1>0. LoopOK /\ TablesOK /\ CallsOK
  BY Zenon DEF MeshTypeInv
<1>1. PICK rs \in Orders(RemoveCalls(allowed \ NewAllowed)),
           as \in Orders(AddCalls(NewAllowed \ allowed)) :
           \/ firewall' = desired.policies /\ Start(rs \o as, FALSE) /\ UNCHANGED faults
           \/ CallFails /\ Start(rs \o as, TRUE) /\ UNCHANGED firewall
  BY Zenon DEF PolicyHandler, NewAllowed, AddCalls
<1> DEFINE todo == rs \o as
<1>2. firewall' = desired.policies /\ Start(todo, FALSE)
  BY Zenon, <1>1 DEF CallFails
<1>3. /\ pc = "handlers" /\ ~ Running
      /\ UNCHANGED <<pc, desired, snapshot, cp, handlerFailed, index>>
  BY Zenon DEF PolicyHandler, cycle
<1>4. /\ todo \in Seq(ManagerCall) /\ OnePerPeer(todo)
      /\ Range(todo) = RemoveCalls(allowed \ NewAllowed) \cup AddCalls(NewAllowed \ allowed)
  BY Zenon, <1>0, PolicyList
<1> HIDE DEF todo
<1>5. Running' /\ Mine'.todo = todo /\ Mine'.failed = FALSE /\ Mine'.stage = "start"
  BY Zenon, <1>2, <1>3, <1>4, StartTypes DEF Mine
<1>6. DOMAIN index = allowed
  BY Zenon, <1>3 DEF AllowedFollow, BetweenCycles
<1>7. /\ \A c \in RemoveCalls(allowed \ NewAllowed) :
           c.kind = "RemovePeerByID" /\ c.id \in allowed /\ c.id \notin NewAllowed
      /\ \A c \in AddCalls(NewAllowed \ allowed) : c.kind # "RemovePeerByID" /\ c.id \in NewAllowed
  BY DEF RemoveCalls, AddCalls, Call
<1>8. ASSUME NEW p \in PeerID, \A c \in Range(todo) : c.id # p
      PROVE  p \in allowed <=> p \in NewAllowed
  <2>1. ASSUME p \in allowed, p \notin NewAllowed PROVE FALSE
    <3>1. Call("RemovePeerByID", p, NoCfg) \in Range(todo)
      BY Zenon, <1>4, <2>1 DEF RemoveCalls
    <3> QED BY Zenon, <1>8, <3>1 DEF Call
  <2>2. ASSUME p \in NewAllowed, p \notin allowed PROVE FALSE
    <3>1. Call("AddPeer", p, desired.peers[p]) \in Range(todo)
      BY Zenon, <1>4, <2>2 DEF AddCalls
    <3> QED BY Zenon, <1>8, <3>1 DEF Call
  <2> QED BY Zenon, <2>1, <2>2
<1>9. Left' = Range(todo) /\ NewAllowed' = NewAllowed
  BY Zenon, <1>3, <1>5 DEF Left, NewAllowed
<1>10. FilteringPeers'
  BY Zenon, <1>2, <1>3, <1>4, <1>5, <1>6, <1>7, <1>8, <1>9 DEF FilteringPeers
<1> QED BY Zenon, <1>3, <1>5, <1>10

LEMMA FilterStep ==
    ASSUME MeshTypeInv, FilteringPeers, "failing" \notin env, ManagerStep("reconcile"),
           UNCHANGED desired
    PROVE  FilteringPeers'
<1> DEFINE h == Head(Mine.todo)
<1>0. /\ Mine.todo # <<>> /\ Mine \in CallState /\ CallOK(Mine) /\ h.id \in PeerID
      /\ h.kind \in PutKind \/ h.kind = "RemovePeerByID"
      /\ Mine.todo \in Seq(ManagerCall)
  BY Zenon, ManagerCases DEF CallState
<1>1. /\ h \in Left /\ OnePerPeer(Mine.todo) /\ ~ Mine.failed
      /\ OnePerPeer(Tail(Mine.todo))
      /\ Range(Tail(Mine.todo)) = {c \in Left : c.id # h.id}
  BY ZenonT(30), <1>0, Rest DEF FilteringPeers, Left
<1>2. NewAllowed' = NewAllowed /\ firewall = desired.policies
  BY Zenon DEF NewAllowed, FilteringPeers
<1>3. \A c \in Left :
        /\ c.kind = "RemovePeerByID" => c.id \in DOMAIN index /\ c.id \notin NewAllowed
        /\ c.kind # "RemovePeerByID" => c.id \in NewAllowed
  BY Zenon DEF FilteringPeers
<1>4. \A p \in PeerID : (\A c \in Left : c.id # p) => (p \in DOMAIN index <=> p \in NewAllowed)
  BY Zenon DEF FilteringPeers
<1> HIDE DEF h
<1>5. ASSUME Mine'.todo = Mine.todo, Mine'.failed = Mine.failed, index' = index, firewall' = firewall
      PROVE  FilteringPeers'
  <2>1. Left' = Left
    BY Zenon, <1>5 DEF Left
  <2> QED BY Zenon, <1>1, <1>2, <1>3, <1>4, <1>5, <2>1 DEF FilteringPeers
<1>6. CASE LookUp("reconcile")
  <2>1. h.kind = "RemovePeerByID" /\ UNCHANGED <<firewall, index>>
    BY Zenon, <1>6 DEF LookUp, Mine, Current, h
  <2>2. h.id \in DOMAIN index
    BY Zenon, <1>1, <1>3, <2>1
  <2>3. Mine' = [Mine EXCEPT !.stage = "controller", !.key = index[h.id]]
    BY Zenon, <1>6, <2>2, MineReplaced DEF LookUp, Mine, Current, h
  <2>4. Mine'.todo = Mine.todo /\ Mine'.failed = Mine.failed
    BY Zenon, <1>0, <2>3 DEF CallState
  <2> QED BY Zenon, <1>5, <2>1, <2>4
<1>7. CASE ControllerRemove("reconcile")
  <2>1. UNCHANGED <<firewall, index>> /\ Mine' = [Mine EXCEPT !.stage = "index"]
    BY Zenon, <1>7, MineReplaced DEF ControllerRemove, Mine
  <2>2. Mine'.todo = Mine.todo /\ Mine'.failed = Mine.failed
    BY Zenon, <1>0, <2>1 DEF CallState
  <2> QED BY Zenon, <1>5, <2>1, <2>2
<1>8. CASE ControllerPut("reconcile")
  <2> DEFINE k == PublicKey(h.id, h.cfg)
  <2>1. /\ UNCHANGED <<firewall, index>>
        /\ call' = [call EXCEPT !["reconcile"] = [Mine EXCEPT !.stage = "index", !.key = k]]
    BY Zenon, <1>8 DEF ControllerPut, Mine, Current, h
  <2>2. Mine' = [Mine EXCEPT !.stage = "index", !.key = k]
    BY Zenon, <2>1, MineReplaced
  <2>3. Mine'.todo = Mine.todo /\ Mine'.failed = Mine.failed
    BY Zenon, <1>0, <2>2 DEF CallState
  <2> QED BY Zenon, <1>5, <2>1, <2>3
<1>9. CASE ControllerFails("reconcile")
  BY Zenon, <1>9 DEF ControllerFails, CallFails
<1>10. CASE UpdateIndex("reconcile")
  <2>1. /\ firewall' = firewall
        /\ call' = [call EXCEPT !["reconcile"] = Returned("reconcile", TRUE)]
        /\ index' = IF h.kind = "RemovePeerByID" THEN Drop(index, h.id) ELSE Put(index, h.id, Mine.key)
    BY Zenon, <1>10 DEF UpdateIndex, Mine, Current, h
  <2>2. Mine'.todo = Tail(Mine.todo) /\ Mine'.stage = "start" /\ Mine'.failed = (Mine.failed \/ ~ TRUE)
    BY ZenonT(30), <1>0, <2>1, MineReturned
  <2>3. Mine'.failed = Mine.failed
    BY Zenon, <1>0, <2>2 DEF CallState
  <2>4. Left' = {c \in Left : c.id # h.id}
    BY Zenon, <1>1, <2>2 DEF Left
  <2>5. /\ \A p : p # h.id => (p \in DOMAIN index <=> p \in DOMAIN index')
        /\ h.id \in DOMAIN index' <=> h.id \in NewAllowed
    <3>1. CASE h.kind = "RemovePeerByID"
      <4>1. DOMAIN index' = DOMAIN index \ {h.id}
        BY Zenon, <2>1, <3>1 DEF Drop
      <4> QED BY Zenon, <1>1, <1>3, <3>1, <4>1
    <3>2. CASE h.kind # "RemovePeerByID"
      <4>1. DOMAIN index' = DOMAIN index \cup {h.id}
        BY Zenon, <2>1, <3>2 DEF Put
      <4> QED BY Zenon, <1>1, <1>3, <3>2, <4>1
    <3> QED BY Zenon, <3>1, <3>2
  <2>6. ASSUME NEW p \in PeerID, \A c \in Left' : c.id # p
        PROVE  p \in DOMAIN index' <=> p \in NewAllowed
    <3>1. CASE p = h.id
      BY Zenon, <2>5, <3>1
    <3>2. CASE p # h.id
      <4>1. \A c \in Left : c.id # p
        BY Zenon, <2>4, <2>6, <3>2
      <4> QED BY Zenon, <1>4, <2>5, <3>2, <4>1
    <3> QED BY Zenon, <3>1, <3>2
  <2>7. \A c \in Left' :
          /\ c.kind = "RemovePeerByID" => c.id \in DOMAIN index' /\ c.id \notin NewAllowed
          /\ c.kind # "RemovePeerByID" => c.id \in NewAllowed
    BY Zenon, <1>3, <2>4, <2>5
  <2> QED BY Zenon, <1>1, <1>2, <2>1, <2>2, <2>3, <2>6, <2>7 DEF FilteringPeers
<1> QED BY Zenon, <1>6, <1>7, <1>8, <1>9, <1>10 DEF ManagerStep

\* A cycle the policy handler skips desires the peers and policies of the
\* snapshot, since the rules of a policy follow from its ID.
LEMMA NothingToFilter ==
    ASSUME LoopOK, pc = "handlers", ~ HasPolicyOrPeerChanges,
           SamePolicies(desired), SamePolicies(snapshot)
    PROVE  desired.peers = snapshot.peers /\ desired.policies = snapshot.policies
<1> DEFINE f == desired.peers
           g == snapshot.peers
           a == desired.policies
           b == snapshot.policies
<1>1. /\ f \in Partial(PeerID, PeerCfg) /\ g \in Partial(PeerID, PeerCfg)
      /\ a \in Partial(PolicyID, Rules) /\ b \in Partial(PolicyID, Rules)
  BY Zenon DEF LoopOK, TypeOK, StateResponse
<1>2. /\ diff.peersToRemove = Removed(f, g)
      /\ diff.peersToUpdate = PeersToUpdate(f, g)
      /\ diff.peersToAdd = Added(f, g)
      /\ diff.policiesToAdd = Added(a, b)
      /\ diff.policiesToRemove = Removed(a, b)
  BY Zenon, DiffParts
<1>3. /\ \A q \in DOMAIN a : a[q] = RulesOf[q]
      /\ \A q \in DOMAIN b : b[q] = RulesOf[q]
  BY Zenon DEF SamePolicies
<1> HIDE DEF f, g, a, b
<1>4. f = g
  <2>1. /\ DOMAIN diff.peersToAdd = {} /\ diff.peersToRemove = {}
        /\ DOMAIN diff.peersToUpdate = {}
    BY Zenon DEF HasPolicyOrPeerChanges
  <2>2. DOMAIN Added(f, g) = {} /\ Removed(f, g) = {} /\ DOMAIN PeersToUpdate(f, g) = {}
    BY ZenonT(30), <1>2, <2>1, Zenon
  <2> QED BY <1>1, <2>2, SameTable
<1>5. DOMAIN a = DOMAIN b
  BY Zenon, <1>2 DEF HasPolicyOrPeerChanges, Added, Removed
<1>6. a \in [DOMAIN a -> Rules] /\ b \in [DOMAIN b -> Rules]
  BY Zenon, <1>1, PartialFunction
<1>7. a = b
  BY <1>3, <1>5, <1>6
<1> QED BY Zenon, <1>4, <1>7 DEF f, g, a, b

\* The control plane keeps the rules of a policy where it may not rewrite them.
LEMMA PoliciesKept ==
    ASSUME MeshTypeInv, SamePolicies(cp), "rewriting" \notin env,
           \/ \E p \in PeerID, c \in PeerCfg : AddOrChangePeer(p, c)
           \/ \E p \in PeerID : DeletePeer(p)
           \/ \E q \in PolicyID, r \in Rules : ChangePolicy(q, r)
           \/ \E q \in PolicyID : DeletePolicy(q)
           \/ \E m \in Metadata : ChangeMetadata(m)
    PROVE  SamePolicies(cp)'
<1>1. cp \in StateResponse
  BY Zenon DEF MeshTypeInv, LoopOK, TypeOK
<1>2. ASSUME cp'.policies = cp.policies PROVE SamePolicies(cp)'
  BY Zenon, <1>2 DEF SamePolicies
<1>3. CASE \E p \in PeerID, c \in PeerCfg : AddOrChangePeer(p, c)
  <2>1. PICK v : cp' = [cp EXCEPT !.peers = v]
    BY Zenon, <1>3, Zenon DEF AddOrChangePeer, ChangeState
  <2> QED BY Zenon, <1>1, <1>2, <2>1 DEF StateResponse
<1>4. CASE \E p \in PeerID : DeletePeer(p)
  <2>1. PICK v : cp' = [cp EXCEPT !.peers = v]
    BY Zenon, <1>4, Zenon DEF DeletePeer, ChangeState
  <2> QED BY Zenon, <1>1, <1>2, <2>1 DEF StateResponse
<1>5. CASE \E m \in Metadata : ChangeMetadata(m)
  <2>1. PICK v : cp' = [cp EXCEPT !.metadata = v]
    BY ZenonT(30), <1>5, Zenon DEF ChangeMetadata, ChangeState
  <2> QED BY Zenon, <1>1, <1>2, <2>1 DEF StateResponse
<1>6. CASE \E q \in PolicyID, r \in Rules : ChangePolicy(q, r)
  <2>1. PICK q \in PolicyID : cp' = [cp EXCEPT !.policies = Put(cp.policies, q, RulesOf[q])]
    BY Zenon, <1>6 DEF ChangePolicy, ChangeState
  <2>2. cp'.policies = Put(cp.policies, q, RulesOf[q])
    BY Zenon, <1>1, <2>1 DEF StateResponse
  <2> QED BY Zenon, <2>2 DEF SamePolicies, Put
<1>7. CASE \E q \in PolicyID : DeletePolicy(q)
  <2>1. PICK q \in PolicyID : cp' = [cp EXCEPT !.policies = Drop(cp.policies, q)]
    BY Zenon, <1>7 DEF DeletePolicy, ChangeState
  <2>2. cp'.policies = Drop(cp.policies, q)
    BY Zenon, <1>1, <2>1 DEF StateResponse
  <2> QED BY Zenon, <2>2 DEF SamePolicies, Drop
<1> QED BY Zenon, <1>3, <1>4, <1>5, <1>6, <1>7

LEMMA AllowedInit == NoEvents /\ MeshInit => AllowedInv
<1> SUFFICES ASSUME NoEvents, MeshInit PROVE AllowedInv
  BY Zenon
<1>1. Mine = Idle /\ call["sse"] = Idle
  BY Zenon DEF MeshInit, Mine, Goroutine
<1>2. Undisturbed /\ ~ Running
  BY <1>1 DEF MeshInit, NoEvents, Undisturbed, Running, Idle, Mine
<1>3. /\ pc = "fetch" /\ ~ handlerFailed /\ cp = EmptyState /\ desired = EmptyState
      /\ snapshot = EmptyState /\ index = NoEntries /\ allowed = {} /\ firewall = NoEntries
  BY Zenon DEF MeshInit, Init
<1>4. EmptyState.peers = NoEntries /\ EmptyState.policies = NoEntries /\ DOMAIN NoEntries = {}
  BY Zenon DEF EmptyState, NoEntries
<1>5. SamePolicies(EmptyState)
  BY Zenon, <1>4 DEF SamePolicies
<1>6. FilterPeers(EmptyState.peers, EmptyState.policies) = {}
  BY Zenon, <1>4 DEF FilterPeers
<1>7. AllowedFollow
  BY Zenon, <1>2, <1>3, <1>4, <1>5, <1>6 DEF AllowedFollow
<1> QED BY Zenon, <1>2, <1>7, MeshTypeInit DEF AllowedInv

LEMMA AllowedStep ==
    ASSUME Handlers = <<"policy">>, AllowedInv, [MeshNext]_meshVars
    PROVE  AllowedInv'
<1>0. MeshTypeInv /\ MeshTypeInv' /\ LoopOK /\ HandlerOK /\ Undisturbed /\ Undisturbed'
  BY Zenon, MeshTypeStep, UndisturbedStep DEF AllowedInv, MeshTypeInv
<1>1. env' = env
  BY Zenon, SameSurroundings
<1> SUFFICES ASSUME {"failing", "rewriting"} \cap env = {} PROVE AllowedFollow'
  BY Zenon, <1>0, <1>1 DEF AllowedInv
<1>2. /\ AllowedFollow /\ "failing" \notin env /\ "rewriting" \notin env /\ ~ handlerFailed
      /\ SamePolicies(cp) /\ SamePolicies(desired) /\ SamePolicies(snapshot)
  BY Zenon DEF AllowedInv, AllowedFollow
<1>3. pc = "handlers" => next = 1 /\ Handler = "policy"
  BY Zenon, <1>0, OneHandler
<1>4. ASSUME UNCHANGED <<pc, desired, snapshot, handlerFailed, index, allowed, firewall, Mine>>,
             SamePolicies(cp)'
      PROVE  AllowedFollow'
  BY ZenonT(30), <1>2, <1>4 DEF AllowedFollow, SamePolicies, BetweenCycles, Running, FilteringPeers, NewAllowed, Left, Mine
<1>5. CASE \/ \E p \in PeerID, c \in PeerCfg : AddOrChangePeer(p, c)
           \/ \E p \in PeerID : DeletePeer(p)
           \/ \E q \in PolicyID, r \in Rules : ChangePolicy(q, r)
           \/ \E q \in PolicyID : DeletePolicy(q)
           \/ \E m \in Metadata : ChangeMetadata(m)
  <2>1. SamePolicies(cp)'
    BY Zenon, <1>0, <1>2, <1>5, PoliciesKept
  <2> QED BY Zenon, <1>0, <1>4, <1>5, <2>1, ChangesOK DEF ChangeState, cycle, Mine
<1>6. CASE DeliverEvent \/ LoseEvent
  BY Zenon, <1>0, <1>6 DEF DeliverEvent, LoseEvent, Undisturbed
<1>7. CASE (Tick \/ Fetch \/ ReportAndUpdate \/ FetchFails) /\ UNCHANGED mesh
  <2>1. UNCHANGED <<index, allowed, firewall, Mine, Running>> /\ ~ Running
    BY Zenon, <1>0, <1>7 DEF mesh, Mine, Running, HandlerOK, Tick, Fetch, ReportAndUpdate, FetchFails
  <2>2. CASE Tick \/ FetchFails
    <3>1. /\ pc \in {"select", "fetch"} /\ pc' \in {"select", "fetch"}
          /\ UNCHANGED <<cp, desired, snapshot, handlerFailed>>
      BY Zenon, <2>2 DEF Tick, FetchFails, cycle
    <3> QED BY Zenon, <1>2, <2>1, <3>1 DEF AllowedFollow, BetweenCycles, SamePolicies
  <2>3. CASE Fetch
    <3>1. pc = "fetch" /\ pc' \in {"select", "handlers"} /\ UNCHANGED <<cp, snapshot>>
      BY Zenon, <1>0, <2>3, OneHandler, Zenon DEF Fetch
    <3>2. ~ handlerFailed' /\ desired' \in {desired, cp}
      BY Zenon, <1>2, <2>3 DEF Fetch, cycle, BeginHandlers
    <3>3. SamePolicies(cp)' /\ SamePolicies(desired)' /\ SamePolicies(snapshot)'
      BY Zenon, <1>2, <3>1, <3>2 DEF SamePolicies
    <3> QED BY Zenon, <1>2, <2>1, <3>1, <3>2, <3>3 DEF AllowedFollow, BetweenCycles
  <2>4. CASE ReportAndUpdate
    <3>1. /\ pc = "report" /\ pc' = "select" /\ snapshot' = Snapshot(desired) /\ ~ handlerFailed'
          /\ desired' = EmptyState /\ cp' = cp
      BY Zenon, <1>2, <2>4 DEF ReportAndUpdate
    <3>2. snapshot'.peers = desired.peers /\ snapshot'.policies = desired.policies
      BY Zenon, <1>0, <3>1 DEF Snapshot, LoopOK, TypeOK, StateResponse
    <3>3. SamePolicies(cp)' /\ SamePolicies(desired)' /\ SamePolicies(snapshot)'
      BY ZenonT(30), <1>2, <3>1, <3>2 DEF SamePolicies, EmptyState, NoEntries
    <3>4. allowed = NewAllowed /\ DOMAIN index = NewAllowed /\ firewall = desired.policies
      BY Zenon, <1>2, <3>1 DEF AllowedFollow
    <3> QED BY Zenon, <2>1, <3>1, <3>2, <3>3, <3>4 DEF AllowedFollow, BetweenCycles, NewAllowed
  <2> QED BY Zenon, <1>7, <2>2, <2>3, <2>4
<1>8. CASE WireGuardHandler
  BY Zenon, <1>3, <1>8 DEF WireGuardHandler
<1>9. CASE PolicyHandlerSkips
  <2>1. /\ pc = "handlers" /\ ~ Running /\ HandlerReturns(TRUE) /\ ~ HasPolicyOrPeerChanges
        /\ UNCHANGED <<cp, desired, snapshot, index, allowed, firewall, Running>>
    BY Zenon, <1>9 DEF PolicyHandlerSkips, HandlerReturns, mesh, Running
  <2>2. desired.peers = snapshot.peers /\ desired.policies = snapshot.policies
    BY Zenon, <1>0, <1>2, <2>1, NothingToFilter
  <2>3. pc' = "report" /\ ~ handlerFailed'
    BY ZenonT(30), <1>0, <1>2, <2>1, OneHandler DEF HandlerReturns
  <2>4. allowed = NewAllowed /\ DOMAIN index = NewAllowed /\ firewall = desired.policies
    BY Zenon, <1>2, <2>1, <2>2 DEF AllowedFollow, BetweenCycles, NewAllowed
  <2>5. SamePolicies(cp)' /\ SamePolicies(desired)' /\ SamePolicies(snapshot)'
    BY Zenon, <1>2, <2>1 DEF SamePolicies
  <2> QED BY Zenon, <2>1, <2>3, <2>4, <2>5 DEF AllowedFollow, BetweenCycles, NewAllowed
<1>10. CASE PolicyHandler
  <2>1. /\ FilteringPeers' /\ Running' /\ UNCHANGED <<pc, desired, snapshot, cp, handlerFailed>>
        /\ pc = "handlers"
    BY ZenonT(30), <1>0, <1>2, <1>10, PolicyStarts DEF PolicyHandler
  <2>2. SamePolicies(cp)' /\ SamePolicies(desired)' /\ SamePolicies(snapshot)'
    BY Zenon, <1>2, <2>1 DEF SamePolicies
  <2> QED BY Zenon, <1>2, <2>1, <2>2 DEF AllowedFollow, BetweenCycles
<1>11. CASE HandlerDone
  <2>1. /\ Running /\ Mine.todo = <<>> /\ HandlerReturns(~ Mine.failed) /\ pc = "handlers"
        /\ UNCHANGED <<cp, desired, snapshot, index, firewall>>
        /\ allowed' = IF Handler = "policy" THEN NewAllowed ELSE allowed
    BY Zenon, <1>11 DEF HandlerDone, HandlerReturns, Mine, NewAllowed
  <2>2. FilteringPeers /\ ~ Mine.failed
    BY ZenonT(30), <1>2, <2>1 DEF AllowedFollow, FilteringPeers
  <2>3. pc' = "report" /\ ~ handlerFailed' /\ ~ Running' /\ allowed' = NewAllowed
    BY ZenonT(30), <1>0, <1>2, <1>3, <1>11, <2>1, <2>2, OneHandler, DoneTypes DEF HandlerReturns
  <2>4. Left = {}
    BY <2>1 DEF Left, Range
  <2>5. \A p \in PeerID : p \in DOMAIN index <=> p \in NewAllowed
    BY Zenon, <2>2, <2>4 DEF FilteringPeers
  <2>6. DOMAIN index \subseteq PeerID /\ NewAllowed \subseteq PeerID
    <3>1. index \in Partial(PeerID, PeerKey) /\ desired.peers \in Partial(PeerID, PeerCfg)
      BY ZenonT(30), <1>0 DEF MeshTypeInv, TablesOK, LoopOK, TypeOK, StateResponse
    <3> QED BY Zenon, <3>1, PartialFunction DEF NewAllowed, FilterPeers
  <2>7. DOMAIN index' = NewAllowed' /\ firewall' = desired'.policies /\ allowed' = NewAllowed'
    BY ZenonT(30), <2>1, <2>2, <2>3, <2>5, <2>6 DEF NewAllowed, FilteringPeers
  <2>8. SamePolicies(cp)' /\ SamePolicies(desired)' /\ SamePolicies(snapshot)'
    BY Zenon, <1>2, <2>1 DEF SamePolicies
  <2> QED BY Zenon, <2>3, <2>7, <2>8 DEF AllowedFollow, BetweenCycles
<1>12. ASSUME NEW k \in Goroutine, ManagerStep(k) PROVE AllowedFollow'
  <2>1. call[k].todo # <<>> /\ UNCHANGED <<cp, pc, desired, snapshot, handlerFailed>>
    BY ZenonT(30), <1>12 DEF ManagerStep, LookUp, ControllerRemove, ControllerPut, ControllerFails, UpdateIndex,
                 vars, cycle
  <2>2. k = "reconcile"
    BY Zenon, <1>0, <2>1 DEF Undisturbed, Goroutine
  <2>3. Running /\ pc = "handlers"
    BY Zenon, <1>0, <2>1, <2>2 DEF HandlerOK
  <2>4. FilteringPeers'
    BY Zenon, <1>0, <1>2, <1>12, <2>1, <2>2, <2>3, FilterStep DEF AllowedFollow
  <2>5. Running'
    BY Zenon, <1>0, <1>12, <2>2, <2>3, ManagerTypes DEF ListKept, Running
  <2>6. SamePolicies(cp)' /\ SamePolicies(desired)' /\ SamePolicies(snapshot)'
    BY Zenon, <1>2, <2>1 DEF SamePolicies
  <2> QED BY Zenon, <1>2, <2>1, <2>3, <2>4, <2>5, <2>6 DEF AllowedFollow, BetweenCycles
<1>13. CASE UNCHANGED meshVars
  BY Zenon, <1>2, <1>4, <1>13 DEF meshVars, mesh, vars, cycle, Mine, SamePolicies
<1> QED BY Zenon, <1>5, <1>6, <1>7, <1>8, <1>9, <1>10, <1>11, <1>12, <1>13 DEF MeshNext

\* An error a Manager call returned stays with the handler to its end.
LEMMA ErrorsCollected ==
    ASSUME MeshTypeInv, NEW k \in Goroutine, ManagerStep(k)
    PROVE  (Running' => Running) /\ (Running /\ ~ Mine'.failed => ~ Mine.failed)
<1>1. CASE k = "reconcile"
  <2>1. ManagerStep("reconcile")
    BY Zenon, <1>1
  <2>2. Mine.todo # <<>> /\ Mine \in CallState
    BY Zenon, <2>1, ManagerCases
  <2>3. Mine'.failed = Mine.failed \/ Mine'.failed
    <3>1. ASSUME call' = [call EXCEPT !["reconcile"] = Returned("reconcile", TRUE)]
          PROVE  Mine'.failed = Mine.failed
      BY Zenon, <2>2, <3>1, MineReturned DEF CallState
    <3>2. ASSUME call' = [call EXCEPT !["reconcile"] = Returned("reconcile", FALSE)]
          PROVE  Mine'.failed
      BY Zenon, <2>2, <3>2, MineReturned
    <3>3. ASSUME NEW st, NEW key,
                 call' = [call EXCEPT !["reconcile"] = [Mine EXCEPT !.stage = st, !.key = key]]
          PROVE  Mine'.failed = Mine.failed
      BY ZenonT(30), <2>2, <3>3, MineReplaced DEF CallState
    <3>4. CASE LookUp("reconcile")
      <4>1. CASE Current("reconcile").id \in DOMAIN index
        BY Zenon, <3>3, <3>4, <4>1 DEF LookUp, Mine
      <4>2. CASE Current("reconcile").id \notin DOMAIN index
        BY Zenon, <3>2, <3>4, <4>2 DEF LookUp
      <4> QED BY Zenon, <4>1, <4>2
    <3>5. CASE ControllerRemove("reconcile")
      <4>1. Mine' = [Mine EXCEPT !.stage = "index"]
        BY Zenon, <3>5, MineReplaced DEF ControllerRemove, Mine
      <4> QED BY Zenon, <2>2, <4>1 DEF CallState
    <3>6. CASE ControllerPut("reconcile")
      BY ZenonT(30), <3>3, <3>6 DEF ControllerPut, Mine
    <3>7. CASE ControllerFails("reconcile")
      BY Zenon, <3>2, <3>7 DEF ControllerFails
    <3>8. CASE UpdateIndex("reconcile")
      BY Zenon, <3>1, <3>8 DEF UpdateIndex
    <3> QED BY Zenon, <2>1, <3>4, <3>5, <3>6, <3>7, <3>8 DEF ManagerStep
  <2> QED BY Zenon, <1>1, <2>3, ManagerTypes DEF ListKept, Running
<1>2. CASE k # "reconcile"
  <2>1. Mine' = Mine
    BY Zenon, <1>2, ManagerTypes DEF ListKept, Mine, Goroutine
  <2> QED BY Zenon, <2>1 DEF Running, Mine
<1> QED BY Zenon, <1>1, <1>2

\* In every environment, also with failing calls and rewritten policies.
LEMMA FirewallStep ==
    ASSUME Handlers = <<"policy">>, MeshTypeInv, FirewallInv, [MeshNext]_meshVars
    PROVE  FirewallInv'
<1>0. LoopOK /\ HandlerOK /\ MeshTypeInv'
  BY Zenon, MeshTypeStep DEF MeshTypeInv
<1>1. ASSUME UNCHANGED <<pc, desired, diff, handlerFailed, firewall, Mine>> PROVE FirewallInv'
  BY Zenon, <1>1 DEF FirewallInv, FirewallOfAcceptedState, HasPolicyOrPeerChanges, Running, Mine
<1>2. ASSUME ~ Running', pc' # "report" PROVE FirewallInv'
  BY Zenon, <1>2 DEF FirewallInv, FirewallOfAcceptedState
<1>3. CASE \/ \E p \in PeerID, c \in PeerCfg : AddOrChangePeer(p, c)
           \/ \E p \in PeerID : DeletePeer(p)
           \/ \E q \in PolicyID, r \in Rules : ChangePolicy(q, r)
           \/ \E q \in PolicyID : DeletePolicy(q)
           \/ \E m \in Metadata : ChangeMetadata(m)
  BY Zenon, <1>1, <1>3, ChangesOK DEF ChangeState, cycle, Mine
<1>4. CASE DeliverEvent \/ LoseEvent
  <2>1. Mine' = Mine
    BY Zenon, <1>4 DEF DeliverEvent, LoseEvent, MeshTypeInv, CallsOK, Goroutine, Mine
  <2> QED BY Zenon, <1>1, <1>4, <2>1 DEF DeliverEvent, LoseEvent, vars, cycle
<1>5. CASE (Tick \/ Fetch \/ ReportAndUpdate \/ FetchFails) /\ UNCHANGED mesh
  <2>1. ~ Running /\ ~ Running'
    BY Zenon, <1>0, <1>5 DEF mesh, Running, HandlerOK, Tick, Fetch, ReportAndUpdate, FetchFails
  <2>2. Fetch => pc' # "report"
    BY Zenon, <1>0, OneHandler
  <2>3. Tick \/ ReportAndUpdate \/ FetchFails => pc' # "report"
    BY Zenon DEF Tick, ReportAndUpdate, FetchFails
  <2> QED BY Zenon, <1>2, <1>5, <2>1, <2>2, <2>3
<1>6. CASE WireGuardHandler
  BY <1>0, <1>6, OneHandler DEF WireGuardHandler
<1>7. CASE PolicyHandlerSkips
  <2>1. ~ Running' /\ ~ HasPolicyOrPeerChanges'
    BY Zenon, <1>7 DEF PolicyHandlerSkips, HandlerReturns, HasPolicyOrPeerChanges, mesh, Running
  <2> QED BY Zenon, <2>1 DEF FirewallInv, FirewallOfAcceptedState
<1>8. CASE PolicyHandler
  <2>1. PICK rs \in Orders(RemoveCalls(allowed \ NewAllowed)),
             as \in Orders(AddCalls(NewAllowed \ allowed)) :
             \/ firewall' = desired.policies /\ Start(rs \o as, FALSE)
             \/ Start(rs \o as, TRUE)
    BY ZenonT(30), <1>8 DEF PolicyHandler, NewAllowed, AddCalls
  <2>2. pc = "handlers" /\ UNCHANGED <<pc, desired>>
    BY Zenon, <1>8 DEF PolicyHandler, cycle
  <2>3. rs \o as \in Seq(ManagerCall)
    BY Zenon, PolicyList DEF MeshTypeInv
  <2>4. firewall' = desired'.policies \/ Mine'.failed
    BY ZenonT(30), <2>1, <2>2, <2>3, StartTypes DEF Mine
  <2> QED BY Zenon, <2>2, <2>4 DEF FirewallInv, FirewallOfAcceptedState
<1>9. CASE HandlerDone
  <2>1. /\ Running /\ HandlerReturns(~ Mine.failed) /\ UNCHANGED <<desired, firewall>>
        /\ Mine.failed \in BOOLEAN /\ handlerFailed \in BOOLEAN
    BY Zenon, <1>0, <1>9 DEF HandlerDone, HandlerReturns, Mine, MeshTypeInv, CallsOK, CallState, Goroutine,
                      LoopOK, TypeOK
  <2>2. ~ handlerFailed' => ~ Mine.failed
    BY Zenon, <2>1 DEF HandlerReturns
  <2>3. ~ Running'
    BY Zenon, <1>9, DoneTypes
  <2> QED BY Zenon, <2>1, <2>2, <2>3 DEF FirewallInv, FirewallOfAcceptedState
<1>10. ASSUME NEW k \in Goroutine, ManagerStep(k) PROVE FirewallInv'
  <2>1. UNCHANGED <<pc, desired, diff, handlerFailed, firewall>>
    BY Zenon, <1>10 DEF ManagerStep, LookUp, ControllerRemove, ControllerPut, ControllerFails, UpdateIndex,
                 vars, cycle
  <2>2. (Running' => Running) /\ (Running /\ ~ Mine'.failed => ~ Mine.failed)
    BY Zenon, <1>10, ErrorsCollected
  <2>3. FirewallOfAcceptedState'
    BY Zenon, <2>1 DEF FirewallInv, FirewallOfAcceptedState, HasPolicyOrPeerChanges
  <2> QED BY Zenon, <2>1, <2>2, <2>3 DEF FirewallInv
<1>11. CASE UNCHANGED meshVars
  BY Zenon, <1>1, <1>11 DEF meshVars, mesh, vars, cycle, Mine
<1> QED BY Zenon, <1>3, <1>4, <1>5, <1>6, <1>7, <1>8, <1>9, <1>10, <1>11 DEF MeshNext

\* With the policy handler registered and no SSE handler beside it, for any sets
\* of peers and policies: as long as no call fails, the node has between cycles
\* exactly the peers that the accepted policies allow; and a cycle that ends
\* without an error, whatever failed before it, has rebuilt the packet filter
\* from the policies it fetched.
THEOREM PolicyAlwaysEnforced ==
    ASSUME Handlers = <<"policy">>
    PROVE  NoEvents /\ MeshSpec => []PolicyEnforced
<1>1. MeshInit => FirewallInv
  <2>1. MeshInit => ~ Running /\ pc = "fetch"
    BY DEF MeshInit, Init, Running, Idle, Goroutine
  <2> QED BY Zenon, <2>1 DEF FirewallInv, FirewallOfAcceptedState
<1>2. AllowedInv /\ FirewallInv /\ [MeshNext]_meshVars => AllowedInv' /\ FirewallInv'
  BY Zenon, AllowedStep, FirewallStep DEF AllowedInv
<1>3. AllowedInv /\ FirewallInv => PolicyEnforced
  BY Zenon DEF AllowedInv, AllowedFollow, FirewallInv, PolicyEnforced, OnlyAllowedPeers, BetweenCycles
<1> QED BY <1>1, <1>2, <1>3, AllowedInit, PTL DEF MeshSpec

=============================================================================
