---------------------------- MODULE TrafficProofs ----------------------------
(***************************************************************************)
(* Proofs about Traffic, for any number of nodes, types, controllers,      *)
(* users, connections, report goroutines and bytes.                        *)
(***************************************************************************)
EXTENDS Traffic, TLAPS

(* A report goroutine at a key holds a storage in use; one that is not     *)
(* gone belongs to a controller that was started.  (S, C: the storages and *)
(* the controllers.)                                                       *)
RepOK(x, S, C) ==
  /\ x.pc \in {"reset", "check", "emit"}
       => x.s \in Storages /\ S[x.s].tag \in Tags
  /\ x.pc \in {"range", "reset", "check", "emit"} => x.tag \in Tags
  /\ IF x.pc = "gone" THEN x.ctl = None
     ELSE x.ctl \in Controllers /\ C[x.ctl].tag \in Tags

(* A connection past Route has a tag and a user, an open one a storage. *)
ConnOK(x) ==
  /\ x.pc # "idle" => x.tag \in Tags /\ x.uuid \in Uuids
  /\ x.pc = "open" => x.s \in Storages

Held ==
  /\ \A c \in Controllers : ctl[c].up \/ ctl[c].open => ctl[c].tag \in Tags
  /\ \A r \in Reporters : RepOK(rep[r], st, ctl)
  /\ \A c \in Conns : ConnOK(conn[c])

StructInv == TypeOK /\ Held

Holding(r) == rep[r].pc \in {"reset", "check", "emit"}

-----------------------------------------------------------------------------
(* The types, one by one. *)
LEMMA Types0 ==
  ASSUME StructInv
  PROVE  /\ ctl \in [Controllers -> CtlState] /\ uidMap \in SUBSET Uuids
         /\ inbound \in [Tags -> SUBSET Uuids]
         /\ counter \in [Tags -> 0..MaxCounters]
         /\ made \in [Tags -> 0..MaxCounters]
         /\ st \in [Storages -> StorageState] /\ conn \in [Conns -> ConnState]
         /\ rep \in [Reporters -> RepState] /\ moved \in [Storages -> Nat]
         /\ taken \in [Storages -> Nat] /\ raced \in SUBSET Storages
         /\ \A s \in Storages : st[s].bytes \in Nat
         /\ \A r \in Reporters : /\ rep[r].val \in Nat
                                 /\ rep[r].slice \in [Storages -> Nat]
                                 /\ Holding(r) => /\ rep[r].s \in Storages
                                                  /\ st[rep[r].s].tag \in Tags
BY DEF StructInv, TypeOK, Held, RepOK, Holding, RepState, StorageState

LEMMA NoTag == None \notin Tags /\ None \notin Controllers /\ NoTC \in 0..MaxCounters
BY TrafficAssumption DEF Tags, NoTC

LEMMA GoneType ==
  /\ GoneRep \in RepState /\ GoneRep.pc = "gone" /\ GoneRep.ctl = None
  /\ GoneRep.slice = NoBytes
  /\ \A c \in Controllers : /\ IdleRep(c) \in RepState /\ IdleRep(c).pc = "idle"
                            /\ IdleRep(c).ctl = c /\ IdleRep(c).slice = NoBytes
<1>1. NoBytes \in [Storages -> Nat]
  BY DEF NoBytes
<1>2. GoneRep \in RepState
  BY <1>1, NoTag DEF GoneRep, RepState
<1>3. GoneRep.pc = "gone" /\ GoneRep.ctl = None /\ GoneRep.slice = NoBytes
  BY DEF GoneRep
<1>4. ASSUME NEW c \in Controllers
      PROVE  /\ IdleRep(c) \in RepState /\ IdleRep(c).pc = "idle"
             /\ IdleRep(c).ctl = c /\ IdleRep(c).slice = NoBytes
  BY <1>2, <1>3 DEF IdleRep, RepState
<1> QED
  BY <1>2, <1>3, <1>4

LEMMA DetachType ==
  ASSUME TypeOK, NEW t, NEW tc, NEW U
  PROVE  /\ Detach(t, tc, U) \in [Storages -> StorageState]
         /\ \A s \in Storages : /\ Detach(t, tc, U)[s].tag = st[s].tag
                                /\ Detach(t, tc, U)[s].uuid = st[s].uuid
                                /\ Detach(t, tc, U)[s].bytes = st[s].bytes
<1>1. ASSUME NEW s \in Storages
      PROVE  [st[s] EXCEPT !.tc = NoTC] \in StorageState
  BY NoTag DEF TypeOK, StorageState
<1> QED
  BY <1>1 DEF Detach, TypeOK, StorageState

LEMMA StructInit ==
  ASSUME Init PROVE StructInv
<1>1. NoTC \in 0..MaxCounters /\ 0 \in 0..MaxChanges
  BY TrafficAssumption DEF NoTC
<1>2. NoBytes \in [Storages -> Nat]
  BY DEF NoBytes
<1>3. IdleConn \in ConnState /\ IdleConn.pc = "idle"
  BY <1>1 DEF IdleConn, ConnState
<1>4. NewCtl \in CtlState /\ ~NewCtl.up /\ ~NewCtl.open
  BY DEF NewCtl, CtlState
<1>5. [tag |-> None, uuid |-> None, tc |-> NoTC, bytes |-> 0] \in StorageState
  BY <1>1 DEF StorageState
<1>6. TypeOK
  <2>1. uidMap \in SUBSET Uuids /\ raced \in SUBSET Storages
        /\ changes \in 0..MaxChanges
    BY <1>1 DEF Init
  <2>2. ctl \in [Controllers -> CtlState] /\ conn \in [Conns -> ConnState]
        /\ rep \in [Reporters -> RepState]
    BY <1>3, <1>4, GoneType DEF Init
  <2>3. inbound \in [Tags -> SUBSET Uuids]
        /\ counter \in [Tags -> 0..MaxCounters] /\ made \in [Tags -> 0..MaxCounters]
    BY <1>1, TrafficAssumption DEF Init
  <2>4. st \in [Storages -> StorageState]
        /\ moved \in [Storages -> Nat] /\ taken \in [Storages -> Nat]
    BY <1>2, <1>5 DEF Init
  <2> QED
    BY <2>1, <2>2, <2>3, <2>4 DEF TypeOK
<1>7. Held
  BY <1>3, <1>4, GoneType DEF Init, Held, RepOK, ConnOK
<1> QED
  BY <1>6, <1>7 DEF StructInv

(* What becomes of Held when connections stay as they are: a storage and a *)
(* controller with a tag keep having one.                                  *)
LEMMA HeldStep ==
  ASSUME Held, conn' = conn,
         \A s \in Storages : st[s].tag \in Tags => st'[s].tag \in Tags,
         \A c \in Controllers :
           /\ ctl[c].tag \in Tags => ctl'[c].tag \in Tags
           /\ ctl'[c].up \/ ctl'[c].open => ctl'[c].tag \in Tags,
         \A r \in Reporters :
           RepOK(rep'[r], st, ctl) \/ RepOK(rep'[r], st', ctl')
  PROVE  Held'
<1>1. ASSUME NEW r \in Reporters, RepOK(rep'[r], st, ctl)
      PROVE  RepOK(rep'[r], st', ctl')
  BY <1>1 DEF RepOK
<1> QED
  BY <1>1 DEF Held, ConnOK

(* A step of the controller c that gives it the state x, which has a tag.  *)
LEMMA CtlMoves ==
  ASSUME StructInv, NEW c \in Controllers, NEW x \in CtlState,
         ctl' = [ctl EXCEPT ![c] = x], x.tag \in Tags
  PROVE  /\ ctl' \in [Controllers -> CtlState]
         /\ \A d \in Controllers :
              /\ ctl[d].tag \in Tags => ctl'[d].tag \in Tags
              /\ ctl'[d].up \/ ctl'[d].open => ctl'[d].tag \in Tags
BY Types0 DEF StructInv, Held

(* Spawn: the new goroutine is the controller's. *)
LEMMA SpawnType ==
  ASSUME StructInv, NEW c \in Controllers, NEW r \in Reporters,
         NEW Ended \in SUBSET LoopsOf(c), Spawn(r, c, Ended)
  PROVE  /\ rep' \in [Reporters -> RepState]
         /\ \A q \in Reporters : rep'[q] \in {IdleRep(c), GoneRep, rep[q]}
         /\ r \in LoopsOf(c)'
         /\ \A d \in Controllers : d # c => LoopsOf(d)' = LoopsOf(d)
<1>1. \A q \in Reporters :
        rep'[q] = IF q = r THEN IdleRep(c) ELSE IF q \in Ended THEN GoneRep
                  ELSE rep[q]
  BY DEF Spawn
<1>2. rep' \in [Reporters -> RepState]
  BY Types0, GoneType DEF Spawn
<1>3. \A q \in Ended : rep[q].ctl = c
  BY DEF LoopsOf
<1>4. rep[r].ctl \in {None, c}
  BY <1>3 DEF Spawn, StructInv, Held, RepOK
<1>5. ASSUME NEW d \in Controllers, d # c
      PROVE  LoopsOf(d)' = LoopsOf(d)
  <2>1. ASSUME NEW q \in Reporters
        PROVE  rep'[q].ctl = d <=> rep[q].ctl = d
    BY <1>1, <1>3, <1>4, <1>5, GoneType, NoTag
  <2> QED
    BY <2>1 DEF LoopsOf
<1> QED
  BY <1>1, <1>2, <1>5, GoneType DEF LoopsOf

-----------------------------------------------------------------------------
(* What a step of a controller may do to the storages: nothing but take    *)
(* them out of their counter.                                              *)
LEMMA CtlStepStorages ==
  ASSUME StructInv, NEW c \in Controllers, CtlStep(c)
  PROVE  /\ st' \in [Storages -> StorageState]
         /\ \A s \in Storages : /\ st'[s].tag = st[s].tag
                                /\ st'[s].uuid = st[s].uuid
                                /\ st'[s].bytes = st[s].bytes
         /\ UNCHANGED <<counter, made, conn, moved, taken, raced>>
<1>1. ASSUME NEW U, NEW ok, DelUsers(c, U, ok)
      PROVE  /\ st' \in [Storages -> StorageState]
             /\ \A s \in Storages : /\ st'[s].tag = st[s].tag
                                    /\ st'[s].uuid = st[s].uuid
                                    /\ st'[s].bytes = st[s].bytes
             /\ UNCHANGED <<counter, made, conn, moved, taken, raced>>
  <2>1. st' = Detach(ctl[c].tag, counter[ctl[c].tag], U)
    BY <1>1 DEF DelUsers
  <2>2. UNCHANGED <<counter, made, conn, moved, taken, raced>>
    BY <1>1 DEF DelUsers, history
  <2> QED
    BY <2>1, <2>2, DetachType DEF StructInv
<1>2. CASE ~\E U \in (SUBSET Uuids) \ {{}}, ok \in BOOLEAN : DelUsers(c, U, ok)
  <2>1. UNCHANGED <<st, counter, made, conn, moved, taken, raced>>
    BY <1>2
       DEF CtlStep, Start, Reload, Restart, Close, AddUsers, coreVars, history
  <2> QED
    BY <2>1, Types0
<1> QED
  BY <1>1, <1>2

LEMMA ChangeType ==
  ASSUME StructInv, Change
  PROVE  changes' \in 0..MaxChanges
BY TrafficAssumption DEF Change, StructInv, TypeOK

(* What it may do to the goroutines and the controllers. *)
CtlEffect(c) ==
  /\ changes' \in 0..MaxChanges
  /\ uidMap' \in SUBSET Uuids
  /\ inbound' \in [Tags -> SUBSET Uuids]
  /\ ctl' \in [Controllers -> CtlState]
  /\ \A d \in Controllers :
       /\ ctl[d].tag \in Tags => ctl'[d].tag \in Tags
       /\ ctl'[d].up \/ ctl'[d].open => ctl'[d].tag \in Tags
  /\ rep' \in [Reporters -> RepState]
  /\ \A q \in Reporters :
       \/ rep'[q] = rep[q]
       \/ rep'[q] = GoneRep
       \/ rep'[q] = IdleRep(c) /\ ctl'[c].tag \in Tags

LEMMA CtlStepEffect ==
  ASSUME StructInv, NEW c \in Controllers, CtlStep(c)
  PROVE  CtlEffect(c)
<1>0. /\ ctl[c] \in CtlState /\ changes \in 0..MaxChanges
      /\ \A d \in Controllers :
           ctl[d].up \/ ctl[d].open => ctl[d].tag \in Tags
  BY Types0 DEF StructInv, TypeOK, Held
<1>1. ASSUME NEW t \in Tags, NEW U \in SUBSET Uuids, NEW ok \in BOOLEAN,
             Start(c, t, U, ok)
      PROVE  CtlEffect(c)
  <2>1. changes' \in 0..MaxChanges /\ uidMap' \in SUBSET Uuids
    BY <1>1, ChangeType, Types0 DEF Start
  <2>2. CASE ok
    <3> DEFINE x == [tag |-> t, up |-> TRUE, open |-> TRUE, users |-> U]
    <3>1. /\ x \in CtlState /\ x.tag \in Tags /\ ctl' = [ctl EXCEPT ![c] = x]
          /\ ctl'[c] = x
      BY <1>1, <2>2, Types0 DEF Start, CtlState
    <3>2. PICK r \in Reporters : Spawn(r, c, {})
      BY <1>1, <2>2 DEF Start
    <3>3. inbound' \in [Tags -> SUBSET Uuids]
      BY <1>1, <2>2, Types0 DEF Start
    <3> QED
      BY <2>1, <3>1, <3>2, <3>3, CtlMoves, SpawnType DEF CtlEffect
  <2>3. CASE ~ok
    BY <1>0, <1>1, <2>1, <2>3, Types0 DEF Start, CtlEffect
  <2> QED
    BY <2>2, <2>3
<1>2. ASSUME NEW t \in Tags, NEW U \in SUBSET Uuids, Reload(c, t, U)
      PROVE  CtlEffect(c)
  <2> DEFINE x == [ctl[c] EXCEPT !.tag = t, !.users = U]
  <2>1. /\ x \in CtlState /\ x.tag \in Tags /\ ctl' = [ctl EXCEPT ![c] = x]
    BY <1>0, <1>2, Types0 DEF Reload, CtlState
  <2>2. inbound' \in [Tags -> SUBSET Uuids]
    BY <1>2, Types0 DEF Reload
  <2> QED
    BY <1>2, <2>1, <2>2, CtlMoves, ChangeType, Types0 DEF Reload, CtlEffect
<1>3. CASE Restart(c)
  <2> DEFINE x == [ctl[c] EXCEPT !.open = TRUE]
  <2>1. /\ x \in CtlState /\ x.tag \in Tags /\ ctl' = [ctl EXCEPT ![c] = x]
        /\ ctl'[c] = x
    BY <1>0, <1>3, Types0 DEF Restart, CtlState
  <2>2. PICK Ended \in SUBSET {r \in LoopsOf(c) : rep[r].pc = "idle"},
             r \in Reporters : Spawn(r, c, Ended)
    BY <1>3 DEF Restart
  <2>3. Ended \in SUBSET LoopsOf(c)
    OBVIOUS
  <2>4. UNCHANGED <<uidMap, inbound>>
    BY <1>3 DEF Restart, coreVars
  <2> QED
    BY <1>3, <2>1, <2>2, <2>3, <2>4, CtlMoves, ChangeType, SpawnType, Types0
       DEF Restart, CtlEffect
<1>4. ASSUME NEW ok \in BOOLEAN, Close(c, ok)
      PROVE  CtlEffect(c)
  <2> DEFINE x == [ctl[c] EXCEPT !.open = FALSE, !.up = ~ok]
  <2>1. /\ x \in CtlState /\ x.tag \in Tags /\ ctl' = [ctl EXCEPT ![c] = x]
    BY <1>0, <1>4, Types0 DEF Close, CtlState
  <2>2. inbound' \in [Tags -> SUBSET Uuids]
    BY <1>4, Types0 DEF Close
  <2> QED
    BY <1>4, <2>1, <2>2, CtlMoves, ChangeType, Types0 DEF Close, CtlEffect
<1>5. ASSUME NEW V \in SUBSET Uuids, ctl' = [ctl EXCEPT ![c].users = V] \/ ctl' = ctl,
             ctl[c].up, UNCHANGED <<changes, rep>>,
             uidMap' \in SUBSET Uuids, inbound' \in [Tags -> SUBSET Uuids]
      PROVE  CtlEffect(c)
  <2>1. CASE ctl' = [ctl EXCEPT ![c].users = V]
    <3> DEFINE x == [ctl[c] EXCEPT !.users = V]
    <3>1. /\ x \in CtlState /\ x.tag \in Tags /\ ctl' = [ctl EXCEPT ![c] = x]
      BY <1>0, <1>5, <2>1, Types0 DEF CtlState
    <3> QED
      BY <1>0, <1>5, <3>1, CtlMoves, Types0 DEF CtlEffect
  <2>2. CASE ctl' = ctl
    BY <1>0, <1>5, <2>2, Types0 DEF CtlEffect
  <2> QED
    BY <1>5, <2>1, <2>2
<1>6. ASSUME NEW U \in SUBSET Uuids, NEW ok \in BOOLEAN, AddUsers(c, U, ok)
      PROVE  CtlEffect(c)
  <2> DEFINE V == ctl[c].users \cup U
  <2>1. V \in SUBSET Uuids
    BY <1>0 DEF CtlState
  <2>2. ctl' = [ctl EXCEPT ![c].users = V] \/ ctl' = ctl
    BY <1>6 DEF AddUsers
  <2>3. uidMap' \in SUBSET Uuids /\ inbound' \in [Tags -> SUBSET Uuids]
    BY <1>6, Types0 DEF AddUsers
  <2>4. ctl[c].up /\ UNCHANGED <<changes, rep>>
    BY <1>6 DEF AddUsers
  <2> HIDE DEF V
  <2> QED
    BY <1>5, <2>1, <2>2, <2>3, <2>4
<1>7. ASSUME NEW U \in SUBSET Uuids, NEW ok \in BOOLEAN, DelUsers(c, U, ok)
      PROVE  CtlEffect(c)
  <2> DEFINE V == ctl[c].users \ U
  <2>1. V \in SUBSET Uuids
    BY <1>0 DEF CtlState
  <2>2. ctl' = [ctl EXCEPT ![c].users = V] \/ ctl' = ctl
    BY <1>7 DEF DelUsers
  <2>3. uidMap' \in SUBSET Uuids /\ inbound' \in [Tags -> SUBSET Uuids]
    BY <1>7, Types0 DEF DelUsers
  <2>4. ctl[c].up /\ UNCHANGED <<changes, rep>>
    BY <1>7 DEF DelUsers
  <2> HIDE DEF V
  <2> QED
    BY <1>5, <2>1, <2>2, <2>3, <2>4
<1> QED
  BY <1>1, <1>2, <1>3, <1>4, <1>6, <1>7 DEF CtlStep

LEMMA CtlStepStruct ==
  ASSUME StructInv, NEW c \in Controllers, CtlStep(c)
  PROVE  StructInv'
<1>1. CtlEffect(c)
  BY CtlStepEffect
<1>2. TypeOK'
  BY <1>1, CtlStepStorages, Types0 DEF CtlEffect, TypeOK
<1>3. \A r \in Reporters :
        RepOK(rep'[r], st, ctl) \/ RepOK(rep'[r], st', ctl')
  BY <1>1, GoneType DEF CtlEffect, StructInv, Held, RepOK
<1>4. Held'
  <2>1. \A s \in Storages : st[s].tag \in Tags => st'[s].tag \in Tags
    BY CtlStepStorages
  <2>2. conn' = conn
    BY CtlStepStorages
  <2> QED
    BY <1>1, <1>3, <2>1, <2>2, HeldStep DEF CtlEffect, StructInv
<1> QED
  BY <1>2, <1>4 DEF StructInv

-----------------------------------------------------------------------------
(* What a step of a connection does to the storages: s takes n more bytes  *)
(* (Overwrite: what was there gives way to n), or comes into use.          *)
ConnEffect(s, n) ==
  /\ st'[s].tag = st[s].tag \/ (st[s].tag = None /\ st'[s].bytes = 0)
  /\ st[s].tag \in Tags => st'[s].tag = st[s].tag /\ st'[s].uuid = st[s].uuid
                           /\ st'[s].tc = st[s].tc
  /\ moved'[s] = moved[s] + n
  /\ st'[s].bytes <= st[s].bytes + n

LEMMA ConnStepStorages ==
  ASSUME StructInv, NEW c \in Conns, ConnStep(c)
  PROVE  /\ st' \in [Storages -> StorageState] /\ moved' \in [Storages -> Nat]
         /\ \A s \in Storages : \E n \in Nat : ConnEffect(s, n)
<1>0. /\ st \in [Storages -> StorageState] /\ moved \in [Storages -> Nat]
      /\ \A s \in Storages : st[s] \in StorageState /\ st[s].bytes \in Nat
                             /\ moved[s] \in Nat
      /\ conn[c] \in ConnState
  BY Types0
<1>1. CASE UNCHANGED <<st, moved>>
  <2>1. \A s \in Storages : ConnEffect(s, 0)
    BY <1>0, <1>1 DEF ConnEffect
  <2> QED
    BY <1>0, <1>1, <2>1
<1>2. ASSUME NEW q \in Storages, NewStorage(c, q)
      PROVE  /\ st' \in [Storages -> StorageState] /\ moved' = moved
             /\ \A s \in Storages : ConnEffect(s, 0)
  <2>1. [tag |-> conn[c].tag, uuid |-> conn[c].uuid, tc |-> conn[c].tc,
         bytes |-> 0] \in StorageState
    BY <1>0, NoTag DEF ConnState, StorageState
  <2>2. st' \in [Storages -> StorageState] /\ moved' = moved
    BY <1>0, <1>2, <2>1 DEF NewStorage
  <2>3. \A s \in Storages : ConnEffect(s, 0)
    BY <1>0, <1>2, NoTag DEF NewStorage, ConnEffect
  <2> QED
    BY <2>2, <2>3
<1>3. ASSUME NEW q \in Storages, NEW n \in Nat, NEW b \in Nat,
             moved' = [moved EXCEPT ![q] = @ + n],
             st' = [st EXCEPT ![q].bytes = b], b <= st[q].bytes + n
      PROVE  /\ st' \in [Storages -> StorageState] /\ moved' \in [Storages -> Nat]
             /\ \A s \in Storages : \E k \in Nat : ConnEffect(s, k)
  <2>1. st' \in [Storages -> StorageState] /\ moved' \in [Storages -> Nat]
    <3>1. [st[q] EXCEPT !.bytes = b] \in StorageState
      BY <1>0 DEF StorageState
    <3>2. moved[q] + n \in Nat
      BY <1>0
    <3> QED
      BY <1>0, <1>3, <3>1, <3>2
  <2>2. ConnEffect(q, n)
    BY <1>0, <1>3 DEF ConnEffect, StorageState
  <2>3. \A s \in Storages : s # q => ConnEffect(s, 0)
    BY <1>0, <1>3 DEF ConnEffect
  <2> QED
    BY <2>1, <2>2, <2>3
<1>4. ASSUME NEW n \in 0..1, Add(c) \/ Overwrite(c, n)
      PROVE  /\ st' \in [Storages -> StorageState] /\ moved' \in [Storages -> Nat]
             /\ \A s \in Storages : \E k \in Nat : ConnEffect(s, k)
  <2> DEFINE q == conn[c].s
  <2>1. q \in Storages
    BY <1>4 DEF Add, Overwrite, StructInv, Held, ConnOK
  <2>2. CASE Add(c)
    <3> DEFINE b == st[q].bytes + 1
    <3>1. b \in Nat /\ b <= st[q].bytes + 1
      BY <1>0, <2>1
    <3>2. /\ moved' = [moved EXCEPT ![q] = @ + 1]
          /\ st' = [st EXCEPT ![q].bytes = b]
      BY <1>0, <2>1, <2>2 DEF Add
    <3> HIDE DEF b
    <3> QED  BY <1>3, <2>1, <3>1, <3>2
  <2>3. CASE Overwrite(c, n)
    <3>1. n \in Nat /\ n <= st[q].bytes + n
      BY <1>0, <2>1
    <3> QED  BY <1>3, <2>1, <2>3, <3>1 DEF Overwrite
  <2> QED  BY <1>4, <2>2, <2>3
<1>5. (\E t \in Tags, u \in Uuids : Route(c, t, u)) \/ LoadCounter(c)
        \/ StoreCounter(c) \/ GetCounter(c) \/ CloseConn(c)
      => UNCHANGED <<st, moved>>
  BY DEF Route, LoadCounter, StoreCounter, GetCounter, CloseConn, coreVars
<1> QED
  BY <1>0, <1>1, <1>2, <1>4, <1>5 DEF ConnStep

(* What it does to the connection. *)
LEMMA ConnStepConn ==
  ASSUME StructInv, NEW c \in Conns, ConnStep(c)
  PROVE  /\ conn' \in [Conns -> ConnState]
         /\ \A d \in Conns : ConnOK(conn'[d])
<1>0. /\ conn \in [Conns -> ConnState] /\ conn[c] \in ConnState
      /\ \A d \in Conns : ConnOK(conn[d])
      /\ counter \in [Tags -> 0..MaxCounters] /\ made \in [Tags -> 0..MaxCounters]
  BY Types0 DEF StructInv, Held
(* A step that gives c the state x. *)
<1>1. ASSUME NEW x \in ConnState, conn' = [conn EXCEPT ![c] = x], ConnOK(x)
      PROVE  /\ conn' \in [Conns -> ConnState]
             /\ \A d \in Conns : ConnOK(conn'[d])
  BY <1>0, <1>1
<1>2. ASSUME NEW t \in Tags, NEW u \in Uuids, Route(c, t, u)
      PROVE  /\ conn' \in [Conns -> ConnState]
             /\ \A d \in Conns : ConnOK(conn'[d])
  <2> DEFINE x == [conn[c] EXCEPT !.pc = "load", !.tag = t, !.uuid = u]
  <2>1. x \in ConnState /\ ConnOK(x)
    BY <1>0 DEF ConnState, ConnOK
  <2>2. conn' = [conn EXCEPT ![c] = x]
    BY <1>0, <1>2 DEF Route
  <2> QED
    BY <1>1, <2>1, <2>2
<1>3. CASE LoadCounter(c)
  <2> DEFINE tc == counter[conn[c].tag]
             x == [conn[c] EXCEPT !.pc = IF tc = NoTC THEN "store" ELSE "get",
                                  !.tc = tc]
  <2>1. conn[c].tag \in Tags /\ conn[c].uuid \in Uuids
    BY <1>0, <1>3 DEF LoadCounter, ConnOK
  <2>2. x \in ConnState /\ ConnOK(x)
    BY <1>0, <2>1 DEF ConnState, ConnOK
  <2>3. conn' = [conn EXCEPT ![c] = x]
    BY <1>0, <1>3 DEF LoadCounter
  <2> QED
    BY <1>1, <2>2, <2>3
<1>4. CASE StoreCounter(c)
  <2> DEFINE n == made[conn[c].tag] + 1
             x == [conn[c] EXCEPT !.pc = "get", !.tc = n]
  <2>1. conn[c].tag \in Tags /\ conn[c].uuid \in Uuids
    BY <1>0, <1>4 DEF StoreCounter, ConnOK
  <2>2. n \in 0..MaxCounters
    BY <1>0, <1>4, <2>1, TrafficAssumption DEF StoreCounter
  <2>3. x \in ConnState /\ ConnOK(x)
    BY <1>0, <2>1, <2>2 DEF ConnState, ConnOK
  <2>4. conn' = [conn EXCEPT ![c] = x]
    BY <1>0, <1>4 DEF StoreCounter
  <2> QED
    BY <1>1, <2>3, <2>4
<1>5. ASSUME NEW s \in Storages, conn[c].pc = "get", conn' = Opened(c, s)
      PROVE  /\ conn' \in [Conns -> ConnState]
             /\ \A d \in Conns : ConnOK(conn'[d])
  <2> DEFINE x == [conn[c] EXCEPT !.pc = "open", !.tc = NoTC, !.s = s]
  <2>1. x \in ConnState /\ ConnOK(x)
    BY <1>0, <1>5, NoTag DEF ConnState, ConnOK
  <2>2. conn' = [conn EXCEPT ![c] = x]
    BY <1>0, <1>5 DEF Opened
  <2> QED
    BY <1>1, <2>1, <2>2
<1>6. CASE CloseConn(c)
  <2>1. IdleConn \in ConnState /\ ConnOK(IdleConn)
    BY NoTag DEF IdleConn, ConnState, ConnOK
  <2> QED
    BY <1>1, <1>6, <2>1 DEF CloseConn
<1>7. CASE UNCHANGED conn
  BY <1>0, <1>7
<1>8. (\E s \in Storages : NewStorage(c, s)) \/ GetCounter(c)
        => \E s \in Storages : conn[c].pc = "get" /\ conn' = Opened(c, s)
  BY DEF NewStorage, GetCounter, At
<1>9. Add(c) \/ (\E n \in 0..1 : Overwrite(c, n)) => UNCHANGED conn
  BY DEF Add, Overwrite
<1> QED
  BY <1>2, <1>3, <1>4, <1>5, <1>6, <1>7, <1>8, <1>9 DEF ConnStep

LEMMA ConnStepCounters ==
  ASSUME StructInv, NEW c \in Conns, ConnStep(c)
  PROVE  /\ UNCHANGED <<ctl, changes, uidMap, inbound, rep, taken, raced>>
         /\ counter' \in [Tags -> 0..MaxCounters]
         /\ made' \in [Tags -> 0..MaxCounters]
<1>0. /\ counter \in [Tags -> 0..MaxCounters] /\ made \in [Tags -> 0..MaxCounters]
  BY Types0
<1>1. UNCHANGED <<ctl, changes, uidMap, inbound, rep, taken, raced>>
  BY DEF ConnStep, Route, LoadCounter, StoreCounter, GetCounter, NewStorage,
         Add, Overwrite, CloseConn, coreVars, history
<1>2. CASE StoreCounter(c)
  <2>1. conn[c].tag \in Tags
    BY <1>2 DEF StoreCounter, StructInv, Held, ConnOK
  <2>2. made[conn[c].tag] + 1 \in 0..MaxCounters
    BY <1>0, <1>2, <2>1, TrafficAssumption DEF StoreCounter
  <2> QED
    BY <1>0, <1>1, <1>2, <2>1, <2>2 DEF StoreCounter
<1>3. CASE ~StoreCounter(c)
  <2>1. UNCHANGED <<counter, made>>
    BY <1>3 DEF ConnStep, Route, LoadCounter, GetCounter, NewStorage,
                Add, Overwrite, CloseConn, coreVars
  <2> QED
    BY <1>0, <1>1, <2>1
<1> QED
  BY <1>2, <1>3

LEMMA ConnStepStruct ==
  ASSUME StructInv, NEW c \in Conns, ConnStep(c)
  PROVE  StructInv'
<1>1. TypeOK'
  BY ConnStepStorages, ConnStepConn, ConnStepCounters DEF StructInv, TypeOK
<1>2. \A s \in Storages : st[s].tag \in Tags => st'[s].tag \in Tags
  BY ConnStepStorages DEF ConnEffect
<1>3. UNCHANGED <<ctl, rep>>
  BY ConnStepCounters
<1>4. Held'
  BY <1>2, <1>3, ConnStepConn DEF StructInv, Held, RepOK
<1> QED
  BY <1>1, <1>4 DEF StructInv

-----------------------------------------------------------------------------
(* What a step of the report goroutine r does, one part of the state at a  *)
(* time.                                                                   *)
LEMMA RepOthers ==
  ASSUME StructInv, NEW r \in Reporters, ReportStep(r)
  PROVE  /\ UNCHANGED <<ctl, changes, uidMap, inbound, counter, made, conn,
                        moved>>
         /\ \A q \in Reporters : q # r => rep'[q] = rep[q]
<1>1. UNCHANGED <<ctl, changes, uidMap, inbound, counter, made, conn, moved>>
  BY DEF ReportStep, Begin, Stop, Load, Reset, Check, Emit, End, Post, coreVars
<1>2. ASSUME NEW q \in Reporters, q # r
      PROVE  rep'[q] = rep[q]
  BY <1>2, Types0
     DEF ReportStep, Begin, Stop, Load, Reset, Check, Emit, End, Post
<1> QED
  BY <1>1, <1>2

(* y is the state of the goroutine after the step. *)
Moves(r, y) == y \in RepState /\ rep' = [rep EXCEPT ![r] = y] /\ rep'[r] = y

LEMMA BeginEffect ==
  ASSUME StructInv, NEW r \in Reporters, Begin(r)
  PROVE  \E y : /\ Moves(r, y) /\ y.pc = "range" /\ y.ctl = rep[r].ctl
                /\ y.tag \in Tags
                /\ y.slice = rep[r].slice /\ rep[r].pc = "idle"
                /\ UNCHANGED <<st, taken, raced>>
<1> DEFINE t == ctl[rep[r].ctl].tag
           y == [rep[r] EXCEPT !.pc = "range", !.tag = t, !.tc = counter[t],
                               !.todo = Uuids]
<1>0. rep \in [Reporters -> RepState] /\ rep[r] \in RepState
  BY Types0
<1>1. t \in Tags
  BY DEF Begin, StructInv, Held, RepOK
<1>2. counter[t] \in 0..MaxCounters
  BY <1>1, Types0
<1>3. /\ y \in RepState /\ y.pc = "range" /\ y.ctl = rep[r].ctl
      /\ y.slice = rep[r].slice /\ y.tag \in Tags
  BY <1>0, <1>1, <1>2 DEF RepState
<1>4. rep' = [rep EXCEPT ![r] = y]
  BY <1>0 DEF Begin
<1> HIDE DEF y
<1>5. Moves(r, y)
  BY <1>0, <1>3, <1>4 DEF Moves
<1>6. rep[r].pc = "idle" /\ UNCHANGED <<st, taken, raced>>
  BY DEF Begin, coreVars, history
<1> QED
  BY <1>3, <1>5, <1>6

LEMMA LoadEffect ==
  ASSUME StructInv, NEW r \in Reporters, NEW u \in Uuids, Load(r, u)
  PROVE  \E y : /\ Moves(r, y) /\ y.ctl = rep[r].ctl /\ y.tag = rep[r].tag
                /\ y.slice = rep[r].slice /\ rep[r].pc = "range"
                /\ UNCHANGED <<st, taken>>
                /\ \/ y.pc = "range" /\ UNCHANGED raced
                   \/ /\ y.pc = "reset" /\ y.s \in Storages
                      /\ st[y.s].tag = rep[r].tag /\ y.val = st[y.s].bytes
                      /\ y.val > ReportMinTraffic
                      /\ raced' = IF LoadedByAnother(r, y.s)
                                  THEN raced \cup {y.s} ELSE raced
<1>0. /\ rep \in [Reporters -> RepState] /\ rep[r] \in RepState
      /\ rep[r].todo \ {u} \in SUBSET Uuids
  BY Types0 DEF RepState
<1>1. rep[r].pc = "range" /\ UNCHANGED <<st, taken>>
  BY DEF Load, coreVars
<1>2. CASE rep' = [rep EXCEPT ![r].todo = @ \ {u}] /\ UNCHANGED raced
  <2> DEFINE y == [rep[r] EXCEPT !.todo = @ \ {u}]
  <2>1. /\ y \in RepState /\ y.pc = "range" /\ y.ctl = rep[r].ctl
        /\ y.slice = rep[r].slice /\ y.tag = rep[r].tag
    BY <1>0, <1>1 DEF RepState
  <2>2. rep' = [rep EXCEPT ![r] = y]
    BY <1>0, <1>2
  <2> HIDE DEF y
  <2>3. Moves(r, y)
    BY <1>0, <2>1, <2>2 DEF Moves
  <2> QED
    BY <1>1, <1>2, <2>1, <2>3
<1>3. ASSUME NEW s \in ToReport(r, u),
             rep' = [rep EXCEPT ![r].pc = "reset", ![r].todo = @ \ {u},
                                ![r].s = s, ![r].val = st[s].bytes],
             raced' = IF LoadedByAnother(r, s) THEN raced \cup {s} ELSE raced
      PROVE  \E y : /\ Moves(r, y) /\ y.ctl = rep[r].ctl
                    /\ y.slice = rep[r].slice /\ y.tag = rep[r].tag
                    /\ y.pc = "reset" /\ y.s = s /\ y.val = st[s].bytes
  <2> DEFINE y == [rep[r] EXCEPT !.pc = "reset", !.todo = @ \ {u},
                                 !.s = s, !.val = st[s].bytes]
  <2>0. s \in Storages /\ st[s].bytes \in Nat
    BY Types0 DEF ToReport, At
  <2>1. /\ y \in RepState /\ y.pc = "reset" /\ y.ctl = rep[r].ctl
        /\ y.slice = rep[r].slice /\ y.s = s /\ y.val = st[s].bytes
        /\ y.tag = rep[r].tag
    BY <1>0, <2>0 DEF RepState
  <2>2. rep' = [rep EXCEPT ![r] = y]
    BY <1>0, <1>3
  <2> HIDE DEF y
  <2>3. Moves(r, y)
    BY <1>0, <2>1, <2>2 DEF Moves
  <2> QED
    BY <2>1, <2>3
<1>4. CASE \E s \in ToReport(r, u) :
             /\ rep' = [rep EXCEPT ![r].pc = "reset", ![r].todo = @ \ {u},
                                   ![r].s = s, ![r].val = st[s].bytes]
             /\ raced' = IF LoadedByAnother(r, s) THEN raced \cup {s} ELSE raced
  <2>1. PICK s \in ToReport(r, u) :
             /\ rep' = [rep EXCEPT ![r].pc = "reset", ![r].todo = @ \ {u},
                                   ![r].s = s, ![r].val = st[s].bytes]
             /\ raced' = IF LoadedByAnother(r, s) THEN raced \cup {s} ELSE raced
    BY <1>4
  <2>2. s \in Storages /\ st[s].tag = rep[r].tag /\ st[s].bytes > ReportMinTraffic
    BY DEF ToReport, At
  <2>3. PICK y : /\ Moves(r, y) /\ y.ctl = rep[r].ctl
                 /\ y.slice = rep[r].slice /\ y.tag = rep[r].tag
                 /\ y.pc = "reset" /\ y.s = s /\ y.val = st[s].bytes
    BY <1>3, <2>1
  <2> QED
    BY <1>1, <2>1, <2>2, <2>3
<1> QED
  BY <1>2, <1>4 DEF Load

LEMMA ResetEffect ==
  ASSUME StructInv, NEW r \in Reporters, Reset(r)
  PROVE  \E y : /\ Moves(r, y) /\ y.pc = "check" /\ y.ctl = rep[r].ctl
                /\ y.slice = rep[r].slice /\ y.s = rep[r].s /\ y.val = rep[r].val
                /\ y.tag = rep[r].tag
                /\ rep[r].pc = "reset" /\ rep[r].s \in Storages
                /\ st' = [st EXCEPT ![rep[r].s].bytes = 0]
                /\ taken' = [taken EXCEPT ![rep[r].s] = @ + rep[r].val]
                /\ UNCHANGED raced
<1> DEFINE y == [rep[r] EXCEPT !.pc = "check"]
<1>0. rep \in [Reporters -> RepState] /\ rep[r] \in RepState
  BY Types0
<1>1. /\ y \in RepState /\ y.pc = "check" /\ y.ctl = rep[r].ctl
      /\ y.slice = rep[r].slice /\ y.s = rep[r].s /\ y.val = rep[r].val
      /\ y.tag = rep[r].tag
  BY <1>0 DEF RepState
<1>2. rep' = [rep EXCEPT ![r] = y]
  BY <1>0 DEF Reset
<1> HIDE DEF y
<1>3. Moves(r, y)
  BY <1>0, <1>1, <1>2 DEF Moves
<1>4. rep[r].pc = "reset" /\ rep[r].s \in Storages
  BY Types0 DEF Reset, Holding
<1> QED
  BY <1>1, <1>3, <1>4 DEF Reset

LEMMA NextKeyType ==
  ASSUME StructInv, NEW r \in Reporters
  PROVE  /\ NextKey(r) \in RepState /\ NextKey(r).pc = "range"
         /\ NextKey(r).tag = rep[r].tag
         /\ NextKey(r).ctl = rep[r].ctl /\ NextKey(r).slice = rep[r].slice
<1>1. rep[r] \in RepState
  BY Types0
<1> QED
  BY <1>1 DEF NextKey, RepState

LEMMA CheckEffect ==
  ASSUME StructInv, NEW r \in Reporters, Check(r)
  PROVE  \E y : /\ Moves(r, y) /\ y.ctl = rep[r].ctl
                /\ y.tag = rep[r].tag
                /\ y.slice = rep[r].slice /\ rep[r].pc = "check"
                /\ rep[r].s \in Storages
                /\ IF st[rep[r].s].uuid \in uidMap
                   THEN /\ y.pc = "emit" /\ y.s = rep[r].s
                        /\ y.val = rep[r].val /\ UNCHANGED st
                   ELSE y.pc = "range"
                /\ st' \in [Storages -> StorageState]
                /\ \A s \in Storages : /\ st'[s].tag = st[s].tag
                                       /\ st'[s].uuid = st[s].uuid
                                       /\ st'[s].bytes = st[s].bytes
                /\ UNCHANGED <<taken, raced>>
<1>0. /\ rep \in [Reporters -> RepState] /\ rep[r] \in RepState
      /\ rep[r].pc = "check" /\ rep[r].s \in Storages
  BY Types0 DEF Check, Holding
<1>1. UNCHANGED <<taken, raced>>
  BY DEF Check, history
<1>2. CASE st[rep[r].s].uuid \in uidMap
  <2> DEFINE y == [rep[r] EXCEPT !.pc = "emit"]
  <2>1. /\ y \in RepState /\ y.pc = "emit" /\ y.ctl = rep[r].ctl
        /\ y.slice = rep[r].slice /\ y.s = rep[r].s /\ y.val = rep[r].val
        /\ y.tag = rep[r].tag
    BY <1>0 DEF RepState
  <2>2. rep' = [rep EXCEPT ![r] = y] /\ UNCHANGED st
    BY <1>0, <1>2 DEF Check
  <2> HIDE DEF y
  <2>3. Moves(r, y)
    BY <1>0, <2>1, <2>2 DEF Moves
  <2> QED
    BY <1>0, <1>1, <1>2, <2>1, <2>2, <2>3, Types0
<1>3. CASE st[rep[r].s].uuid \notin uidMap
  <2>1. /\ rep' = [rep EXCEPT ![r] = NextKey(r)]
        /\ st' = Detach(rep[r].tag, rep[r].tc, {st[rep[r].s].uuid})
    BY <1>3 DEF Check
  <2>2. Moves(r, NextKey(r))
    BY <1>0, <2>1, NextKeyType DEF Moves
  <2>3. /\ st' \in [Storages -> StorageState]
        /\ \A s \in Storages : /\ st'[s].tag = st[s].tag
                               /\ st'[s].uuid = st[s].uuid
                               /\ st'[s].bytes = st[s].bytes
    BY <2>1, DetachType DEF StructInv
  <2> QED
    BY <1>0, <1>1, <1>3, <2>2, <2>3, NextKeyType
<1> QED
  BY <1>2, <1>3

LEMMA EmitEffect ==
  ASSUME StructInv, NEW r \in Reporters, Emit(r)
  PROVE  \E y : /\ Moves(r, y) /\ y.pc = "range" /\ y.ctl = rep[r].ctl
                /\ rep[r].pc = "emit" /\ rep[r].s \in Storages
                /\ y.tag = rep[r].tag
                /\ y.slice = [rep[r].slice EXCEPT ![rep[r].s] = @ + rep[r].val]
                /\ UNCHANGED <<st, taken, raced>>
<1> DEFINE z == NextKey(r)
           f == [z.slice EXCEPT ![rep[r].s] = @ + rep[r].val]
           y == [NextKey(r) EXCEPT !.slice[rep[r].s] = @ + rep[r].val]
<1>0. /\ rep \in [Reporters -> RepState] /\ rep[r].val \in Nat
      /\ rep[r].pc = "emit" /\ rep[r].s \in Storages
      /\ rep[r].slice \in [Storages -> Nat]
  BY Types0 DEF Emit, Holding
<1>1. z \in RepState /\ z.pc = "range" /\ z.tag = rep[r].tag /\ z.ctl = rep[r].ctl /\ z.slice = rep[r].slice
  BY NextKeyType
<1>2. rep' = [rep EXCEPT ![r] = y]
  BY DEF Emit
<1>3. f \in [Storages -> Nat]
  BY <1>0, <1>1
<1>4. y \in RepState /\ y.pc = "range" /\ y.ctl = rep[r].ctl /\ y.slice = f
      /\ y.tag = rep[r].tag
  BY <1>1, <1>3 DEF RepState
<1> HIDE DEF z, f
<1> HIDE DEF y
<1>5. Moves(r, y)
  BY <1>0, <1>2, <1>4 DEF Moves
<1>6. UNCHANGED <<st, taken, raced>>
  BY DEF Emit, coreVars, history
<1> QED
  BY <1>0, <1>1, <1>4, <1>5, <1>6 DEF f

LEMMA EndEffect ==
  ASSUME StructInv, NEW r \in Reporters, End(r)
  PROVE  \E y : /\ Moves(r, y) /\ y.pc = "post" /\ y.ctl = rep[r].ctl
                /\ y.slice = rep[r].slice /\ rep[r].pc = "range"
                /\ UNCHANGED <<st, taken, raced>>
<1> DEFINE y == [rep[r] EXCEPT !.pc = "post", !.tag = None, !.tc = NoTC]
<1>0. rep \in [Reporters -> RepState] /\ rep[r] \in RepState
  BY Types0
<1>1. /\ y \in RepState /\ y.pc = "post" /\ y.ctl = rep[r].ctl
      /\ y.slice = rep[r].slice
  BY <1>0, NoTag DEF RepState
<1>2. rep' = [rep EXCEPT ![r] = y]
  BY <1>0 DEF End
<1> HIDE DEF y
<1>3. Moves(r, y)
  BY <1>0, <1>1, <1>2 DEF Moves
<1>4. rep[r].pc = "range" /\ UNCHANGED <<st, taken, raced>>
  BY DEF End, coreVars, history
<1> QED
  BY <1>1, <1>3, <1>4

(* Stop and Post leave nothing behind. *)
LEMMA RestEffect ==
  ASSUME StructInv, NEW r \in Reporters, Stop(r) \/ Post(r)
  PROVE  \E y : /\ Moves(r, y) /\ y.slice = NoBytes
                /\ UNCHANGED <<st, taken, raced>>
                /\ \/ Stop(r) /\ rep[r].pc = "idle" /\ y.pc = "gone"
                      /\ y.ctl = None /\ ~ctl[rep[r].ctl].open
                   \/ Post(r) /\ rep[r].pc = "post" /\ y.pc = "idle"
                      /\ y.ctl = rep[r].ctl
<1>0. rep \in [Reporters -> RepState]
  BY Types0
<1>1. UNCHANGED <<st, taken, raced>>
  BY DEF Stop, Post, coreVars, history
<1>2. CASE Stop(r)
  <2>1. Moves(r, GoneRep)
    BY <1>0, <1>2, GoneType DEF Stop, Moves
  <2> QED
    BY <1>1, <1>2, <2>1, GoneType DEF Stop
<1>3. CASE Post(r)
  <2>1. rep[r].ctl \in Controllers /\ rep[r].pc = "post"
    BY <1>3 DEF Post, StructInv, Held, RepOK
  <2>2. Moves(r, IdleRep(rep[r].ctl))
    BY <1>0, <1>3, <2>1, GoneType DEF Post, Moves
  <2> QED
    BY <1>1, <1>3, <2>1, <2>2, GoneType
<1> QED
  BY <1>2, <1>3

LEMMA ReportStepStorages ==
  ASSUME StructInv, NEW r \in Reporters, ReportStep(r)
  PROVE  /\ st' \in [Storages -> StorageState] /\ taken' \in [Storages -> Nat]
         /\ raced' \in SUBSET Storages
         /\ \A s \in Storages : /\ st'[s].tag = st[s].tag
                                /\ st'[s].uuid = st[s].uuid
<1>0. /\ st \in [Storages -> StorageState] /\ taken \in [Storages -> Nat]
      /\ raced \in SUBSET Storages
  BY Types0
<1>1. CASE Reset(r)
  <2> DEFINE h == rep[r].s
  <2>1. /\ h \in Storages /\ st' = [st EXCEPT ![h].bytes = 0]
        /\ taken' = [taken EXCEPT ![h] = @ + rep[r].val] /\ UNCHANGED raced
    BY <1>1, ResetEffect
  <2>2. taken[h] + rep[r].val \in Nat
    BY <2>1, Types0
  <2>3. [st[h] EXCEPT !.bytes = 0] \in StorageState
    BY <1>0, <2>1 DEF StorageState
  <2> QED
    BY <1>0, <2>1, <2>2, <2>3 DEF StorageState
<1>2. CASE Check(r)
  BY <1>0, <1>2, CheckEffect
<1>3. ASSUME NEW u \in Uuids, Load(r, u)
      PROVE  UNCHANGED <<st, taken>> /\ raced' \in SUBSET Storages
  BY <1>0, <1>3, LoadEffect
<1>4. Begin(r) \/ Stop(r) \/ Emit(r) \/ End(r) \/ Post(r)
        => UNCHANGED <<st, taken, raced>>
  BY DEF Begin, Stop, Emit, End, Post, coreVars, history
<1> QED
  BY <1>0, <1>1, <1>2, <1>3, <1>4 DEF ReportStep

LEMMA ReportStepStruct ==
  ASSUME StructInv, NEW r \in Reporters, ReportStep(r)
  PROVE  StructInv'
<1>0. /\ rep \in [Reporters -> RepState] /\ RepOK(rep[r], st, ctl)
      /\ TrafficAssumption
  BY Types0, TrafficAssumption DEF StructInv, Held
<1>1. \E y : Moves(r, y) /\ RepOK(y, st, ctl)
  <2>1. CASE Begin(r)
    BY <1>0, <2>1, BeginEffect DEF RepOK
  <2>2. CASE Stop(r) \/ Post(r)
    BY <1>0, <2>2, RestEffect DEF RepOK
  <2>3. ASSUME NEW u \in Uuids, Load(r, u)
        PROVE  \E y : Moves(r, y) /\ RepOK(y, st, ctl)
    <3>1. PICK y : /\ Moves(r, y) /\ y.ctl = rep[r].ctl /\ y.tag = rep[r].tag
                   /\ rep[r].pc = "range"
                   /\ \/ y.pc = "range"
                      \/ /\ y.pc = "reset" /\ y.s \in Storages
                         /\ st[y.s].tag = rep[r].tag
      BY <2>3, LoadEffect
    <3> QED
      BY <1>0, <3>1 DEF RepOK
  <2>4. CASE Reset(r)
    <3>1. PICK y : /\ Moves(r, y) /\ y.pc = "check" /\ y.ctl = rep[r].ctl
                   /\ y.tag = rep[r].tag /\ rep[r].pc = "reset"
                   /\ y.s = rep[r].s
      BY <2>4, ResetEffect
    <3> QED
      BY <1>0, <3>1 DEF RepOK
  <2>5. CASE Check(r)
    BY <1>0, <2>5, CheckEffect DEF RepOK
  <2>6. CASE Emit(r)
    <3>1. PICK y : /\ Moves(r, y) /\ y.pc = "range" /\ y.ctl = rep[r].ctl
                   /\ y.tag = rep[r].tag /\ rep[r].pc = "emit"
      BY <2>6, EmitEffect
    <3> QED
      BY <1>0, <3>1 DEF RepOK
  <2>7. CASE End(r)
    BY <1>0, <2>7, EndEffect DEF RepOK
  <2> QED
    BY <2>1, <2>2, <2>3, <2>4, <2>5, <2>6, <2>7 DEF ReportStep
<1>2. PICK y : Moves(r, y) /\ RepOK(y, st, ctl)
  BY <1>1
<1>3. rep' \in [Reporters -> RepState]
  BY <1>0, <1>2 DEF Moves
<1>4. TypeOK'
  BY <1>3, RepOthers, ReportStepStorages DEF StructInv, TypeOK
<1>5. \A q \in Reporters : RepOK(rep'[q], st, ctl)
  BY <1>2, RepOthers DEF Moves, StructInv, Held
<1>6. UNCHANGED <<ctl, conn>> /\ \A s \in Storages : st'[s].tag = st[s].tag
  BY RepOthers, ReportStepStorages
<1>7. Held'
  BY <1>5, <1>6, HeldStep DEF StructInv, Held
<1> QED
  BY <1>4, <1>7 DEF StructInv

LEMMA StructStep == StructInv /\ [Next]_vars => StructInv'
<1>1. ASSUME StructInv, UNCHANGED vars
      PROVE  StructInv'
  <2>1. UNCHANGED <<ctl, changes, uidMap, inbound, counter, made, st, conn, rep,
                    moved, taken, raced>>
    BY <1>1 DEF vars, coreVars, history
  <2> QED
    BY <1>1, <2>1 DEF StructInv, TypeOK, Held
<1> QED
  BY <1>1, CtlStepStruct, ConnStepStruct, ReportStepStruct DEF Next

(* All counting and reporting state keeps its type. *)
THEOREM TypeCorrect == Spec => []TypeOK
<1>1. Init => StructInv      BY StructInit
<1>2. StructInv => TypeOK    BY DEF StructInv
<1> QED                      BY <1>1, <1>2, StructStep, PTL DEF Spec

-----------------------------------------------------------------------------
(* No report carries the uid 0: a report that found the user in uidMap     *)
(* holds the lock against whoever would delete him.                        *)
LEMMA NoZeroUidStep ==
  ASSUME StructInv, NoZeroUid, [Next]_vars
  PROVE  NoZeroUid'
<1>0. \A r \in Reporters :
        Holding(r) => rep[r].s \in Storages /\ st[rep[r].s].tag \in Tags
  BY Types0
(* Nothing a held entry depends on changes. *)
<1>1. ASSUME \A r \in Reporters :
               rep'[r].pc = "emit" => rep[r].pc = "emit" /\ rep'[r].s = rep[r].s,
             \A s \in Storages : st[s].tag \in Tags => st'[s].uuid = st[s].uuid,
             uidMap \subseteq uidMap'
      PROVE  NoZeroUid'
  BY <1>0, <1>1 DEF Holding, NoZeroUid
<1>2. ASSUME NEW c \in Controllers, CtlStep(c)
      PROVE  NoZeroUid'
  <2>1. /\ \A s \in Storages : st'[s].uuid = st[s].uuid
        /\ \A q \in Reporters : \/ rep'[q] = rep[q]
                                \/ rep'[q].pc # "emit"
    BY <1>2, CtlStepStorages, CtlStepEffect, GoneType DEF CtlEffect
  <2>2. ASSUME NEW U, NEW ok, DelUsers(c, U, ok)
        PROVE  NoZeroUid'
    <3>1. \A r \in Reporters : rep'[r].pc # "emit"
      BY <2>2 DEF DelUsers, WriteLockFree
    <3> QED  BY <3>1 DEF NoZeroUid
  <2>3. CASE ~\E U \in (SUBSET Uuids) \ {{}}, ok \in BOOLEAN : DelUsers(c, U, ok)
    <3>1. uidMap \subseteq uidMap'
      BY <1>2, <2>3
         DEF CtlStep, Start, Reload, Restart, Close, AddUsers, coreVars
    <3> QED  BY <1>1, <2>1, <3>1
  <2> QED  BY <2>2, <2>3
<1>3. ASSUME NEW c \in Conns, ConnStep(c)
      PROVE  NoZeroUid'
  <2>1. \A s \in Storages : st[s].tag \in Tags => st'[s].uuid = st[s].uuid
    BY <1>3, ConnStepStorages DEF ConnEffect
  <2>2. UNCHANGED <<uidMap, rep>>
    BY <1>3, ConnStepCounters
  <2> QED  BY <1>1, <2>1, <2>2
<1>4. ASSUME NEW r \in Reporters, ReportStep(r)
      PROVE  NoZeroUid'
  <2>1. /\ UNCHANGED uidMap /\ \A s \in Storages : st'[s].uuid = st[s].uuid
        /\ \A q \in Reporters : q # r => rep'[q] = rep[q]
    BY <1>4, RepOthers, ReportStepStorages
  <2>2. \/ rep'[r].pc # "emit"
        \/ rep[r].pc = "check" /\ rep'[r].s = rep[r].s
             /\ st[rep[r].s].uuid \in uidMap
    <3>1. CASE Check(r)
      BY <3>1, CheckEffect DEF Moves
    <3>2. CASE Begin(r)
      BY <3>2, BeginEffect DEF Moves
    <3>3. CASE Stop(r) \/ Post(r)
      BY <3>3, RestEffect DEF Moves
    <3>4. ASSUME NEW u \in Uuids, Load(r, u)
          PROVE  rep'[r].pc # "emit"
      BY <3>4, LoadEffect DEF Moves
    <3>5. CASE Reset(r)
      BY <3>5, ResetEffect DEF Moves
    <3>6. CASE Emit(r)
      BY <3>6, EmitEffect DEF Moves
    <3>7. CASE End(r)
      BY <3>7, EndEffect DEF Moves
    <3> QED
      BY <1>4, <3>1, <3>2, <3>3, <3>4, <3>5, <3>6, <3>7 DEF ReportStep
  <2> QED  BY <1>0, <2>1, <2>2 DEF NoZeroUid, Holding
<1>5. CASE UNCHANGED vars
  BY <1>5 DEF vars, coreVars, NoZeroUid
<1> QED
  BY <1>2, <1>3, <1>4, <1>5 DEF Next

(* GetUserTrafficSlice holds the read lock between its two lookups of      *)
(* uidMap: no report carries uid 0, for any number of report goroutines.   *)
THEOREM UidNeverZero == Spec => []NoZeroUid
<1>1. Init => StructInv /\ NoZeroUid
  <2>1. Init => NoZeroUid
    BY GoneType DEF Init, NoZeroUid
  <2> QED  BY <2>1, StructInit
<1>2. StructInv /\ NoZeroUid /\ [Next]_vars => (StructInv /\ NoZeroUid)'
  BY StructStep, NoZeroUidStep
<1> QED
  BY <1>1, <1>2, PTL DEF Spec

-----------------------------------------------------------------------------
(* The reports that have loaded the count of s and not reset it. *)
Loaded(r, s) == rep[r].pc = "reset" /\ rep[r].s = s

(* Of a storage that was not raced at most one report has loaded the       *)
(* count, and with it has taken no more than moved.                        *)
TakenOnce(s) ==
  /\ taken[s] + st[s].bytes <= moved[s]
  /\ \A r \in Reporters :
       Loaded(r, s) => /\ taken[s] + rep[r].val <= moved[s]
                       /\ \A q \in Reporters : Loaded(q, s) => q = r

Counted == \A s \in Storages \ raced : TakenOnce(s)

(* Steps that leave the reports' loaded counts alone. *)
LEMMA TakenKept ==
  ASSUME StructInv, StructInv', NEW s \in Storages, TakenOnce(s),
         \A r \in Reporters :
           Loaded(r, s)' => Loaded(r, s) /\ rep'[r].val = rep[r].val,
         taken'[s] = taken[s], NEW n \in Nat,
         moved'[s] = moved[s] + n,
         \/ st'[s].bytes <= st[s].bytes + n
         \/ st'[s].bytes = 0
  PROVE  TakenOnce(s)'
<1>0. /\ taken[s] \in Nat /\ moved[s] \in Nat /\ st[s].bytes \in Nat
      /\ moved'[s] \in Nat /\ st'[s].bytes \in Nat
      /\ \A r \in Reporters : rep[r].val \in Nat
  <2>1. st' \in [Storages -> StorageState] /\ moved' \in [Storages -> Nat]
    BY DEF StructInv, TypeOK
  <2>2. st'[s].bytes \in Nat /\ moved'[s] \in Nat
    BY <2>1 DEF StorageState
  <2> QED  BY <2>2, Types0
<1>1. taken'[s] + st'[s].bytes <= moved'[s]
  BY <1>0 DEF TakenOnce
<1>2. ASSUME NEW r \in Reporters, Loaded(r, s)'
      PROVE  /\ taken'[s] + rep'[r].val <= moved'[s]
             /\ \A q \in Reporters : Loaded(q, s)' => q = r
  BY <1>0, <1>2 DEF TakenOnce
<1> QED
  BY <1>1, <1>2 DEF TakenOnce

LEMMA CountedStep ==
  ASSUME StructInv, StructInv', Counted, [Next]_vars
  PROVE  Counted'
<1>0. /\ taken \in [Storages -> Nat] /\ moved \in [Storages -> Nat]
      /\ \A s \in Storages : st[s].bytes \in Nat /\ moved[s] = moved[s] + 0
                             /\ taken[s] \in Nat /\ moved[s] \in Nat
      /\ st \in [Storages -> StorageState]
  BY Types0
<1>1. ASSUME NEW c \in Controllers, CtlStep(c)
      PROVE  Counted'
  <2>1. ASSUME NEW s \in Storages, TakenOnce(s)
        PROVE  TakenOnce(s)'
    <3>1. /\ taken'[s] = taken[s] /\ moved'[s] = moved[s] + 0
          /\ st'[s].bytes = st[s].bytes /\ st[s].bytes <= st[s].bytes + 0
      BY <1>0, <1>1, CtlStepStorages
    <3>2. \A r \in Reporters :
            Loaded(r, s)' => Loaded(r, s) /\ rep'[r].val = rep[r].val
      BY <1>1, CtlStepEffect, GoneType DEF CtlEffect, Loaded
    <3> QED  BY <2>1, <3>1, <3>2, TakenKept
  <2>2. UNCHANGED raced
    BY <1>1, CtlStepStorages
  <2> QED  BY <2>1, <2>2 DEF Counted
<1>2. ASSUME NEW c \in Conns, ConnStep(c)
      PROVE  Counted'
  <2>1. UNCHANGED <<rep, taken, raced>>
    BY <1>2, ConnStepCounters
  <2>2. ASSUME NEW s \in Storages, TakenOnce(s)
        PROVE  TakenOnce(s)'
    <3>1. PICK n \in Nat : ConnEffect(s, n)
      BY <1>2, ConnStepStorages
    <3>2. \A r \in Reporters :
            Loaded(r, s)' => Loaded(r, s) /\ rep'[r].val = rep[r].val
      BY <2>1 DEF Loaded
    <3> QED  BY <2>1, <2>2, <3>1, <3>2, TakenKept DEF ConnEffect
  <2> QED  BY <2>1, <2>2 DEF Counted
<1>3. ASSUME NEW r \in Reporters, ReportStep(r)
      PROVE  Counted'
  <2>0. UNCHANGED moved /\ \A q \in Reporters : q # r => rep'[q] = rep[q]
    BY <1>3, RepOthers
  (* A step that neither loads nor resets. *)
  <2>1. ASSUME rep'[r].pc # "reset", UNCHANGED <<taken, raced>>,
               \A s \in Storages : st'[s].bytes = st[s].bytes
        PROVE  Counted'
    <3>1. ASSUME NEW s \in Storages, TakenOnce(s)
          PROVE  TakenOnce(s)'
      <4>1. \A q \in Reporters :
              Loaded(q, s)' => Loaded(q, s) /\ rep'[q].val = rep[q].val
        BY <2>0, <2>1 DEF Loaded
      <4>2. /\ taken'[s] = taken[s] /\ moved'[s] = moved[s] + 0
            /\ st'[s].bytes <= st[s].bytes + 0
        BY <1>0, <2>0, <2>1
      <4> QED  BY <3>1, <4>1, <4>2, TakenKept
    <3> QED  BY <2>1, <3>1 DEF Counted
  <2>2. CASE Begin(r)
    BY <2>1, <2>2, BeginEffect DEF Moves
  <2>3. CASE Stop(r) \/ Post(r)
    BY <2>1, <2>3, RestEffect DEF Moves
  <2>4. CASE Check(r)
    BY <2>1, <2>4, CheckEffect DEF Moves
  <2>5. CASE Emit(r)
    BY <2>1, <2>5, EmitEffect DEF Moves
  <2>6. CASE End(r)
    BY <2>1, <2>6, EndEffect DEF Moves
  <2>7. ASSUME NEW u \in Uuids, Load(r, u)
        PROVE  Counted'
    <3>1. PICK y : /\ Moves(r, y) /\ UNCHANGED <<st, taken>>
                   /\ \/ y.pc = "range" /\ UNCHANGED raced
                      \/ /\ y.pc = "reset" /\ y.s \in Storages
                         /\ y.val = st[y.s].bytes
                         /\ raced' = IF LoadedByAnother(r, y.s)
                                     THEN raced \cup {y.s} ELSE raced
      BY <2>7, LoadEffect
    <3>2. CASE y.pc = "range" /\ UNCHANGED raced
      BY <2>1, <3>1, <3>2 DEF Moves
    <3>3. CASE /\ y.pc = "reset" /\ y.s \in Storages
               /\ y.val = st[y.s].bytes
               /\ raced' = IF LoadedByAnother(r, y.s)
                           THEN raced \cup {y.s} ELSE raced
      <4>1. rep'[r] = y
        BY <3>1 DEF Moves
      <4>2. ASSUME NEW s \in Storages \ raced'
            PROVE  TakenOnce(s)'
        <5>1. TakenOnce(s)
          BY <3>3, <4>2 DEF Counted
        <5>2. CASE s # y.s
          <6>1. \A q \in Reporters :
                  Loaded(q, s)' => Loaded(q, s) /\ rep'[q].val = rep[q].val
            BY <2>0, <4>1, <5>2 DEF Loaded
          <6>2. /\ taken'[s] = taken[s] /\ moved'[s] = moved[s] + 0
                /\ st'[s].bytes <= st[s].bytes + 0
            BY <1>0, <2>0, <3>1
          <6> QED  BY <5>1, <6>1, <6>2, TakenKept
        <5>3. CASE s = y.s
          <6>1. \A q \in Reporters : Loaded(q, s)' => q = r
            BY <2>0, <3>3, <4>2, <5>3 DEF Loaded, LoadedByAnother
          <6>2. rep'[r].val = st[s].bytes
            BY <3>3, <4>1, <5>3
          <6>3. taken'[s] + st'[s].bytes <= moved'[s]
            BY <2>0, <3>1, <5>1 DEF TakenOnce
          <6>4. UNCHANGED <<st, taken>>
            BY <3>1
          <6> QED  BY <6>1, <6>2, <6>3, <6>4 DEF TakenOnce
        <5> QED  BY <5>2, <5>3
      <4> QED  BY <4>2 DEF Counted
    <3> QED  BY <3>1, <3>2, <3>3
  <2>8. CASE Reset(r)
    <3> DEFINE h == rep[r].s
    <3>1. PICK y : /\ Moves(r, y) /\ y.pc = "check"
                   /\ rep[r].pc = "reset" /\ h \in Storages
                   /\ st' = [st EXCEPT ![h].bytes = 0]
                   /\ taken' = [taken EXCEPT ![h] = @ + rep[r].val]
                   /\ UNCHANGED raced
      BY <2>8, ResetEffect
    <3>2. rep'[r].pc = "check"
      BY <3>1 DEF Moves
    <3>3. ASSUME NEW s \in Storages, TakenOnce(s)
          PROVE  TakenOnce(s)'
      <4>1. \A q \in Reporters :
              Loaded(q, s)' => q # r /\ Loaded(q, s) /\ rep'[q].val = rep[q].val
        BY <2>0, <3>2 DEF Loaded
      <4>2. CASE s # h
        <5>1. /\ taken'[s] = taken[s] /\ moved'[s] = moved[s] + 0
              /\ st'[s].bytes <= st[s].bytes + 0
          BY <1>0, <2>0, <3>1, <4>2
        <5> QED  BY <3>3, <4>1, <5>1, TakenKept
      <4>3. CASE s = h
        <5>1. /\ taken[s] + rep[r].val <= moved[s]
              /\ \A q \in Reporters : ~Loaded(q, s)'
          BY <3>1, <3>3, <4>1, <4>3 DEF TakenOnce, Loaded
        <5>2. /\ taken'[s] = taken[s] + rep[r].val /\ st'[s].bytes = 0
              /\ moved'[s] = moved[s] /\ rep[r].val \in Nat
          BY <1>0, <2>0, <3>1, <4>3, Types0 DEF StorageState
        <5>3. taken'[s] + st'[s].bytes <= moved'[s]
          BY <1>0, <5>1, <5>2
        <5> QED  BY <5>1, <5>3 DEF TakenOnce
      <4> QED  BY <4>2, <4>3
    <3> QED  BY <3>1, <3>3 DEF Counted
  <2> QED
    BY <1>3, <2>2, <2>3, <2>4, <2>5, <2>6, <2>7, <2>8 DEF ReportStep
<1>4. CASE UNCHANGED vars
  BY <1>4 DEF vars, coreVars, history, Counted, TakenOnce, Loaded
<1> QED
  BY <1>1, <1>2, <1>3, <1>4 DEF Next

(* No byte is put into two reports, for any number of nodes, connections   *)
(* and report goroutines, but on a storage whose count two of them had     *)
(* loaded at once (GetUserTrafficSlice: Load and Store(0)).                *)
THEOREM NoByteReportedTwice == Spec => []NoByteTakenTwice
<1>1. Init => StructInv /\ Counted
  <2>1. Init => Counted
    BY GoneType DEF Init, Counted, TakenOnce, Loaded, NoBytes
  <2> QED  BY <2>1, StructInit
<1>2. StructInv /\ Counted /\ [Next]_vars => (StructInv /\ Counted)'
  BY StructStep, CountedStep
<1>3. Counted => NoByteTakenTwice
  BY DEF Counted, TakenOnce, NoByteTakenTwice
<1> QED
  BY <1>1, <1>2, <1>3, PTL DEF Spec

-----------------------------------------------------------------------------
(* A controller that reports a tag goes on to, unless it gives it up. *)
GivesUp(c, t) ==
  /\ ctl[c].open /\ ctl[c].tag = t
  /\ ~ctl'[c].open \/ ctl'[c].tag # ctl[c].tag

LEMMA LoopsKept ==
  ASSUME NEW c \in Controllers, NEW t,
         ReportedBy(c, t), ctl'[c].open = ctl[c].open, ctl'[c].tag = ctl[c].tag,
         LoopsOf(c)' # {}
  PROVE  ReportedBy(c, t)'
BY DEF ReportedBy

LEMMA CtlStepReports ==
  ASSUME StructInv, NEW c \in Controllers, CtlStep(c),
         NEW d \in Controllers, NEW t, ReportedBy(d, t)
  PROVE  ReportedBy(d, t)' \/ GivesUp(d, t)
<1>0. /\ ctl \in [Controllers -> CtlState] /\ ctl[c] \in CtlState
      /\ LoopsOf(d) # {} /\ ctl[d].open /\ ctl[d].tag = t
  BY Types0 DEF ReportedBy
<1>1. ASSUME UNCHANGED rep, ctl'[d].open = ctl[d].open
      PROVE  ReportedBy(d, t)' \/ GivesUp(d, t)
  BY <1>0, <1>1, LoopsKept DEF GivesUp, LoopsOf
<1>2. ASSUME NEW u \in Tags, NEW U \in SUBSET Uuids, NEW ok \in BOOLEAN,
             Start(c, u, U, ok)
      PROVE  ReportedBy(d, t)'
  <2>1. d # c
    BY <1>0, <1>2 DEF Start
  <2>2. CASE ok
    <3>1. PICK r \in Reporters : Spawn(r, c, {})
      BY <1>2, <2>2 DEF Start
    <3>2. LoopsOf(d)' = LoopsOf(d)
      BY <2>1, <3>1, SpawnType
    <3>3. ctl'[d] = ctl[d]
      BY <1>0, <1>2, <2>1, <2>2 DEF Start
    <3> QED  BY <1>0, <3>2, <3>3, LoopsKept
  <2>3. CASE ~ok
    <3>1. UNCHANGED <<ctl, rep>>
      BY <1>2, <2>3 DEF Start
    <3> QED  BY <1>0, <3>1, LoopsKept DEF LoopsOf
  <2> QED  BY <2>2, <2>3
<1>3. ASSUME NEW u \in Tags, NEW U \in SUBSET Uuids, Reload(c, u, U)
      PROVE  ReportedBy(d, t)' \/ GivesUp(d, t)
  <2>1. UNCHANGED rep /\ ctl'[d].open = ctl[d].open
    BY <1>0, <1>3 DEF Reload, CtlState
  <2> QED  BY <1>1, <2>1
<1>4. CASE Restart(c)
  <2>1. PICK Ended \in SUBSET {r \in LoopsOf(c) : rep[r].pc = "idle"},
             r \in Reporters : Spawn(r, c, Ended)
    BY <1>4 DEF Restart
  <2>2. Ended \in SUBSET LoopsOf(c)
    OBVIOUS
  <2>3. LoopsOf(d)' # {}
    BY <1>0, <2>1, <2>2, SpawnType
  <2>4. ctl' = [ctl EXCEPT ![c].open = TRUE]
    BY <1>4 DEF Restart
  <2>5. ctl'[d].open = ctl[d].open /\ ctl'[d].tag = ctl[d].tag
    <3>1. CASE d = c
      BY <1>0, <2>4, <3>1 DEF CtlState
    <3>2. CASE d # c
      BY <1>0, <2>4, <3>2
    <3> QED  BY <3>1, <3>2
  <2> QED  BY <2>3, <2>5, LoopsKept
<1>5. ASSUME NEW ok \in BOOLEAN, Close(c, ok)
      PROVE  ReportedBy(d, t)' \/ GivesUp(d, t)
  <2>1. UNCHANGED rep /\ ctl' = [ctl EXCEPT ![c].open = FALSE, ![c].up = ~ok]
    BY <1>5 DEF Close
  <2>2. CASE d = c
    BY <1>0, <2>1, <2>2 DEF GivesUp, CtlState
  <2>3. CASE d # c
    BY <1>0, <1>1, <2>1, <2>3
  <2> QED  BY <2>2, <2>3
<1>6. ASSUME NEW U, NEW ok, AddUsers(c, U, ok) \/ DelUsers(c, U, ok)
      PROVE  ReportedBy(d, t)' \/ GivesUp(d, t)
  <2>1. UNCHANGED rep /\ ctl'[d].open = ctl[d].open
    <3>1. ASSUME NEW V, ctl' = [ctl EXCEPT ![c].users = V]
          PROVE  ctl'[d].open = ctl[d].open
      BY <1>0, <3>1 DEF CtlState
    <3>2. \/ ctl' = [ctl EXCEPT ![c].users = @ \cup U]
          \/ ctl' = [ctl EXCEPT ![c].users = @ \ U]
          \/ ctl' = ctl
      BY <1>6 DEF AddUsers, DelUsers
    <3>3. UNCHANGED rep
      BY <1>6 DEF AddUsers, DelUsers
    <3> QED  BY <3>1, <3>2, <3>3
  <2> QED  BY <1>1, <2>1
<1> QED
  BY <1>2, <1>3, <1>4, <1>5, <1>6 DEF CtlStep

(* Who loses his storage by Detach is among the users U. *)
LEMMA DetachKeeps ==
  ASSUME TypeOK, NEW t, NEW tc, NEW U, NEW s \in Storages, st[s].uuid \notin U
  PROVE  Detach(t, tc, U)[s].tc = st[s].tc
BY DEF Detach, TypeOK

LEMMA CtlStepReach ==
  ASSUME StructInv, NEW s \in Storages, InReach(s),
         NEW c \in Controllers, CtlStep(c)
  PROVE  InReach(s)' \/ Excused(s)
<1>0. PICK d \in Controllers : ReportedBy(d, st[s].tag)
  BY DEF InReach
<1>1. ReportedBy(d, st[s].tag)' \/ GivesUp(d, st[s].tag)
  <2> DEFINE t == st[s].tag
  <2>1. ASSUME NEW x, x = t, ReportedBy(d, x)
        PROVE  ReportedBy(d, x)' \/ GivesUp(d, x)
    BY <2>1, CtlStepReports
  <2> QED
    BY <1>0, <2>1, CtlStepStorages DEF ReportedBy
<1>2. GivesUp(d, st[s].tag) => Excused(s)
  BY DEF GivesUp, Excused
<1>3. st'[s].tag = st[s].tag /\ UNCHANGED counter
  BY CtlStepStorages
<1>4. st'[s].tc = st[s].tc \/ st[s].uuid \notin uidMap'
  <2>1. ASSUME NEW U, NEW ok, DelUsers(c, U, ok)
        PROVE  st'[s].tc = st[s].tc \/ st[s].uuid \notin uidMap'
    BY <2>1, DetachKeeps DEF DelUsers, StructInv
  <2>2. CASE ~\E U \in (SUBSET Uuids) \ {{}}, ok \in BOOLEAN : DelUsers(c, U, ok)
    BY <2>2
       DEF CtlStep, Start, Reload, Restart, Close, AddUsers, coreVars
  <2> QED  BY <2>1, <2>2
<1> QED
  BY <1>1, <1>2, <1>3, <1>4 DEF InReach, Excused, ReportedBy

LEMMA ConnStepReach ==
  ASSUME StructInv, NEW s \in Storages, InReach(s), NEW c \in Conns, ConnStep(c)
  PROVE  InReach(s)' \/ Excused(s)
<1>0. /\ conn \in [Conns -> ConnState] /\ conn[c] \in ConnState
      /\ counter \in [Tags -> 0..MaxCounters]
      /\ st[s].tag \in Tags
  BY Types0 DEF InReach
<1>1. /\ UNCHANGED <<ctl, rep>>
      /\ st'[s].tag = st[s].tag /\ st'[s].tc = st[s].tc
  BY <1>0, ConnStepCounters, ConnStepStorages DEF ConnEffect
<1>2. CASE counter'[st[s].tag] = counter[st[s].tag]
  BY <1>1, <1>2 DEF InReach, ReportedBy, LoopsOf
(* Another connection's counter takes the place of the tag's. *)
<1>3. CASE StoreCounter(c) /\ conn[c].tag = st[s].tag
  <2>1. conn[c].pc = "store" /\ conn'[c].pc = "get"
    BY <1>0, <1>3 DEF StoreCounter, ConnState
  <2> QED
    BY <1>3, <2>1 DEF Excused
<1>4. CASE StoreCounter(c) /\ conn[c].tag # st[s].tag
  BY <1>0, <1>2, <1>4 DEF StoreCounter
<1>5. CASE ~StoreCounter(c)
  <2>1. UNCHANGED counter
    BY <1>5 DEF ConnStep, Route, LoadCounter, GetCounter, NewStorage,
                Add, Overwrite, CloseConn, coreVars
  <2> QED  BY <1>2, <2>1
<1> QED
  BY <1>3, <1>4, <1>5

(* What a report does to the controllers' goroutines: none of an open      *)
(* controller ends, and a Post leaves it to its controller.                *)
LEMMA ReportStepLoops ==
  ASSUME StructInv, NEW r \in Reporters, ReportStep(r),
         NEW d \in Controllers, ctl[d].open, LoopsOf(d) # {}
  PROVE  LoopsOf(d)' # {}
<1>1. rep'[r].ctl = rep[r].ctl \/ ~ctl[rep[r].ctl].open
  <2>1. CASE Begin(r)
    BY <2>1, BeginEffect DEF Moves
  <2>2. CASE Stop(r) \/ Post(r)
    BY <2>2, RestEffect DEF Moves
  <2>3. ASSUME NEW u \in Uuids, Load(r, u)
        PROVE  rep'[r].ctl = rep[r].ctl
    BY <2>3, LoadEffect DEF Moves
  <2>4. CASE Reset(r)
    BY <2>4, ResetEffect DEF Moves
  <2>5. CASE Check(r)
    BY <2>5, CheckEffect DEF Moves
  <2>6. CASE Emit(r)
    BY <2>6, EmitEffect DEF Moves
  <2>7. CASE End(r)
    BY <2>7, EndEffect DEF Moves
  <2> QED
    BY <2>1, <2>2, <2>3, <2>4, <2>5, <2>6, <2>7 DEF ReportStep
<1>2. \A q \in Reporters : q # r => rep'[q] = rep[q]
  BY RepOthers
<1>3. PICK q \in Reporters : rep[q].ctl = d
  BY DEF LoopsOf
<1>4. rep'[q].ctl = d
  BY <1>1, <1>2, <1>3
<1> QED
  BY <1>4 DEF LoopsOf

LEMMA ReportStepReach ==
  ASSUME StructInv, NEW s \in Storages, InReach(s), NEW r \in Reporters,
         ReportStep(r)
  PROVE  InReach(s)' \/ Excused(s)
<1>1. PICK d \in Controllers : ReportedBy(d, st[s].tag)
  BY DEF InReach
<1>2. UNCHANGED <<ctl, counter, uidMap>> /\ st'[s].tag = st[s].tag
  BY RepOthers, ReportStepStorages
<1>3. ReportedBy(d, st[s].tag)'
  BY <1>1, <1>2, ReportStepLoops DEF ReportedBy
<1>4. st'[s].tc = st[s].tc \/ st[s].uuid \notin uidMap
  <2>1. CASE Check(r)
    (* A report gives up the storage of a user who has no uid any more. *)
    <3>1. CASE st[rep[r].s].uuid \in uidMap
      BY <2>1, <3>1 DEF Check
    <3>2. CASE st[rep[r].s].uuid \notin uidMap
      <4>1. st' = Detach(rep[r].tag, rep[r].tc, {st[rep[r].s].uuid})
        BY <2>1, <3>2 DEF Check
      <4> QED
        BY <3>2, <4>1, DetachKeeps DEF StructInv
    <3> QED  BY <3>1, <3>2
  <2>2. CASE Reset(r)
    <3>1. st' = [st EXCEPT ![rep[r].s].bytes = 0]
      BY <2>2 DEF Reset
    <3> QED  BY <3>1, Types0 DEF StorageState
  <2>3. CASE ~Check(r) /\ ~Reset(r)
    BY <2>3 DEF ReportStep, Begin, Stop, Load, Emit, End, Post, coreVars
  <2> QED
    BY <2>1, <2>2, <2>3
<1> QED
  BY <1>2, <1>3, <1>4 DEF InReach, Excused

(* A storage that a running report task reaches is lost to it only with a  *)
(* user who was deleted, to another first connection of the tag, or with   *)
(* the tag, when its controller is closed or gets another type: never to   *)
(* another reload, to a restart of the task, nor to a report or a change   *)
(* of users that fails.                                                    *)
THEOREM CountersStayInReach == Spec => StaysInReach
<1>1. Init => StructInv
  BY StructInit
<1>2. StructInv /\ [Next]_vars => StructInv'
  BY StructStep
<1>3. ASSUME StructInv, Next, NEW s \in Storages, InReach(s), ~InReach(s)'
      PROVE  Excused(s)
  BY <1>3, CtlStepReach, ConnStepReach, ReportStepReach DEF Next
<1>4. StructInv /\ [Next]_vars => [LosesNothing]_vars
  BY <1>3 DEF LosesNothing
<1> QED
  BY <1>1, <1>2, <1>4, PTL DEF Spec, StaysInReach

-----------------------------------------------------------------------------
(* The other direction: where bytes are lost.                              *)

(* What moved on s and is either still counted or was taken by a report;   *)
(* moved and traced bytes grow alike.                                      *)
Traced(s)    == taken[s] + st[s].bytes
Accounted(s) == moved'[s] + Traced(s) <= moved[s] + Traced(s)'

(* A count reset after more was added to it; the size of a transfer stored *)
(* over a count.                                                           *)
Uncounted(s) ==
  \/ \E r \in Reporters : Reset(r) /\ rep[r].s = s /\ st[s].bytes > rep[r].val
  \/ \E c \in Conns, n \in 0..1 :
       Overwrite(c, n) /\ conn[c].s = s /\ st[s].bytes > 0

(* What the report x has taken of the count of s and not yet posted. *)
InHand(x, s) ==
  x.slice[s] + (IF x.s = s /\ x.pc \in {"check", "emit"} THEN x.val ELSE 0)

(* The ways a report gets rid of what it has taken: the post, and a user   *)
(* without uid.                                                            *)
HandsOver(r, s) ==
  Post(r) \/ (Check(r) /\ rep[r].s = s /\ st[s].uuid \notin uidMap)

(* What is taken off a count is in the hand of a report, and stays there.  *)
Carried(s) ==
  /\ taken'[s] # taken[s] =>
       \E r \in Reporters :
         taken'[s] + InHand(rep[r], s) = taken[s] + InHand(rep'[r], s)
  /\ \A r \in Reporters :
       InHand(rep[r], s) <= InHand(rep'[r], s) \/ HandsOver(r, s)

LosesKnownly ==
  \A s \in Storages :
    st[s].tag \in Tags => (Accounted(s) \/ Uncounted(s)) /\ Carried(s)

(* A report that waits has nothing in hand. *)
IdleEmpty ==
  \A r \in Reporters : rep[r].pc \in {"gone", "idle"} => rep[r].slice = NoBytes

LEMMA CtlStepIdle ==
  ASSUME StructInv, NEW c \in Controllers, CtlStep(c)
  PROVE  \A q \in Reporters :
           \/ rep'[q] = rep[q]
           \/ /\ rep[q].pc \in {"gone", "idle"} /\ rep'[q].slice = NoBytes
              /\ rep'[q].pc \in {"gone", "idle"}
<1>1. ASSUME NEW r \in Reporters, NEW Ended \in SUBSET LoopsOf(c),
             Spawn(r, c, Ended), \A q \in Ended : rep[q].pc = "idle"
      PROVE  \A q \in Reporters :
               \/ rep'[q] = rep[q]
               \/ /\ rep[q].pc \in {"gone", "idle"} /\ rep'[q].slice = NoBytes
                  /\ rep'[q].pc \in {"gone", "idle"}
  BY <1>1, GoneType DEF Spawn
<1>2. CASE Restart(c)
  <2>1. PICK Ended \in SUBSET {r \in LoopsOf(c) : rep[r].pc = "idle"},
             r \in Reporters : Spawn(r, c, Ended)
    BY <1>2 DEF Restart
  <2>2. Ended \in SUBSET LoopsOf(c) /\ \A q \in Ended : rep[q].pc = "idle"
    OBVIOUS
  <2> QED  BY <1>1, <2>1, <2>2
<1>3. ASSUME NEW t, NEW U, NEW ok \in BOOLEAN, Start(c, t, U, ok)
      PROVE  UNCHANGED rep \/ \E r \in Reporters : Spawn(r, c, {})
  BY <1>3 DEF Start
<1>4. ASSUME NEW r \in Reporters, Spawn(r, c, {})
      PROVE  \A q \in Reporters :
               \/ rep'[q] = rep[q]
               \/ /\ rep[q].pc \in {"gone", "idle"} /\ rep'[q].slice = NoBytes
                  /\ rep'[q].pc \in {"gone", "idle"}
  BY <1>1, <1>4
<1>5. \/ \E t \in Tags, U \in (SUBSET Uuids) \ {{}}, ok \in BOOLEAN :
           Start(c, t, U, ok)
      \/ Restart(c)
      \/ UNCHANGED rep
  BY DEF CtlStep, Reload, Close, AddUsers, DelUsers
<1> QED
  BY <1>2, <1>3, <1>4, <1>5

(* What a report step does to what it has in hand. *)
LEMMA ReportStepHand ==
  ASSUME StructInv, IdleEmpty, NEW r \in Reporters, ReportStep(r),
         NEW s \in Storages
  PROVE  /\ rep'[r].pc \in {"gone", "idle"} => rep'[r].slice = NoBytes
         /\ \/ /\ InHand(rep[r], s) <= InHand(rep'[r], s)
               /\ UNCHANGED taken
            \/ HandsOver(r, s) /\ UNCHANGED taken
            \/ /\ Reset(r)
               /\ IF rep[r].s = s
                  THEN InHand(rep'[r], s) = InHand(rep[r], s) + rep[r].val
                  ELSE InHand(rep'[r], s) = InHand(rep[r], s)
<1>0. /\ rep[r].val \in Nat /\ rep[r].slice \in [Storages -> Nat]
      /\ rep[r].slice[s] \in Nat
      /\ \A x \in RepState : x.slice[s] \in Nat /\ x.val \in Nat
      /\ NoBytes[s] = 0
  BY Types0 DEF RepState, NoBytes
<1>1. CASE Begin(r)
  <2>1. PICK y : /\ Moves(r, y) /\ y.pc = "range" /\ y.slice = rep[r].slice
                 /\ rep[r].pc = "idle" /\ UNCHANGED <<st, taken, raced>>
    BY <1>1, BeginEffect
  <2> QED  BY <1>0, <2>1 DEF Moves, InHand
<1>2. CASE Stop(r) \/ Post(r)
  <2>1. PICK y : /\ Moves(r, y) /\ y.slice = NoBytes
                 /\ UNCHANGED <<st, taken, raced>>
                 /\ \/ rep[r].pc = "idle"
                    \/ Post(r)
    BY <1>2, RestEffect
  <2>2. CASE rep[r].pc = "idle"
    <3>1. InHand(rep[r], s) = 0
      BY <1>0, <2>2 DEF IdleEmpty, InHand
    <3>2. InHand(y, s) \in Nat
      BY <1>0, <2>1 DEF InHand, Moves
    <3> QED  BY <2>1, <3>1, <3>2 DEF Moves
  <2>3. CASE Post(r)
    BY <2>1, <2>3 DEF Moves, HandsOver
  <2> QED  BY <2>1, <2>2, <2>3
<1>3. ASSUME NEW u \in Uuids, Load(r, u)
      PROVE  /\ InHand(rep[r], s) <= InHand(rep'[r], s) /\ UNCHANGED taken
             /\ rep'[r].pc \notin {"gone", "idle"}
  <2>1. PICK y : /\ Moves(r, y) /\ y.slice = rep[r].slice
                 /\ rep[r].pc = "range" /\ UNCHANGED <<st, taken>>
                 /\ y.pc = "range" \/ y.pc = "reset"
    BY <1>3, LoadEffect
  <2> QED  BY <1>0, <2>1 DEF Moves, InHand
<1>4. CASE Reset(r)
  <2>1. PICK y : /\ Moves(r, y) /\ y.pc = "check" /\ y.slice = rep[r].slice
                 /\ y.s = rep[r].s /\ y.val = rep[r].val
                 /\ rep[r].pc = "reset"
    BY <1>4, ResetEffect
  <2> QED  BY <1>0, <1>4, <2>1 DEF Moves, InHand
<1>5. CASE Check(r)
  <2>1. PICK y : /\ Moves(r, y) /\ y.slice = rep[r].slice
                 /\ rep[r].pc = "check" /\ UNCHANGED <<taken, raced>>
                 /\ IF st[rep[r].s].uuid \in uidMap
                    THEN /\ y.pc = "emit" /\ y.s = rep[r].s
                         /\ y.val = rep[r].val /\ UNCHANGED st
                    ELSE y.pc = "range"
    BY <1>5, CheckEffect
  <2>2. CASE st[rep[r].s].uuid \in uidMap
    BY <1>0, <2>1, <2>2 DEF Moves, InHand
  <2>3. CASE st[rep[r].s].uuid \notin uidMap /\ rep[r].s # s
    BY <1>0, <2>1, <2>3 DEF Moves, InHand
  <2>4. CASE st[rep[r].s].uuid \notin uidMap /\ rep[r].s = s
    BY <1>5, <2>1, <2>4 DEF Moves, HandsOver
  <2> QED  BY <2>2, <2>3, <2>4
<1>6. CASE Emit(r)
  <2>1. PICK y : /\ Moves(r, y) /\ y.pc = "range"
                 /\ rep[r].pc = "emit" /\ rep[r].s \in Storages
                 /\ y.slice = [rep[r].slice EXCEPT ![rep[r].s] = @ + rep[r].val]
                 /\ UNCHANGED <<st, taken, raced>>
    BY <1>6, EmitEffect
  <2>2. y.slice[s] = IF rep[r].s = s THEN rep[r].slice[s] + rep[r].val
                                     ELSE rep[r].slice[s]
    BY <1>0, <2>1
  <2> QED  BY <1>0, <2>1, <2>2 DEF Moves, InHand
<1>7. CASE End(r)
  <2>1. PICK y : /\ Moves(r, y) /\ y.pc = "post" /\ y.slice = rep[r].slice
                 /\ rep[r].pc = "range" /\ UNCHANGED <<st, taken, raced>>
    BY <1>7, EndEffect
  <2> QED  BY <1>0, <2>1 DEF Moves, InHand
<1> QED
  BY <1>1, <1>2, <1>3, <1>4, <1>5, <1>6, <1>7 DEF ReportStep

LEMMA IdleEmptyStep ==
  ASSUME StructInv, IdleEmpty, [Next]_vars
  PROVE  IdleEmpty'
<1>1. ASSUME NEW c \in Controllers, CtlStep(c)
      PROVE  IdleEmpty'
  BY <1>1, CtlStepIdle DEF IdleEmpty
<1>2. ASSUME NEW c \in Conns, ConnStep(c)
      PROVE  IdleEmpty'
  BY <1>2, ConnStepCounters DEF IdleEmpty
<1>3. ASSUME NEW r \in Reporters, ReportStep(r)
      PROVE  IdleEmpty'
  <2>1. CASE Storages # {}
    <3>1. rep'[r].pc \in {"gone", "idle"} => rep'[r].slice = NoBytes
      BY <1>3, <2>1, ReportStepHand
    <3> QED  BY <1>3, <3>1, RepOthers DEF IdleEmpty
  <2>2. CASE Storages = {}
    <3>1. \A q \in Reporters : rep'[q].slice \in [Storages -> Nat]
      BY <1>3, ReportStepStruct DEF StructInv, TypeOK, RepState
    <3>2. \A q \in Reporters : rep'[q].slice = NoBytes
      BY <2>2, <3>1 DEF NoBytes
    <3> QED  BY <3>2 DEF IdleEmpty
  <2> QED  BY <2>1, <2>2
<1>4. CASE UNCHANGED vars
  BY <1>4 DEF vars, IdleEmpty
<1> QED
  BY <1>1, <1>2, <1>3, <1>4 DEF Next

(* A step that takes nothing off a count and moves n bytes. *)
LEMMA AccountedKept ==
  ASSUME StructInv, NEW s \in Storages, NEW n \in Nat, taken'[s] = taken[s],
         moved'[s] = moved[s] + n, st'[s].bytes = st[s].bytes + n
  PROVE  Accounted(s)
<1>1. taken[s] \in Nat /\ moved[s] \in Nat /\ st[s].bytes \in Nat
  BY Types0
<1> QED
  BY <1>1 DEF Accounted, Traced

LEMMA LossByCtl ==
  ASSUME StructInv, IdleEmpty, NEW s \in Storages,
         NEW c \in Controllers, CtlStep(c)
  PROVE  Accounted(s) /\ Carried(s)
<1>1. UNCHANGED <<moved, taken>> /\ st'[s].bytes = st[s].bytes
  BY CtlStepStorages
<1>2. /\ moved[s] = moved[s] + 0 /\ st[s].bytes = st[s].bytes + 0
      /\ \A r \in Reporters : InHand(rep[r], s) \in Nat
      /\ rep' \in [Reporters -> RepState] /\ NoBytes[s] = 0
  BY Types0, CtlStepEffect DEF InHand, RepState, CtlEffect, NoBytes
<1>3. Accounted(s)
  BY <1>1, <1>2, AccountedKept
<1>4. ASSUME NEW r \in Reporters
      PROVE  InHand(rep[r], s) <= InHand(rep'[r], s)
  <2>1. CASE rep'[r] = rep[r]
    BY <1>2, <2>1
  <2>2. CASE /\ rep[r].pc \in {"gone", "idle"} /\ rep'[r].slice = NoBytes
             /\ rep'[r].pc \in {"gone", "idle"}
    BY <1>2, <2>2 DEF IdleEmpty, InHand
  <2> QED  BY <2>1, <2>2, CtlStepIdle
<1> QED
  BY <1>1, <1>3, <1>4 DEF Carried

LEMMA LossByConn ==
  ASSUME StructInv, NEW s \in Storages, st[s].tag \in Tags,
         NEW c \in Conns, ConnStep(c)
  PROVE  (Accounted(s) \/ Uncounted(s)) /\ Carried(s)
<1>0. /\ st \in [Storages -> StorageState] /\ moved \in [Storages -> Nat]
      /\ st[s].bytes \in Nat /\ moved[s] \in Nat
      /\ moved[s] = moved[s] + 0 /\ st[s].bytes = st[s].bytes + 0
      /\ \A r \in Reporters : InHand(rep[r], s) \in Nat
  BY Types0 DEF InHand, RepState
<1>1. UNCHANGED <<rep, taken>>
  BY ConnStepCounters
<1>2. Carried(s)
  BY <1>0, <1>1 DEF Carried
<1>3. CASE moved'[s] = moved[s] /\ st'[s].bytes = st[s].bytes
  BY <1>0, <1>1, <1>2, <1>3, AccountedKept
<1>4. ASSUME NEW q \in Storages, NewStorage(c, q)
      PROVE  moved'[s] = moved[s] /\ st'[s].bytes = st[s].bytes
  BY <1>0, <1>4, NoTag DEF NewStorage
<1>5. CASE Add(c)
  <2>1. CASE conn[c].s = s
    <3>1. moved'[s] = moved[s] + 1 /\ st'[s].bytes = st[s].bytes + 1
      BY <1>0, <1>5, <2>1 DEF Add, StorageState
    <3> QED  BY <1>1, <1>2, <3>1, AccountedKept
  <2>2. CASE conn[c].s # s
    BY <1>0, <1>3, <1>5, <2>2 DEF Add
  <2> QED  BY <2>1, <2>2
<1>6. ASSUME NEW n \in 0..1, Overwrite(c, n)
      PROVE  Accounted(s) \/ Uncounted(s)
  <2>1. CASE conn[c].s # s
    BY <1>0, <1>3, <1>6, <2>1 DEF Overwrite
  <2>2. CASE conn[c].s = s /\ st[s].bytes > 0
    BY <1>6, <2>2 DEF Uncounted
  <2>3. CASE conn[c].s = s /\ ~(st[s].bytes > 0)
    <3>1. moved'[s] = moved[s] + n /\ st'[s].bytes = st[s].bytes + n
      BY <1>0, <1>6, <2>3 DEF Overwrite, StorageState
    <3> QED  BY <1>1, <3>1, AccountedKept
  <2> QED  BY <2>1, <2>2, <2>3
<1>7. CASE UNCHANGED <<st, moved>>
  BY <1>3, <1>7
<1>8. (\E t \in Tags, u \in Uuids : Route(c, t, u)) \/ LoadCounter(c)
        \/ StoreCounter(c) \/ GetCounter(c) \/ CloseConn(c)
      => UNCHANGED <<st, moved>>
  BY DEF Route, LoadCounter, StoreCounter, GetCounter, CloseConn, coreVars
<1> QED
  BY <1>2, <1>3, <1>4, <1>5, <1>6, <1>7, <1>8 DEF ConnStep

LEMMA LossByReport ==
  ASSUME StructInv, IdleEmpty, NEW s \in Storages,
         NEW r \in Reporters, ReportStep(r)
  PROVE  (Accounted(s) \/ Uncounted(s)) /\ Carried(s)
<1>0. /\ st \in [Storages -> StorageState] /\ taken \in [Storages -> Nat]
      /\ taken[s] \in Nat /\ moved[s] \in Nat /\ st[s].bytes \in Nat
      /\ moved[s] = moved[s] + 0 /\ st[s].bytes = st[s].bytes + 0
      /\ rep[r].val \in Nat
      /\ \A q \in Reporters : InHand(rep[q], s) \in Nat
  BY Types0 DEF InHand, RepState
<1>1. UNCHANGED moved /\ \A q \in Reporters : q # r => rep'[q] = rep[q]
  BY RepOthers
<1>2. CASE Reset(r)
  <2>1. /\ rep[r].s \in Storages
        /\ st' = [st EXCEPT ![rep[r].s].bytes = 0]
        /\ taken' = [taken EXCEPT ![rep[r].s] = @ + rep[r].val]
    BY <1>2, ResetEffect
  <2>2. IF rep[r].s = s
        THEN InHand(rep'[r], s) = InHand(rep[r], s) + rep[r].val
        ELSE InHand(rep'[r], s) = InHand(rep[r], s)
    <3>1. ~HandsOver(r, s) /\ rep[r].pc = "reset"
      BY <1>2 DEF HandsOver, Reset, Post, Check
    <3>2. PICK y : /\ Moves(r, y) /\ y.pc = "check" /\ y.slice = rep[r].slice
                   /\ y.s = rep[r].s /\ y.val = rep[r].val
      BY <1>2, ResetEffect
    <3> QED  BY <1>0, <3>1, <3>2, Types0 DEF Moves, InHand
  <2>3. CASE rep[r].s = s
    <3>1. taken'[s] = taken[s] + rep[r].val /\ st'[s].bytes = 0
      BY <1>0, <2>1, <2>3 DEF StorageState
    <3>2. Accounted(s) \/ Uncounted(s)
      <4>1. CASE st[s].bytes > rep[r].val
        BY <1>2, <2>3, <4>1 DEF Uncounted
      <4>2. CASE ~(st[s].bytes > rep[r].val)
        BY <1>0, <1>1, <3>1, <4>2 DEF Accounted, Traced
      <4> QED  BY <4>1, <4>2
    <3>3. Carried(s)
      BY <1>0, <1>1, <2>2, <2>3, <3>1 DEF Carried
    <3> QED  BY <3>2, <3>3
  <2>4. CASE rep[r].s # s
    <3>1. taken'[s] = taken[s] /\ st'[s].bytes = st[s].bytes
      BY <1>0, <2>1, <2>4
    <3>2. Accounted(s)
      BY <1>0, <1>1, <3>1, AccountedKept
    <3>3. Carried(s)
      BY <1>0, <1>1, <2>2, <2>4, <3>1 DEF Carried
    <3> QED  BY <3>2, <3>3
  <2> QED  BY <2>3, <2>4
<1>3. CASE ~Reset(r)
  <2>1. UNCHANGED taken
        /\ (InHand(rep[r], s) <= InHand(rep'[r], s) \/ HandsOver(r, s))
    BY <1>3, ReportStepHand
  <2>2. st'[s].bytes = st[s].bytes
    <3>1. CASE Check(r)
      BY <3>1, CheckEffect
    <3>2. CASE ~Check(r)
      BY <1>3, <3>2 DEF ReportStep, Begin, Stop, Load, Emit, End, Post, coreVars
    <3> QED  BY <3>1, <3>2
  <2>3. Accounted(s)
    BY <1>0, <1>1, <2>1, <2>2, AccountedKept
  <2>4. Carried(s)
    BY <1>0, <1>1, <2>1 DEF Carried
  <2> QED  BY <2>3, <2>4
<1> QED
  BY <1>2, <1>3

(* What connections moved stays on its count or goes into the hand of a    *)
(* report, but for two losses: a count reset after more was added to it,   *)
(* and the size of a transfer stored over a count.  And what a report has  *)
(* taken it keeps until it posts it, unless its user has no uid any more.  *)
(* So no interleaving of connections, reports, reloads and changes of      *)
(* users loses any other byte of a storage, however many goroutines report *)
(* it (GetUserTrafficSlice, ConnCounter); what the panel makes of a post   *)
(* is not part of this.                                                    *)
THEOREM NothingElseIsLost == Spec => [][LosesKnownly]_vars
<1>1. Init => StructInv /\ IdleEmpty
  <2>1. Init => IdleEmpty
    BY GoneType DEF Init, IdleEmpty
  <2> QED  BY <2>1, StructInit
<1>2. StructInv /\ IdleEmpty /\ [Next]_vars => (StructInv /\ IdleEmpty)'
  BY StructStep, IdleEmptyStep
<1>3. StructInv /\ IdleEmpty /\ [Next]_vars => [LosesKnownly]_vars
  BY LossByCtl, LossByConn, LossByReport DEF Next, LosesKnownly
<1> QED
  BY <1>1, <1>2, <1>3, PTL DEF Spec

-----------------------------------------------------------------------------
(* Where InboundUsersKnown, which the run on two nodes refutes, goes wrong *)
(* and where not.                                                          *)

(* An inbound lets in a user without uid, who was not so before. *)
LosesUid(t, u) == u \in inbound'[t] \ uidMap' /\ u \notin inbound[t] \ uidMap

(* The user is deleted for another inbound, or his own refuses to.         *)
UidsLostByDeletion ==
  \A t \in Tags, u \in Uuids :
    LosesUid(t, u) =>
      \E c \in Controllers, U \in SUBSET Uuids, ok \in BOOLEAN :
        DelUsers(c, U, ok) /\ u \in U /\ (t # ctl[c].tag \/ ~ok)

LEMMA UidsByCtl ==
  ASSUME StructInv, NEW c \in Controllers, CtlStep(c),
         NEW t \in Tags, NEW u \in Uuids, LosesUid(t, u)
  PROVE  \E U \in SUBSET Uuids, ok \in BOOLEAN :
           DelUsers(c, U, ok) /\ u \in U /\ (t # ctl[c].tag \/ ~ok)
<1>0. inbound \in [Tags -> SUBSET Uuids] /\ (ctl[c].up => ctl[c].tag \in Tags)
  BY Types0 DEF StructInv, Held
<1>1. ASSUME NEW d \in Tags, NEW U, NEW ok, Start(c, d, U, ok)
      PROVE  FALSE
  BY <1>0, <1>1 DEF Start, LosesUid
<1>2. ASSUME NEW d \in Tags, NEW U, Reload(c, d, U)
      PROVE  FALSE
  BY <1>0, <1>2 DEF Reload, LosesUid
<1>3. CASE Restart(c)
  BY <1>3 DEF Restart, LosesUid, coreVars
<1>4. ASSUME NEW ok, Close(c, ok)
      PROVE  FALSE
  BY <1>0, <1>4 DEF Close, LosesUid
<1>5. ASSUME NEW U, NEW ok, AddUsers(c, U, ok)
      PROVE  FALSE
  BY <1>0, <1>5 DEF AddUsers, LosesUid
<1>6. ASSUME NEW U \in SUBSET Uuids, NEW ok \in BOOLEAN, DelUsers(c, U, ok)
      PROVE  u \in U /\ (t # ctl[c].tag \/ ~ok)
  BY <1>0, <1>6 DEF DelUsers, LosesUid
<1> QED
  BY <1>1, <1>2, <1>3, <1>4, <1>5, <1>6 DEF CtlStep

(* Whoever an inbound lets in keeps his uid, by which he is reported,      *)
(* through reloads, closes, additions and deletions, but for two causes:   *)
(* he is deleted on another node, or his own inbound, asked to delete him, *)
(* returns an error after the uid is gone (Sing.DelUsers).                 *)
THEOREM UidsLostOnlyByDeletion == Spec => [][UidsLostByDeletion]_vars
<1>1. Init => StructInv
  BY StructInit
<1>2. StructInv /\ [Next]_vars => StructInv'
  BY StructStep
<1>3. ASSUME StructInv, Next, NEW t \in Tags, NEW u \in Uuids, LosesUid(t, u)
      PROVE  \E c \in Controllers, U \in SUBSET Uuids, ok \in BOOLEAN :
               DelUsers(c, U, ok) /\ u \in U /\ (t # ctl[c].tag \/ ~ok)
  <2>1. ASSUME UNCHANGED <<uidMap, inbound>>
        PROVE  FALSE
    BY <1>3, <2>1 DEF LosesUid
  <2> QED
    BY <1>3, <2>1, UidsByCtl, ConnStepCounters, RepOthers DEF Next
<1>4. StructInv /\ [Next]_vars => [UidsLostByDeletion]_vars
  BY <1>3 DEF UidsLostByDeletion
<1> QED
  BY <1>1, <1>2, <1>4, PTL DEF Spec

=============================================================================
