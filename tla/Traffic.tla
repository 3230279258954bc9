------------------------------- MODULE Traffic -------------------------------
(***************************************************************************)
(* How traffic is counted and reported: core/sing/hook.go gives every new  *)
(* connection the counter of its (inbound tag, user), the connection's     *)
(* wrapper (common/counter) counts bytes on it, and the report task of     *)
(* node/user.go collects the counters of the tag its controller has at     *)
(* that moment (core/sing/user.go, GetUserTrafficSlice), resets them and   *)
(* posts the sums to the panel.                                            *)
(*                                                                         *)
(* A tag is made of the node and its type (Controller.buildNodeTag), so    *)
(* that a reload to another type gives the node another tag.  (A name in   *)
(* its Options would be the tag instead; no configuration sets one.)  A    *)
(* report task that a monitor restarts (a new push interval) may leave two *)
(* goroutines behind (Task).  What Controller knows of a reload and of     *)
(* Close, that here changes tags, users, counters or report goroutines, is *)
(* one step each; the order within them is Controller's.                   *)
(*                                                                         *)
(* Connections hold no lock; the report holds users.mapLock for reading    *)
(* while it collects, and AddUsers and DelUsers hold it for writing.  Up   *)
(* and down counters are treated alike by all of this code: one of them is *)
(* modelled.  A sync.Map or atomic operation is one step.                  *)
(***************************************************************************)
EXTENDS Integers

CONSTANTS
  Nodes,             \* nodes of the machine
  Types,             \* types a node may have: vless, trojan, ...
  Controllers,       \* Controller objects in use at once (bounds the model)
  Uuids,             \* users
  Conns,             \* connections that may be open at once
  Storages,          \* TrafficStorage objects (bounds the model)
  MaxCounters,       \* TrafficCounter objects made per tag (bounds the model)
  MaxBytes,          \* bytes that pass a storage (bounds the model)
  MaxChanges,        \* starts, reloads, restarts and closes (bounds the model)
  ReportLoops,       \* report goroutines at once (bounds the model)
  ReportMinTraffic,  \* Options.ReportMinTraffic, 0 unless configured
  PlainIO,           \* whether a connection is used through Read and Write
  CoreFails,         \* whether an inbound may refuse to add or delete users
  None               \* no tag, no user, no storage, no controller

ASSUME TrafficAssumption ==
  /\ MaxCounters \in Nat /\ MaxBytes \in Nat /\ MaxChanges \in Nat
  /\ ReportLoops \in Nat /\ ReportMinTraffic \in Nat
  /\ PlainIO \in BOOLEAN /\ CoreFails \in BOOLEAN
  /\ None \notin (Nodes \X Types) \cup Uuids \cup Storages \cup Controllers

VARIABLES
  ctl,       \* the controllers
  changes,   \* how many changes there were
  uidMap,    \* the users of Sing.users.uidMap: those with a non-zero uid
  inbound,   \* tag -> the users the inbound of that tag lets in
  counter,   \* tag -> number of the TrafficCounter stored for it, or NoTC
  made,      \* tag -> how many TrafficCounters were made for it
  st,        \* the TrafficStorages: where each is stored, and its count
  conn,      \* the connections
  rep,       \* the report goroutines, each with the slice it has collected
  moved,     \* storage -> bytes that passed the connections counted on it
  taken,     \* storage -> bytes the reports have taken off its count
  raced      \* storages two reports had loaded, and not yet reset, at once

coreVars == <<uidMap, inbound, counter, made, st>>
history  == <<taken, raced>>
vars     == <<ctl, changes, coreVars, conn, rep, moved, history>>

NoTC       == 0
Tags       == Nodes \X Types
NodeOf(t)  == t[1]
Reporters  == 1..ReportLoops

(* A controller has a tag from Start on, and keeps it after Close; it is   *)
(* up while the machine has it; open while its report task runs; users is  *)
(* Controller.userList.                                                    *)
CtlState ==
  [tag : Tags \cup {None}, up : BOOLEAN, open : BOOLEAN,
   users : SUBSET Uuids]

NewCtl == [tag |-> None, up |-> FALSE, open |-> FALSE, users |-> {}]

(* A storage is in use once it has a tag; its tc is NoTC when it has been  *)
(* deleted from its TrafficCounter (connections may still count on it).    *)
StorageState ==
  [tag : Tags \cup {None}, uuid : Uuids \cup {None}, tc : 0..MaxCounters,
   bytes : Nat]

(* "load": before hook.counter.Load; "store": it missed; "get": the        *)
(* TrafficCounter is known; "open": the connection counts on s.            *)
ConnState ==
  [pc : {"idle", "load", "store", "get", "open"}, tag : Tags \cup {None},
   uuid : Uuids \cup {None}, tc : 0..MaxCounters,
   s : Storages \cup {None}]

(* "idle": waiting for the next tick; "range": between two keys of the     *)
(* Range of tag's counter tc; "reset", "check", "emit": at the key of s,   *)
(* whose count val has been loaded; "post": slice collected.               *)
RepState ==
  [pc : {"gone", "idle", "range", "reset", "check", "emit", "post"},
   ctl : Controllers \cup {None}, tag : Tags \cup {None},
   tc : 0..MaxCounters, todo : SUBSET Uuids,
   s : Storages \cup {None}, val : Nat, slice : [Storages -> Nat]]

IdleConn == [pc |-> "idle", tag |-> None, uuid |-> None, tc |-> NoTC,
             s |-> None]
NoBytes  == [s \in Storages |-> 0]
GoneRep  == [pc |-> "gone", ctl |-> None, tag |-> None, tc |-> NoTC,
             todo |-> {}, s |-> None, val |-> 0, slice |-> NoBytes]
IdleRep(c) == [GoneRep EXCEPT !.pc = "idle", !.ctl = c]

(* Every controller, map, storage, connection and report goroutine has a   *)
(* value of its type.                                                      *)
TypeOK ==
  /\ ctl \in [Controllers -> CtlState]
  /\ changes \in 0..MaxChanges
  /\ uidMap \in SUBSET Uuids
  /\ inbound \in [Tags -> SUBSET Uuids]
  /\ counter \in [Tags -> 0..MaxCounters]
  /\ made \in [Tags -> 0..MaxCounters]
  /\ st \in [Storages -> StorageState]
  /\ conn \in [Conns -> ConnState]
  /\ rep \in [Reporters -> RepState]
  /\ moved \in [Storages -> Nat]
  /\ taken \in [Storages -> Nat]
  /\ raced \in SUBSET Storages

Init ==
  /\ ctl = [c \in Controllers |-> NewCtl]
  /\ changes = 0
  /\ uidMap = {}
  /\ inbound = [t \in Tags |-> {}]
  /\ counter = [t \in Tags |-> NoTC]
  /\ made = [t \in Tags |-> 0]
  /\ st = [s \in Storages |->
             [tag |-> None, uuid |-> None, tc |-> NoTC, bytes |-> 0]]
  /\ conn = [c \in Conns |-> IdleConn]
  /\ rep = [r \in Reporters |-> GoneRep]
  /\ moved = NoBytes
  /\ taken = NoBytes
  /\ raced = {}

(* The storages Counters holds under uuid u (at most one). *)
At(t, tc, u) ==
  {s \in Storages : st[s].tag = t /\ st[s].tc = tc /\ st[s].uuid = u}

-----------------------------------------------------------------------------
(* The controllers.  A change is anything but an exchange of users; there  *)
(* are finitely many.                                                      *)
Change == changes < MaxChanges /\ changes' = changes + 1

(* mapLock is free for writing when no report is collecting. *)
WriteLockFree == \A r \in Reporters : rep[r].pc \in {"gone", "idle", "post"}

(* The goroutines of c's report task. *)
LoopsOf(c) == {r \in Reporters : rep[r].ctl = c}

(* One more goroutine for c, and the end of those in Ended.                *)
Spawn(r, c, Ended) ==
  /\ rep[r].pc = "gone" \/ r \in Ended
  /\ rep' = [q \in Reporters |-> IF q = r THEN IdleRep(c)
                                 ELSE IF q \in Ended THEN GoneRep
                                 ELSE rep[q]]

(* Controller.Start of the node of t, which no controller serves.  When    *)
(* the inbound refuses the users, it gives up: their uids stay.            *)
Start(c, t, U, ok) ==
  /\ Change
  /\ ~ctl[c].up /\ LoopsOf(c) = {}
  /\ \A d \in Controllers : ctl[d].up => NodeOf(ctl[d].tag) # NodeOf(t)
  /\ WriteLockFree
  /\ uidMap' = uidMap \cup U
  /\ \/ /\ ok
        /\ ctl' = [ctl EXCEPT ![c] = [tag |-> t, up |-> TRUE, open |-> TRUE,
                                      users |-> U]]
        /\ inbound' = [inbound EXCEPT ![t] = U]
        /\ \E r \in Reporters : Spawn(r, c, {})
     \/ /\ ~ok /\ CoreFails
        /\ UNCHANGED <<ctl, inbound, rep>>
  /\ UNCHANGED <<counter, made, st, conn, moved, history>>

(* Mutant of Reload: the tag's counter goes with its inbound. *)
ReloadDropsCounter(c, t, U) ==
  /\ Change
  /\ ctl[c].up /\ NodeOf(t) = NodeOf(ctl[c].tag)
  /\ ctl' = [ctl EXCEPT ![c].tag = t, ![c].users = U]
  /\ inbound' = [inbound EXCEPT ![ctl[c].tag] = {}, ![t] = {}]
  /\ counter' = [counter EXCEPT ![ctl[c].tag] = NoTC]
  /\ UNCHANGED <<uidMap, made, st, conn, rep, moved, history>>

(* DelNode, the new tag, which is the old one unless the type changed, and *)
(* AddNode: the new inbound has no user yet.  Counters and uids stay, and  *)
(* the connections of the old inbound count on, under the old tag.         *)
Reload(c, t, U) ==
  /\ Change
  /\ ctl[c].up /\ NodeOf(t) = NodeOf(ctl[c].tag)
  /\ ctl' = [ctl EXCEPT ![c].tag = t, ![c].users = U]
  /\ inbound' = [inbound EXCEPT ![ctl[c].tag] = {}, ![t] = {}]
  /\ UNCHANGED <<uidMap, counter, made, st, conn, rep, moved, history>>

(* The end of a reload with a new push interval: the report task is closed *)
(* and started.  Of its goroutines those that wait end, unless a tick came *)
(* first, and those at work go on (Task).  A monitor still at work beside  *)
(* Close does this too.                                                    *)
Restart(c) ==
  /\ Change
  /\ ctl[c].tag # None
  /\ ctl' = [ctl EXCEPT ![c].open = TRUE]
  /\ \E Ended \in SUBSET {r \in LoopsOf(c) : rep[r].pc = "idle"},
        r \in Reporters : Spawn(r, c, Ended)
  /\ UNCHANGED <<coreVars, conn, moved, history>>

(* Controller.Close; it fails, and the machine keeps the controller, when  *)
(* the inbound is missing.                                                 *)
Close(c, ok) ==
  /\ Change
  /\ ctl[c].up
  /\ ~ok => inbound[ctl[c].tag] = {}
  /\ ctl' = [ctl EXCEPT ![c].open = FALSE, ![c].up = ~ok]
  /\ inbound' = [inbound EXCEPT ![ctl[c].tag] = {}]
  /\ UNCHANGED <<uidMap, counter, made, st, conn, rep, moved, history>>

(* Sing.AddUsers of a node that is up, at the end of a reload or of a poll *)
(* that found new users: the uids are stored even when the inbound then    *)
(* refuses the users.                                                      *)
AddUsers(c, U, ok) ==
  /\ WriteLockFree
  /\ ctl[c].up
  /\ uidMap' = uidMap \cup U
  /\ \/ /\ ok
        /\ inbound' = [inbound EXCEPT ![ctl[c].tag] = @ \cup U]
        /\ ctl' = [ctl EXCEPT ![c].users = @ \cup U]
     \/ /\ ~ok /\ CoreFails
        /\ UNCHANGED <<inbound, ctl>>
  /\ UNCHANGED <<changes, counter, made, st, conn, rep, moved, history>>

(* Counters.Delete for every deleted user, in the tag's TrafficCounter. *)
Detach(t, tc, U) ==
  [s \in Storages |->
     IF st[s].tag = t /\ st[s].tc = tc /\ st[s].uuid \in U
     THEN [st[s] EXCEPT !.tc = NoTC] ELSE st[s]]

(* Mutant of DelUsers: the maps are changed without the lock. *)
DelUsersUnlocked(c, U, ok) ==
  LET t == ctl[c].tag IN
  /\ ctl[c].up
  /\ U \subseteq ctl[c].users
  /\ st' = Detach(t, counter[t], U)
  /\ uidMap' = uidMap \ U
  /\ inbound' = [inbound EXCEPT ![t] = @ \ U]
  /\ UNCHANGED <<ctl, changes, counter, made, conn, rep, moved, history>>

(* Sing.DelUsers of users the controller knows: their counters and uids    *)
(* go, and then their logins, unless the inbound refuses.  The controller  *)
(* forgets them once the whole poll has worked.                            *)
DelUsers(c, U, ok) ==
  LET t == ctl[c].tag IN
  /\ WriteLockFree
  /\ ctl[c].up
  /\ U \subseteq ctl[c].users
  /\ st' = Detach(t, counter[t], U)
  /\ uidMap' = uidMap \ U
  /\ \/ /\ ok
        /\ inbound' = [inbound EXCEPT ![t] = @ \ U]
        /\ \/ ctl' = [ctl EXCEPT ![c].users = @ \ U]
           \/ UNCHANGED ctl
     \/ /\ ~ok /\ CoreFails
        /\ UNCHANGED <<inbound, ctl>>
  /\ UNCHANGED <<changes, counter, made, conn, rep, moved, history>>

-----------------------------------------------------------------------------
(* RoutedConnection and RoutedPacketConnection, past the limiter. *)
Route(c, t, u) ==
  /\ conn[c].pc = "idle"
  /\ u \in inbound[t]
  /\ conn' = [conn EXCEPT ![c].pc = "load", ![c].tag = t, ![c].uuid = u]
  /\ UNCHANGED <<ctl, changes, coreVars, rep, moved, history>>

LoadCounter(c) ==
  /\ conn[c].pc = "load"
  /\ LET tc == counter[conn[c].tag] IN
       conn' = [conn EXCEPT ![c].pc = IF tc = NoTC THEN "store" ELSE "get",
                            ![c].tc = tc]
  /\ UNCHANGED <<ctl, changes, coreVars, rep, moved, history>>

(* A Store and not a LoadOrStore: it replaces what another connection may  *)
(* have stored since the Load.                                             *)
StoreCounter(c) ==
  LET t == conn[c].tag IN
  /\ conn[c].pc = "store"
  /\ made[t] < MaxCounters
  /\ made' = [made EXCEPT ![t] = @ + 1]
  /\ counter' = [counter EXCEPT ![t] = made[t] + 1]
  /\ conn' = [conn EXCEPT ![c].pc = "get", ![c].tc = made[t] + 1]
  /\ UNCHANGED <<ctl, changes, uidMap, inbound, st, rep, moved, history>>

Opened(c, s) ==
  [conn EXCEPT ![c].pc = "open", ![c].tc = NoTC, ![c].s = s]

(* TrafficCounter.GetCounter finds the user's storage ... *)
GetCounter(c) ==
  /\ conn[c].pc = "get"
  /\ \E s \in At(conn[c].tag, conn[c].tc, conn[c].uuid) : conn' = Opened(c, s)
  /\ UNCHANGED <<ctl, changes, coreVars, rep, moved, history>>

(* ... or stores a new one. *)
NewStorage(c, s) ==
  /\ conn[c].pc = "get"
  /\ At(conn[c].tag, conn[c].tc, conn[c].uuid) = {}
  /\ st[s].tag = None
  /\ st' = [st EXCEPT ![s] = [tag |-> conn[c].tag, uuid |-> conn[c].uuid,
                              tc |-> conn[c].tc, bytes |-> 0]]
  /\ conn' = Opened(c, s)
  /\ UNCHANGED <<ctl, changes, uidMap, inbound, counter, made, rep, moved,
                 history>>

(* ReadBuffer, WriteBuffer, ReadPacket, WritePacket and the CountFuncs. *)
Add(c) ==
  LET s == conn[c].s IN
  /\ conn[c].pc = "open"
  /\ moved[s] < MaxBytes
  /\ moved' = [moved EXCEPT ![s] = @ + 1]
  /\ st' = [st EXCEPT ![s].bytes = @ + 1]
  /\ UNCHANGED <<ctl, changes, uidMap, inbound, counter, made, conn, rep,
                 history>>

(* Mutant of Overwrite: a failed transfer stores its size, -1. *)
OverwriteFailed(c, n) ==
  LET s == conn[c].s IN
  /\ PlainIO
  /\ conn[c].pc = "open"
  /\ moved[s] + n <= MaxBytes
  /\ moved' = [moved EXCEPT ![s] = @ + n]
  /\ st' = [st EXCEPT ![s].bytes = n - 1]
  /\ UNCHANGED <<ctl, changes, uidMap, inbound, counter, made, conn, rep,
                 history>>

(* ConnCounter.Read and Write store the size of the last transfer, n       *)
(* (0 at end of file), in place of adding it.                              *)
Overwrite(c, n) ==
  LET s == conn[c].s IN
  /\ PlainIO
  /\ conn[c].pc = "open"
  /\ moved[s] + n <= MaxBytes
  /\ moved' = [moved EXCEPT ![s] = @ + n]
  /\ st' = [st EXCEPT ![s].bytes = n]
  /\ UNCHANGED <<ctl, changes, uidMap, inbound, counter, made, conn, rep,
                 history>>

CloseConn(c) ==
  /\ conn[c].pc = "open"
  /\ conn' = [conn EXCEPT ![c] = IdleConn]
  /\ UNCHANGED <<ctl, changes, coreVars, rep, moved, history>>

-----------------------------------------------------------------------------
(* The tick: GetUserTrafficSlice(c.tag, true) finds the counter of the tag *)
(* the controller has now.  mapLock is held for reading from Begin to End. *)
Begin(r) ==
  LET t == ctl[rep[r].ctl].tag IN
  /\ rep[r].pc = "idle"
  /\ counter[t] # NoTC
  /\ rep' = [rep EXCEPT ![r].pc = "range", ![r].tag = t,
                        ![r].tc = counter[t], ![r].todo = Uuids]
  /\ UNCHANGED <<ctl, changes, coreVars, conn, moved, history>>

(* The goroutine of a closed task waits no longer. *)
Stop(r) ==
  /\ rep[r].pc = "idle"
  /\ ~ctl[rep[r].ctl].open
  /\ rep' = [rep EXCEPT ![r] = GoneRep]
  /\ UNCHANGED <<ctl, changes, coreVars, conn, moved, history>>

(* The storage at the key u of the counter r collects, with a count worth  *)
(* reporting.                                                              *)
ToReport(r, u) ==
  {s \in At(rep[r].tag, rep[r].tc, u) : st[s].bytes > ReportMinTraffic}

(* Another report has loaded the count of s and not reset it. *)
LoadedByAnother(r, s) ==
  \E q \in Reporters \ {r} : rep[q].pc = "reset" /\ rep[q].s = s

(* Mutant of Load: small counts are left alone. *)
LoadAboveOne(r, u) ==
  LET here == {s \in ToReport(r, u) : st[s].bytes > ReportMinTraffic + 1} IN
  /\ rep[r].pc = "range"
  /\ u \in rep[r].todo
  /\ \/ /\ here = {}
        /\ rep' = [rep EXCEPT ![r].todo = @ \ {u}]
     \/ \E s \in here :
          rep' = [rep EXCEPT ![r].pc = "reset", ![r].todo = @ \ {u},
                             ![r].s = s, ![r].val = st[s].bytes]
  /\ UNCHANGED <<ctl, changes, coreVars, conn, moved, history>>

(* The Range comes to the key u, if it is there, in no particular order;   *)
(* the count is loaded, and passed over unless above the minimum.          *)
Load(r, u) ==
  /\ rep[r].pc = "range"
  /\ u \in rep[r].todo
  /\ \/ /\ ToReport(r, u) = {}
        /\ rep' = [rep EXCEPT ![r].todo = @ \ {u}]
        /\ UNCHANGED raced
     \/ \E s \in ToReport(r, u) :
          /\ rep' = [rep EXCEPT ![r].pc = "reset", ![r].todo = @ \ {u},
                                ![r].s = s, ![r].val = st[s].bytes]
          /\ raced' = IF LoadedByAnother(r, s) THEN raced \cup {s} ELSE raced
  /\ UNCHANGED <<ctl, changes, coreVars, conn, moved, taken>>

(* Mutant of Reset: the reset is forgotten. *)
NoReset(r) ==
  /\ rep[r].pc = "reset"
  /\ taken' = [taken EXCEPT ![rep[r].s] = @ + rep[r].val]
  /\ rep' = [rep EXCEPT ![r].pc = "check"]
  /\ UNCHANGED <<ctl, changes, coreVars, conn, moved, raced>>

(* The counter is set to zero, whatever was added since the Load. *)
Reset(r) ==
  /\ rep[r].pc = "reset"
  /\ st' = [st EXCEPT ![rep[r].s].bytes = 0]
  /\ taken' = [taken EXCEPT ![rep[r].s] = @ + rep[r].val]
  /\ rep' = [rep EXCEPT ![r].pc = "check"]
  /\ UNCHANGED <<ctl, changes, uidMap, inbound, counter, made, conn, moved,
                 raced>>

(* The Range goes on to the next key. *)
NextKey(r) == [rep[r] EXCEPT !.pc = "range", !.s = None, !.val = 0]

(* uidMap[uuid] == 0: the count is dropped and the key deleted. *)
Check(r) ==
  LET u == st[rep[r].s].uuid IN
  /\ rep[r].pc = "check"
  /\ IF u \in uidMap
     THEN /\ rep' = [rep EXCEPT ![r].pc = "emit"]
          /\ UNCHANGED st
     ELSE /\ rep' = [rep EXCEPT ![r] = NextKey(r)]
          /\ st' = Detach(rep[r].tag, rep[r].tc, {u})
  /\ UNCHANGED <<ctl, changes, uidMap, inbound, counter, made, conn, moved,
                 history>>

(* The entry (uidMap[uuid], count) is appended to the slice. *)
Emit(r) ==
  /\ rep[r].pc = "emit"
  /\ rep' = [rep EXCEPT ![r] =
               [NextKey(r) EXCEPT !.slice[rep[r].s] = @ + rep[r].val]]
  /\ UNCHANGED <<ctl, changes, coreVars, conn, moved, history>>

End(r) ==
  /\ rep[r].pc = "range"
  /\ rep[r].todo = {}
  /\ rep' = [rep EXCEPT ![r].pc = "post", ![r].tag = None, ![r].tc = NoTC]
  /\ UNCHANGED <<ctl, changes, coreVars, conn, moved, history>>

(* ReportUserTraffic.  The panel applies the slice once, not at all when   *)
(* the request fails, or more than once: a request that timed out is sent  *)
(* again, up to three times, and nothing in it tells the second from the   *)
(* first.  In each case the slice is forgotten here.                       *)
Post(r) ==
  /\ rep[r].pc = "post"
  /\ rep' = [rep EXCEPT ![r] = IdleRep(rep[r].ctl)]
  /\ UNCHANGED <<ctl, changes, coreVars, conn, moved, history>>

ReportStep(r) ==
  \/ Begin(r)
  \/ Stop(r)
  \/ \E u \in Uuids : Load(r, u)
  \/ Reset(r)
  \/ Check(r)
  \/ Emit(r)
  \/ End(r)
  \/ Post(r)

CtlStep(c) ==
  \/ \E t \in Tags, U \in (SUBSET Uuids) \ {{}}, ok \in BOOLEAN :
       Start(c, t, U, ok)
  \/ \E t \in Tags, U \in SUBSET Uuids : Reload(c, t, U)
  \/ Restart(c)
  \/ \E ok \in BOOLEAN : Close(c, ok)
  \/ \E U \in (SUBSET Uuids) \ {{}}, ok \in BOOLEAN :
       AddUsers(c, U, ok) \/ DelUsers(c, U, ok)

ConnStep(c) ==
  \/ \E t \in Tags, u \in Uuids : Route(c, t, u)
  \/ LoadCounter(c)
  \/ StoreCounter(c)
  \/ GetCounter(c)
  \/ \E s \in Storages : NewStorage(c, s)
  \/ Add(c)
  \/ \E n \in 0..1 : Overwrite(c, n)
  \/ CloseConn(c)

Next ==
  \/ \E c \in Controllers : CtlStep(c)
  \/ \E c \in Conns : ConnStep(c)
  \/ \E r \in Reporters : ReportStep(r)

Spec == Init /\ [][Next]_vars

(* A goroutine of a running report task executes again and again (Task,    *)
(* RunningTaskExecutes), and none of its steps waits for anything but a    *)
(* request with a timeout.  One whose task was closed may end (Stop).      *)
FairSpec == Spec /\ \A r \in Reporters : WF_vars(ReportStep(r))

-----------------------------------------------------------------------------
(* No byte is put into two reports, nor into one and then still counted:   *)
(* what the reports have taken off a count and what is left on it add up   *)
(* to at most what moved, whatever connections add between the Load and    *)
(* the reset of a report, through reloads, restarts and deletions, and     *)
(* however many goroutines report a tag.  The one exception: two of them   *)
(* had loaded the same count before either reset it.                       *)
NoByteTakenTwice ==
  \A s \in Storages \ raced : taken[s] + st[s].bytes <= moved[s]

(* Between the two lookups of uidMap for one entry the user cannot vanish, *)
(* so that no report carries the uid 0.                                    *)
NoZeroUid ==
  \A r \in Reporters : rep[r].pc = "emit" => st[rep[r].s].uuid \in uidMap

(* Whoever a node lets in can be reported: his uuid has a uid. *)
InboundUsersKnown == \A t \in Tags : inbound[t] \subseteq uidMap

(* A goroutine of c's report task, which runs, will report the tag t. *)
ReportedBy(c, t) == ctl[c].open /\ ctl[c].tag = t /\ LoopsOf(c) # {}

(* The storage is in the counter of its tag, and the tag is reported. *)
InReach(s) ==
  /\ st[s].tag \in Tags /\ st[s].tc # NoTC
  /\ st[s].tc = counter[st[s].tag]
  /\ \E c \in Controllers : ReportedBy(c, st[s].tag)

(* What may take a storage out of reach: its user was deleted; another     *)
(* first connection of the tag stored a counter; or a controller gave the  *)
(* tag up, by a reload to another type or because it was closed.           *)
Excused(s) ==
  \/ st[s].uuid \notin uidMap'
  \/ \E c \in Conns : /\ conn[c].pc = "store" /\ conn[c].tag = st[s].tag
                      /\ conn'[c].pc = "get"
  \/ \E c \in Controllers :
       /\ ctl[c].open /\ ctl[c].tag = st[s].tag
       /\ ~ctl'[c].open \/ ctl'[c].tag # ctl[c].tag

LosesNothing == \A s \in Storages : InReach(s) /\ ~InReach(s)' => Excused(s)

(* Connections keep counting on their storage, and reports keep finding    *)
(* it: they lose it only for the causes of Excused, and never to a reload  *)
(* that keeps the type, to a restart of the report task, to users the      *)
(* inbound refused, nor to a report that fails or finds nothing.  (A       *)
(* reload to another type does lose what the old tag still counts, and     *)
(* what its open connections go on to move.)                               *)
StaysInReach == [][LosesNothing]_vars

(* What is counted for a known user, on the storage a report can reach, is *)
(* collected after a while, or goes out of reach in a way StaysInReach     *)
(* names.                                                                  *)
Reportable(s) ==
  InReach(s) /\ st[s].uuid \in uidMap /\ st[s].bytes > ReportMinTraffic

EventuallyCollected == \A s \in Storages : Reportable(s) ~> ~Reportable(s)
=============================================================================
