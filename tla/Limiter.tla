------------------------------- MODULE Limiter -------------------------------
(***************************************************************************)
(* The limiter of one node (limiter/limiter.go): CheckLimit decides, for   *)
(* each new connection, whether its user may connect from its address and  *)
(* at what speed; GetOnlineDevice collects the addresses for the report    *)
(* (node/user.go); UpdateUser and the alive list come from the monitor     *)
(* (node/task.go).                                                         *)
(*                                                                         *)
(* No lock covers any of this: each operation on a sync.Map is one step,   *)
(* and connections, the report and the monitor interleave between them.    *)
(* A user's addresses are in a map of their own, an object that some hold  *)
(* while others replace it.  A user's uuid and his uid stand for each      *)
(* other.  The node's own limit and the dynamic speed limit are always     *)
(* zero in this program (no configuration sets them).                      *)
(***************************************************************************)
EXTENDS Integers, FiniteSetsExt

CONSTANTS
  Users, IPs,
  Infos,      \* UserLimitInfo records: a device limit and a speed, 0 for none
  FirstInfos, \* those the users may begin with, None for a user yet to come
  NewInfos,   \* those an update may bring, None for a user deleted
  Checks,     \* goroutines that may be in CheckLimit at once
  Maps,       \* address maps that may be referred to at once (bounds the model)
  MaxAlive,   \* largest count in the alive list
  MaxChecks,  \* checks of stream connections not yet reported (bounds the model)
  MaxUpdates, \* updates of users (bounds the model)
  None        \* no user, no map, no record

ASSUME LimiterAssumption ==
  /\ MaxAlive \in Nat /\ MaxChecks \in Nat /\ MaxUpdates \in Nat
  /\ Infos \subseteq [device : Nat, speed : Nat]
  /\ FirstInfos \subseteq Infos \cup {None} /\ NewInfos \subseteq Infos \cup {None}
  /\ None \notin Users \cup Maps \cup Infos
  /\ IsFiniteSet(Checks)

VARIABLES
  info,     \* UserLimitInfo: user -> record, if any
  online,   \* UserOnlineIP: user -> the map of his addresses, if any
  ips,      \* map -> the addresses in it
  old,      \* OldUserOnline: address -> user, if any
  alive,    \* AliveList: user -> count of his devices, as the panel said
  bucket,   \* SpeedLimiter: user -> speed of his token bucket, 0 for no bucket
  chk,      \* the goroutines in CheckLimit
  rep,      \* the report's GetOnlineDevice
  upd,      \* the monitor's UpdateUser, and how many there were
  \* What happened, for the properties:
  fresh,    \* <<user, address>> -> checks begun less reports made of it
  overlap,  \* whether two of these operations ever overlapped; until then:
  seen,     \* user -> addresses admitted since the last report or update
  last      \* the addresses of the last report

state == <<info, online, ips, old, alive, bucket>>
hist  == <<fresh, overlap, seen, last>>
vars  == <<state, chk, rep, upd, hist>>

Free   == [pc |-> "idle", u |-> None, ip |-> None, tcp |-> FALSE,
           rec |-> None, atLimit |-> FALSE, m |-> None, first |-> FALSE]
NoRep  == [pc |-> "idle", todo |-> {}, u |-> None, m |-> None, must |-> {},
           done |-> {}]
NoUpd  == [pc |-> "idle", u |-> None, new |-> None]

CheckState ==
  [pc : {"idle", "info", "online", "join", "known", "forget", "undo", "bucket"},
   u : Users \cup {None}, ip : IPs \cup {None}, tcp : BOOLEAN,
   rec : Infos \cup {None}, atLimit : BOOLEAN, m : Maps \cup {None},
   first : BOOLEAN]

(* Each map and each goroutine holds values of its kind. *)
TypeOK ==
  /\ info \in [Users -> Infos \cup {None}]
  /\ online \in [Users -> Maps \cup {None}]
  /\ ips \in [Maps -> SUBSET IPs]
  /\ old \in [IPs -> Users \cup {None}]
  /\ alive \in [Users -> 0..MaxAlive]
  /\ bucket \in [Users -> Nat]
  /\ chk \in [Checks -> CheckState]
  /\ rep \in [pc : {"idle", "range", "user"}, todo : SUBSET Users,
              u : Users \cup {None}, m : Maps \cup {None}, must : SUBSET IPs,
              done : SUBSET IPs]
  /\ upd \in [pc : {"idle", "online", "bucket", "alive", "store"},
              u : Users \cup {None}, new : Infos \cup {None}, n : 0..MaxUpdates]
  /\ fresh \in [Users \X IPs -> Int]
  /\ seen \in [Users -> SUBSET IPs]
  /\ last \in SUBSET IPs
  /\ overlap \in BOOLEAN

(* AddLimiter, for some users. *)
Init ==
  /\ info \in [Users -> FirstInfos]
  /\ online = [u \in Users |-> None]
  /\ ips = [m \in Maps |-> {}]
  /\ old = [ip \in IPs |-> None]
  /\ alive = [u \in Users |-> 0]
  /\ bucket = [u \in Users |-> 0]
  /\ chk = [c \in Checks |-> Free]
  /\ rep = NoRep
  /\ upd = [pc |-> "idle", u |-> None, new |-> None, n |-> 0]
  /\ fresh = [p \in Users \X IPs |-> 0]
  /\ seen = [u \in Users |-> {}]
  /\ last = {}
  /\ overlap = FALSE

Quiet == /\ \A c \in Checks : chk[c].pc = "idle"
         /\ rep.pc = "idle" /\ upd.pc = "idle"

(* What an operation remembers as it begins, and as it goes on. *)
Remember(s, l) ==
  IF overlap THEN UNCHANGED <<seen, last>> ELSE seen' = s /\ last' = l

Opens(s, l) ==
  IF Quiet THEN Remember(s, l) /\ UNCHANGED overlap
  ELSE overlap' = TRUE /\ seen' = [u \in Users |-> {}] /\ last' = {}

-----------------------------------------------------------------------------
(* CheckLimit, by the goroutine c.  A packet connection (tcp FALSE) passes *)
(* without a look at its address.                                          *)
Goto(c, pc) == chk' = [chk EXCEPT ![c].pc = pc]
Pass(c)     == chk' = [chk EXCEPT ![c] = [@ EXCEPT !.pc = "bucket", !.m = None,
                                                   !.first = FALSE]]
Leave(c)    == chk' = [chk EXCEPT ![c] = Free]

NotReported == MapThenSumSet(LAMBDA p : fresh[p], Users \X IPs)

Begin(c, u, ip, tcp) ==
  /\ chk[c].pc = "idle"
  /\ tcp => NotReported < MaxChecks
  /\ chk' = [chk EXCEPT ![c] = [Free EXCEPT !.pc = "info", !.u = u, !.tcp = tcp,
                                            !.ip = IF tcp THEN ip ELSE None]]
  /\ fresh' = IF tcp THEN [fresh EXCEPT ![<<u, ip>>] = @ + 1] ELSE fresh
  /\ Opens(seen, last)
  /\ UNCHANGED <<state, rep, upd>>

(* Whoever is not among the limiter's users is refused. *)
LoadInfo(c) ==
  LET rec == info[chk[c].u] IN
  /\ chk[c].pc = "info"
  /\ IF rec = None THEN Leave(c)
     ELSE chk' = [chk EXCEPT ![c].rec = rec,
                             ![c].pc = IF chk[c].tcp THEN "online" ELSE "bucket"]
  /\ UNCHANGED <<state, rep, upd, hist>>

InUse(m) == \/ \E u \in Users : online[u] = m
            \/ \E c \in Checks : chk[c].m = m
            \/ rep.m = m

(* The alive count is read, then UserOnlineIP.LoadOrStore: the user's map  *)
(* of addresses, or a new one with this address in it.                     *)
Online(c) ==
  LET u == chk[c].u
      d == chk[c].rec.device
      c1 == [chk[c] EXCEPT !.atLimit = d > 0 /\ d <= alive[u]] IN
  /\ chk[c].pc = "online"
  /\ \/ /\ online[u] # None
        /\ chk' = [chk EXCEPT ![c] = [c1 EXCEPT !.pc = "join", !.m = online[u]]]
        /\ UNCHANGED <<online, ips>>
     \/ /\ online[u] = None
        /\ \E m \in Maps :
             /\ ~InUse(m)
             /\ online' = [online EXCEPT ![u] = m]
             /\ ips' = [ips EXCEPT ![m] = {chk[c].ip}]
             /\ chk' = [chk EXCEPT ![c] = [c1 EXCEPT !.pc = "known", !.m = m,
                                                     !.first = TRUE]]
  /\ UNCHANGED <<info, old, alive, bucket, rep, upd, hist>>

(* LoadOrStore of the address: one that is there already passes. *)
Join(c) ==
  /\ chk[c].pc = "join"
  /\ ips' = [ips EXCEPT ![chk[c].m] = @ \cup {chk[c].ip}]
  /\ IF chk[c].ip \in ips[chk[c].m] THEN Pass(c) ELSE Goto(c, "known")
  /\ UNCHANGED <<info, online, old, alive, bucket, rep, upd, hist>>

(* Mutant of Known: whoever is first in the map passes. *)
KnownPassesFirst(c) ==
  LET o == old[chk[c].ip] IN
  /\ chk[c].pc = "known"
  /\ IF o = chk[c].u THEN Goto(c, "forget")
     ELSE IF o = None /\ chk[c].atLimit /\ ~chk[c].first THEN Goto(c, "undo")
     ELSE Pass(c)
  /\ UNCHANGED <<state, rep, upd, hist>>

(* A new address passes when it was in the last report (no matter whose),  *)
(* and otherwise unless the user is at his limit.                          *)
Known(c) ==
  LET o == old[chk[c].ip] IN
  /\ chk[c].pc = "known"
  /\ IF o = chk[c].u THEN Goto(c, "forget")
     ELSE IF o = None /\ chk[c].atLimit THEN Goto(c, "undo") ELSE Pass(c)
  /\ UNCHANGED <<state, rep, upd, hist>>

Forget(c) ==
  /\ chk[c].pc = "forget"
  /\ old' = [old EXCEPT ![chk[c].ip] = None]
  /\ Pass(c)
  /\ UNCHANGED <<info, online, ips, alive, bucket, rep, upd, hist>>

(* Mutant of Undo: a refused address goes with all others of the user. *)
UndoAll(c) ==
  /\ chk[c].pc = "undo"
  /\ online' = [online EXCEPT ![chk[c].u] = None]
  /\ Leave(c)
  /\ UNCHANGED <<info, old, alive, bucket, ips, rep, upd, hist>>

(* The refused address is taken out again: the user's entry when this      *)
(* check made it, the address otherwise.                                   *)
Undo(c) ==
  /\ chk[c].pc = "undo"
  /\ IF chk[c].first
     THEN online' = [online EXCEPT ![chk[c].u] = None] /\ UNCHANGED ips
     ELSE ips' = [ips EXCEPT ![chk[c].m] = @ \ {chk[c].ip}] /\ UNCHANGED online
  /\ Leave(c)
  /\ UNCHANGED <<info, old, alive, bucket, rep, upd, hist>>

(* SpeedLimiter.LoadOrStore (and the Store of the same bucket after it):   *)
(* the user's bucket, or one of the speed found at the beginning.          *)
Admit(c) ==
  LET u == chk[c].u IN
  /\ chk[c].pc = "bucket"
  /\ bucket' = [bucket EXCEPT ![u] = IF @ = 0 THEN chk[c].rec.speed ELSE @]
  /\ Remember(IF chk[c].tcp THEN [seen EXCEPT ![u] = @ \cup {chk[c].ip}] ELSE seen, last)
  /\ Leave(c)
  /\ UNCHANGED <<info, online, ips, old, alive, rep, upd, fresh, overlap>>

-----------------------------------------------------------------------------
(* GetOnlineDevice.  OldUserOnline is emptied, then filled while the Range *)
(* goes over the users and their addresses.                                *)
RepBegin ==
  /\ rep.pc = "idle"
  /\ old' = [ip \in IPs |-> None]
  /\ rep' = [NoRep EXCEPT !.pc = "range", !.todo = Users]
  /\ Opens(seen, {})
  /\ UNCHANGED <<info, online, ips, alive, bucket, chk, upd, fresh>>

RepUser(u) ==
  /\ rep.pc = "range" /\ u \in rep.todo
  /\ rep' = IF online[u] = None THEN [rep EXCEPT !.todo = @ \ {u}]
            ELSE [pc |-> "user", todo |-> rep.todo \ {u}, u |-> u,
                  m |-> online[u], must |-> ips[online[u]], done |-> {}]
  /\ UNCHANGED <<state, chk, upd, hist>>

(* Any address that is there, at most once ... *)
RepAddress(ip) ==
  /\ rep.pc = "user" /\ ip \in ips[rep.m] \ rep.done
  /\ old' = [old EXCEPT ![ip] = rep.u]
  /\ rep' = [rep EXCEPT !.done = @ \cup {ip}]
  /\ fresh' = [fresh EXCEPT ![<<rep.u, ip>>] = @ - 1]
  /\ Remember(seen, last \cup {ip})
  /\ UNCHANGED <<info, online, ips, alive, bucket, chk, upd, overlap>>

(* Mutant of RepDelete: the user's addresses stay for the next report. *)
RepKeep ==
  /\ rep.pc = "user" /\ rep.must \cap ips[rep.m] \subseteq rep.done
  /\ rep' = [rep EXCEPT !.pc = "range", !.u = None, !.m = None, !.must = {},
                        !.done = {}]
  /\ UNCHANGED <<state, chk, upd, hist>>

(* ... and none that was there all the time is left out.  The user's entry *)
(* goes, whichever map it is by now.                                       *)
RepDelete ==
  /\ rep.pc = "user" /\ rep.must \cap ips[rep.m] \subseteq rep.done
  /\ online' = [online EXCEPT ![rep.u] = None]
  /\ rep' = [rep EXCEPT !.pc = "range", !.u = None, !.m = None, !.must = {},
                        !.done = {}]
  /\ Remember([seen EXCEPT ![rep.u] = {}], last)
  /\ UNCHANGED <<info, ips, old, alive, bucket, chk, upd, fresh, overlap>>

(* The list is posted; nothing here depends on whether that succeeds. *)
RepEnd ==
  /\ rep.pc = "range" /\ rep.todo = {}
  /\ rep' = NoRep
  /\ UNCHANGED <<state, chk, upd, hist>>

-----------------------------------------------------------------------------
(* The monitor: a new alive list, and UpdateUser of one user, deleted,     *)
(* added, or both.                                                         *)
Poll(a) ==
  /\ upd.pc = "idle"
  /\ alive' = a
  /\ UNCHANGED <<info, online, ips, old, bucket, chk, rep, upd, hist>>

DeleteInfo(u, new) ==
  /\ upd.pc = "idle" /\ upd.n < MaxUpdates
  /\ info[u] # new
  /\ info' = [info EXCEPT ![u] = None]
  /\ upd' = [pc |-> IF info[u] = None THEN "store" ELSE "online", u |-> u,
             new |-> new, n |-> upd.n + 1]
  /\ Opens(seen, last)
  /\ UNCHANGED <<online, ips, old, alive, bucket, chk, rep, fresh>>

DeleteOnline ==
  /\ upd.pc = "online"
  /\ online' = [online EXCEPT ![upd.u] = None]
  /\ Remember([seen EXCEPT ![upd.u] = {}], last)
  /\ upd' = [upd EXCEPT !.pc = "bucket"]
  /\ UNCHANGED <<info, ips, old, alive, bucket, chk, rep, fresh, overlap>>

(* Mutant of DeleteBucket: the bucket outlives the user's record. *)
KeepBucket ==
  /\ upd.pc = "bucket"
  /\ upd' = [upd EXCEPT !.pc = "alive"]
  /\ UNCHANGED <<state, chk, rep, hist>>

DeleteBucket ==
  /\ upd.pc = "bucket"
  /\ bucket' = [bucket EXCEPT ![upd.u] = 0]
  /\ upd' = [upd EXCEPT !.pc = "alive"]
  /\ UNCHANGED <<info, online, ips, old, alive, chk, rep, hist>>

(* Mutant of DeleteAlive: one device less, instead of no entry. *)
DecrementAlive ==
  /\ upd.pc = "alive"
  /\ alive' = [alive EXCEPT ![upd.u] = @ - 1]
  /\ upd' = [upd EXCEPT !.pc = "store"]
  /\ UNCHANGED <<info, online, ips, old, bucket, chk, rep, hist>>

DeleteAlive ==
  /\ upd.pc = "alive"
  /\ alive' = [alive EXCEPT ![upd.u] = 0]
  /\ upd' = [upd EXCEPT !.pc = "store"]
  /\ UNCHANGED <<info, online, ips, old, bucket, chk, rep, hist>>

StoreInfo ==
  /\ upd.pc = "store"
  /\ info' = [info EXCEPT ![upd.u] = upd.new]
  /\ upd' = [upd EXCEPT !.pc = "idle", !.u = None, !.new = None]
  /\ UNCHANGED <<online, ips, old, alive, bucket, chk, rep, hist>>

-----------------------------------------------------------------------------
CheckStep(c) ==
  \/ \E u \in Users, ip \in IPs, tcp \in BOOLEAN : Begin(c, u, ip, tcp)
  \/ LoadInfo(c) \/ Online(c) \/ Join(c) \/ Known(c) \/ Forget(c) \/ Undo(c)
  \/ Admit(c)

ReportStep ==
  \/ RepBegin \/ RepDelete \/ RepEnd
  \/ \E u \in Users : RepUser(u)
  \/ \E ip \in IPs : RepAddress(ip)

MonitorStep ==
  \/ \E a \in [Users -> 0..MaxAlive] : Poll(a)
  \/ \E u \in Users, new \in NewInfos : DeleteInfo(u, new)
  \/ DeleteOnline \/ DeleteBucket \/ DeleteAlive \/ StoreInfo

Next ==
  \/ \E c \in Checks : CheckStep(c)
  \/ ReportStep
  \/ MonitorStep

Spec == Init /\ [][Next]_vars

-----------------------------------------------------------------------------
(* A report never lists a device more often than connections from it were  *)
(* checked: nothing is reported again without a new connection, however    *)
(* checks, updates and reports interleave.                                 *)
ReportedOnce == \A p \in Users \X IPs : fresh[p] >= 0

(* A device admitted since the last report will be in the next one, and    *)
(* counts as known until then, as long as no two operations overlap.       *)
DeviceRemembered ==
  ~overlap /\ Quiet =>
    \A u \in Users : \A ip \in seen[u] :
      online[u] # None /\ ip \in ips[online[u]]

(* A user's bucket has the speed of his record, as long as no two          *)
(* operations overlap.                                                     *)
BucketCurrent ==
  ~overlap /\ Quiet =>
    \A u \in Users : bucket[u] # 0 => info[u] # None /\ bucket[u] = info[u].speed

(* A stream connection of a user at his device limit goes on to a bucket   *)
(* only from an address that was admitted before or reported last time, as *)
(* long as no two operations overlap: the online IP limit.                 *)
LimitHolds ==
  ~overlap =>
    \A c \in Checks :
      chk[c].pc = "bucket" /\ chk[c].tcp /\ chk[c].atLimit =>
        chk[c].ip \in seen[chk[c].u] \cup last

=============================================================================
