---------------------------- MODULE LimiterProofs ----------------------------
(***************************************************************************)
(* The limiter, for any users, addresses, and any finite number of         *)
(* connections at once: what is reported of a device was checked (Owed),   *)
(* and, as long as no two operations overlap, what the maps hold is what   *)
(* was admitted (Sequential).                                              *)
(***************************************************************************)
EXTENDS Limiter, FiniteSetTheorems, TLAPS

Holding == {"join", "known", "forget", "undo"}

(* Whoever is past a step has what that step looked up.                    *)
CheckPlaced(c) ==
  /\ chk[c].pc # "idle" => chk[c].u \in Users
  /\ chk[c].tcp = TRUE => chk[c].ip \in IPs
  /\ chk[c].pc \in Holding \cup {"online"} => chk[c].tcp = TRUE
  /\ chk[c].pc \in Holding \cup {"online", "bucket"} => chk[c].rec \in Infos
  /\ chk[c].m # None <=> chk[c].pc \in Holding
  /\ chk[c].pc \in {"info", "online", "join"} => chk[c].first = FALSE

RepPlaced ==
  /\ rep.pc = "user" => rep.u \in Users
  /\ rep.m # None <=> rep.pc = "user"

UpdPlaced == upd.pc # "idle" => upd.u \in Users

Struct == TypeOK /\ (\A c \in Checks : CheckPlaced(c)) /\ RepPlaced /\ UpdPlaced

(* A map of addresses is the map of one user, whoever holds it.            *)
Holds(u, m) ==
  \/ online[u] = m
  \/ \E c \in Checks : chk[c].m = m /\ chk[c].u = u
  \/ rep.m = m /\ rep.u = u

Owned == \A m \in Maps : \A u, v \in Users : Holds(u, m) /\ Holds(v, m) => u = v

(* What a report may still list of the device ip of the user u: the checks *)
(* that may come to store it, and the maps where it is stored and has not  *)
(* been listed from.                                                       *)
Coming(u, ip) ==
  {c \in Checks : /\ chk[c].pc \in {"info", "online", "join"}
                  /\ chk[c].tcp = TRUE /\ chk[c].u = u /\ chk[c].ip = ip}

Stored(u, ip) ==
  {m \in Maps : /\ online[u] = m \/ (rep.m = m /\ rep.u = u)
                /\ ip \in ips[m]
                /\ ~(rep.m = m /\ ip \in rep.done)}

Owed ==
  \A u \in Users, ip \in IPs :
    Cardinality(Coming(u, ip)) + Cardinality(Stored(u, ip)) <= fresh[<<u, ip>>]

RInv == Struct /\ Owned /\ Owed

(* One operation at a time.                                                *)
Sole ==
  /\ \A c \in Checks : chk[c].pc # "idle" => rep.pc = "idle" /\ upd.pc = "idle"
  /\ \A c, d \in Checks : chk[c].pc # "idle" /\ chk[d].pc # "idle" => c = d
  /\ rep.pc # "idle" => upd.pc = "idle"

Content(u) == IF online[u] = None THEN {} ELSE ips[online[u]]

(* The check has stored its address.                                       *)
HasStored(c) ==
  \/ chk[c].pc \in {"known", "forget", "undo"}
  \/ chk[c].pc = "bucket" /\ chk[c].tcp = TRUE

(* A user's map has the addresses admitted, and that of the check.         *)
Admitted ==
  \A u \in Users, ip \in IPs :
    ip \in Content(u) <=>
      \/ ip \in seen[u]
      \/ \E c \in Checks : HasStored(c) /\ chk[c].u = u /\ chk[c].ip = ip

(* The check knows the state as it is, and passes for a reason.            *)
Informed(c) ==
  /\ chk[c].pc \in Holding => chk[c].m = online[chk[c].u]
  /\ chk[c].pc \in {"known", "forget", "undo"} =>
       chk[c].ip \notin seen[chk[c].u] /\ (chk[c].first = TRUE => seen[chk[c].u] = {})
  /\ chk[c].pc \in Holding \cup {"online", "bucket"} => chk[c].rec = info[chk[c].u]
  /\ chk[c].pc = "forget" => chk[c].ip \in last
  /\ chk[c].pc = "bucket" /\ chk[c].tcp = TRUE /\ chk[c].atLimit = TRUE =>
       chk[c].ip \in seen[chk[c].u] \cup last

Reported == \A ip \in IPs : old[ip] # None => ip \in last

Buckets ==
  /\ upd.pc # "idle" => info[upd.u] = None
  /\ \A u \in Users : bucket[u] # 0 =>
       \/ info[u] # None /\ bucket[u] = info[u].speed
       \/ upd.pc \in {"online", "bucket"} /\ upd.u = u

Orderly ==
  Sole /\ Admitted /\ (\A c \in Checks : Informed(c)) /\ Reported /\ Buckets

Sequential == overlap = FALSE => Orderly

-----------------------------------------------------------------------------
(* What a step does to the goroutine c of CheckLimit.                      *)
Pcs == {"idle", "info", "online", "join", "known", "forget", "undo", "bucket"}

Others(c) ==
  /\ chk' \in [Checks -> CheckState]
  /\ \A d \in Checks \ {c} : chk'[d] = chk[d]

Keeps(c) ==
  /\ Others(c)
  /\ chk'[c].u = chk[c].u /\ chk'[c].ip = chk[c].ip /\ chk'[c].tcp = chk[c].tcp

GoesTo(c, p) ==
  /\ Keeps(c) /\ chk'[c].pc = p
  /\ chk'[c].rec = chk[c].rec /\ chk'[c].atLimit = chk[c].atLimit
  /\ chk'[c].m = chk[c].m /\ chk'[c].first = chk[c].first

Passes(c) ==
  /\ Keeps(c) /\ chk'[c].pc = "bucket"
  /\ chk'[c].rec = chk[c].rec /\ chk'[c].atLimit = chk[c].atLimit
  /\ chk'[c].m = None /\ chk'[c].first = FALSE

Leaves(c) ==
  /\ Others(c)
  /\ chk'[c].pc = "idle" /\ chk'[c].tcp = FALSE /\ chk'[c].m = None

LEMMA CheckBecomes ==
  ASSUME chk \in [Checks -> CheckState], NEW c \in Checks, NEW s \in CheckState,
         chk' = [chk EXCEPT ![c] = s]
  PROVE  Others(c) /\ chk'[c] = s
BY DEF Others

LEMMA GotoState ==
  ASSUME TypeOK, NEW c \in Checks, NEW p \in Pcs, Goto(c, p)
  PROVE  GoesTo(c, p)
<1> DEFINE s == [chk[c] EXCEPT !.pc = p]
<1>1. chk \in [Checks -> CheckState] /\ chk[c] \in CheckState
  BY DEF TypeOK
<1>2. /\ s \in CheckState /\ s.pc = p /\ s.u = chk[c].u /\ s.ip = chk[c].ip
      /\ s.tcp = chk[c].tcp /\ s.rec = chk[c].rec /\ s.atLimit = chk[c].atLimit
      /\ s.m = chk[c].m /\ s.first = chk[c].first
  BY <1>1 DEF CheckState, Pcs
<1>3. chk' = [chk EXCEPT ![c] = s]
  BY DEF Goto
<1> HIDE DEF s
<1>4. Others(c) /\ chk'[c] = s
  BY <1>1, <1>2, <1>3, CheckBecomes
<1> QED
  BY <1>2, <1>4 DEF GoesTo, Keeps

LEMMA PassState ==
  ASSUME TypeOK, NEW c \in Checks, Pass(c)
  PROVE  Passes(c)
<1> DEFINE s == [chk[c] EXCEPT !.pc = "bucket", !.m = None, !.first = FALSE]
<1>1. chk \in [Checks -> CheckState] /\ chk[c] \in CheckState
  BY DEF TypeOK
<1>2. /\ s \in CheckState /\ s.pc = "bucket" /\ s.u = chk[c].u
      /\ s.ip = chk[c].ip /\ s.tcp = chk[c].tcp /\ s.rec = chk[c].rec
      /\ s.atLimit = chk[c].atLimit /\ s.m = None /\ s.first = FALSE
  BY <1>1 DEF CheckState
<1>3. chk' = [chk EXCEPT ![c] = s]
  BY DEF Pass
<1> HIDE DEF s
<1>4. Others(c) /\ chk'[c] = s
  BY <1>1, <1>2, <1>3, CheckBecomes
<1> QED
  BY <1>2, <1>4 DEF Passes, Keeps

LEMMA LeaveState ==
  ASSUME TypeOK, NEW c \in Checks, Leave(c)
  PROVE  Leaves(c)
<1>1. Free \in CheckState /\ Free.pc = "idle" /\ Free.tcp = FALSE /\ Free.m = None
  BY DEF Free, CheckState
<1>2. Others(c) /\ chk'[c] = Free
  BY <1>1, CheckBecomes DEF Leave, TypeOK
<1> QED
  BY <1>1, <1>2 DEF Leaves

More(u, ip) == [fresh EXCEPT ![<<u, ip>>] = @ + 1]

Begins(c, u, ip) ==
  /\ chk[c].pc = "idle" /\ Others(c)
  /\ chk'[c].pc = "info" /\ chk'[c].u = u /\ chk'[c].m = None
  /\ chk'[c].first = FALSE
  /\ chk'[c].tcp = TRUE => chk'[c].ip = ip /\ fresh' = More(u, ip)
  /\ chk'[c].tcp # TRUE => fresh' = fresh
  /\ Opens(seen, last)
  /\ UNCHANGED <<state, rep, upd>>

LEMMA BeginState ==
  ASSUME TypeOK, NEW c \in Checks, NEW u \in Users, NEW ip \in IPs,
         \E tcp \in BOOLEAN : Begin(c, u, ip, tcp)
  PROVE  Begins(c, u, ip)
<1>1. PICK tcp \in BOOLEAN : Begin(c, u, ip, tcp)
  OBVIOUS
<1> DEFINE s == [Free EXCEPT !.pc = "info", !.u = u, !.tcp = tcp,
                             !.ip = IF tcp THEN ip ELSE None]
<1>2. /\ s \in CheckState /\ s.pc = "info" /\ s.u = u /\ s.tcp = tcp
      /\ (tcp = TRUE => s.ip = ip) /\ s.m = None /\ s.first = FALSE
  BY DEF Free, CheckState
<1>3. /\ chk[c].pc = "idle" /\ chk' = [chk EXCEPT ![c] = s]
      /\ chk \in [Checks -> CheckState]
      /\ fresh' = IF tcp THEN More(u, ip) ELSE fresh
      /\ Opens(seen, last) /\ UNCHANGED <<state, rep, upd>>
  BY <1>1 DEF Begin, TypeOK, More
<1> HIDE DEF s
<1>4. Others(c) /\ chk'[c] = s
  BY <1>2, <1>3, CheckBecomes
<1>5. CASE tcp = TRUE
  BY <1>2, <1>3, <1>4, <1>5 DEF Begins
<1>6. CASE tcp = FALSE
  BY <1>2, <1>3, <1>4, <1>6 DEF Begins
<1> QED
  BY <1>5, <1>6

Loads(c) ==
  /\ Keeps(c) /\ info[chk[c].u] # None /\ chk'[c].rec = info[chk[c].u]
  /\ chk[c].tcp = TRUE => chk'[c].pc = "online"
  /\ chk[c].tcp # TRUE => chk'[c].pc = "bucket"
  /\ chk'[c].m = chk[c].m /\ chk'[c].first = chk[c].first

LEMMA LoadState ==
  ASSUME TypeOK, NEW c \in Checks, LoadInfo(c), chk[c].u \in Users
  PROVE  Leaves(c) \/ Loads(c)
<1>1. CASE info[chk[c].u] = None
  BY <1>1, LeaveState DEF LoadInfo
<1>2. CASE info[chk[c].u] # None
  <2> DEFINE rec == info[chk[c].u]
             p == IF chk[c].tcp THEN "online" ELSE "bucket"
             s == [chk[c] EXCEPT !.rec = rec, !.pc = p]
  <2>1. /\ chk \in [Checks -> CheckState] /\ chk[c] \in CheckState /\ rec \in Infos
        /\ chk[c].tcp \in BOOLEAN
    BY <1>2 DEF TypeOK, CheckState
  <2>2. /\ s \in CheckState /\ s.pc = p /\ s.u = chk[c].u /\ s.ip = chk[c].ip
        /\ s.tcp = chk[c].tcp /\ s.rec = rec
        /\ s.m = chk[c].m /\ s.first = chk[c].first
    BY <2>1 DEF CheckState
  <2>3. chk' = [chk EXCEPT ![c] = s]
    BY <1>2 DEF LoadInfo
  <2>4. /\ chk[c].tcp = TRUE => p = "online"
        /\ chk[c].tcp # TRUE => p = "bucket"
    BY <2>1
  <2> HIDE DEF s, p
  <2>5. Others(c) /\ chk'[c] = s
    BY <2>1, <2>2, <2>3, CheckBecomes
  <2> QED
    BY <1>2, <2>2, <2>4, <2>5 DEF Keeps, Loads
<1> QED
  BY <1>1, <1>2

(* The user's map, or a new one that nobody has.                           *)
LEMMA OnlineState ==
  ASSUME TypeOK, NEW c \in Checks, Online(c), chk[c].u \in Users
  PROVE  /\ Keeps(c) /\ chk'[c].rec = chk[c].rec
         /\ \/ /\ online[chk[c].u] # None /\ UNCHANGED <<online, ips>>
               /\ chk'[c].pc = "join" /\ chk'[c].m = online[chk[c].u]
               /\ chk'[c].first = chk[c].first
            \/ /\ online[chk[c].u] = None
               /\ \E m \in Maps :
                    /\ ~InUse(m)
                    /\ online' = [online EXCEPT ![chk[c].u] = m]
                    /\ ips' = [ips EXCEPT ![m] = {chk[c].ip}]
                    /\ chk'[c].pc = "known" /\ chk'[c].m = m
                    /\ chk'[c].first = TRUE
<1> DEFINE d == chk[c].rec.device
           b == d > 0 /\ d <= alive[chk[c].u]
           c1 == [chk[c] EXCEPT !.atLimit = b]
<1>0. b \in BOOLEAN /\ chk \in [Checks -> CheckState] /\ chk[c] \in CheckState
  BY DEF TypeOK
<1>1. CASE online[chk[c].u] # None
  <2> DEFINE s == [c1 EXCEPT !.pc = "join", !.m = online[chk[c].u]]
  <2>1. online[chk[c].u] \in Maps
    BY <1>1 DEF TypeOK
  <2>2. chk' = [chk EXCEPT ![c] = s] /\ UNCHANGED <<online, ips>>
    BY <1>1 DEF Online
  <2> HIDE DEF b
  <2>3. /\ s \in CheckState /\ s.pc = "join" /\ s.u = chk[c].u /\ s.ip = chk[c].ip
        /\ s.tcp = chk[c].tcp /\ s.rec = chk[c].rec /\ s.m = online[chk[c].u]
        /\ s.first = chk[c].first
    BY <1>0, <2>1 DEF CheckState
  <2> HIDE DEF s
  <2>4. Others(c) /\ chk'[c] = s
    BY <1>0, <2>2, <2>3, CheckBecomes
  <2> QED
    BY <1>1, <2>2, <2>3, <2>4 DEF Keeps
<1>2. CASE online[chk[c].u] = None
  <2> DEFINE s(m) == [c1 EXCEPT !.pc = "known", !.m = m, !.first = TRUE]
  <2>1. PICK m \in Maps :
          /\ ~InUse(m)
          /\ online' = [online EXCEPT ![chk[c].u] = m]
          /\ ips' = [ips EXCEPT ![m] = {chk[c].ip}]
          /\ chk' = [chk EXCEPT ![c] = s(m)]
    BY <1>2 DEF Online
  <2> HIDE DEF b
  <2>2. /\ s(m) \in CheckState /\ s(m).pc = "known" /\ s(m).u = chk[c].u
        /\ s(m).ip = chk[c].ip /\ s(m).tcp = chk[c].tcp /\ s(m).rec = chk[c].rec
        /\ s(m).m = m /\ s(m).first = TRUE
    BY <1>0 DEF CheckState
  <2> HIDE DEF s
  <2>3. Others(c) /\ chk'[c] = s(m)
    BY <1>0, <2>1, <2>2, CheckBecomes
  <2> QED
    BY <1>2, <2>1, <2>2, <2>3 DEF Keeps
<1> QED
  BY <1>1, <1>2

-----------------------------------------------------------------------------
(* Structure is kept, by the checks ...                                    *)
LEMMA StructInit ==
  ASSUME Init
  PROVE  Struct
<1>1. Free \in CheckState /\ Free.pc = "idle" /\ Free.tcp = FALSE /\ Free.m = None
  BY DEF Free, CheckState
<1>2. \A c \in Checks : chk[c] = Free
  BY DEF Init
<1>3. chk \in [Checks -> CheckState]
  BY <1>1 DEF Init
<1>4. /\ info \in [Users -> Infos \cup {None}]
      /\ 0 \in 0..MaxAlive /\ 0 \in 0..MaxUpdates
  BY LimiterAssumption DEF Init
<1>5. TypeOK
  <2>1. /\ upd \in [pc : {"idle", "online", "bucket", "alive", "store"},
                   u : Users \cup {None}, new : Infos \cup {None}, n : 0..MaxUpdates]
        /\ alive \in [Users -> 0..MaxAlive]
    BY <1>4 DEF Init
  <2>2. /\ online \in [Users -> Maps \cup {None}] /\ ips \in [Maps -> SUBSET IPs]
        /\ old \in [IPs -> Users \cup {None}] /\ bucket \in [Users -> Nat]
        /\ fresh \in [Users \X IPs -> Int] /\ seen \in [Users -> SUBSET IPs]
    BY DEF Init
  <2>3. rep \in [pc : {"idle", "range", "user"}, todo : SUBSET Users,
                u : Users \cup {None}, m : Maps \cup {None}, must : SUBSET IPs,
                done : SUBSET IPs]
    BY DEF Init, NoRep
  <2> QED
    BY <1>3, <1>4, <2>1, <2>2, <2>3 DEF Init, TypeOK
<1>6. \A c \in Checks : CheckPlaced(c)
  BY <1>1, <1>2 DEF CheckPlaced, Holding
<1> QED
  BY <1>5, <1>6 DEF Init, Struct, NoRep, RepPlaced, UpdPlaced

LEMMA HistoryTyped ==
  ASSUME TypeOK, NEW s, NEW l, Remember(s, l) \/ Opens(s, l),
         s \in [Users -> SUBSET IPs], l \in SUBSET IPs
  PROVE  /\ seen' \in [Users -> SUBSET IPs] /\ last' \in SUBSET IPs
         /\ Opens(s, l) => overlap' \in BOOLEAN
BY DEF TypeOK, Remember, Opens

LEMMA CheckStruct ==
  ASSUME Struct, NEW c \in Checks, Others(c), UNCHANGED <<info, alive, rep, upd>>,
         online' \in [Users -> Maps \cup {None}], ips' \in [Maps -> SUBSET IPs],
         old' \in [IPs -> Users \cup {None}], bucket' \in [Users -> Nat],
         fresh' \in [Users \X IPs -> Int], seen' \in [Users -> SUBSET IPs],
         last' \in SUBSET IPs, overlap' \in BOOLEAN, CheckPlaced(c)'
  PROVE  Struct'
<1>1. TypeOK'
  BY DEF Struct, TypeOK, Others
<1>2. ASSUME NEW d \in Checks
      PROVE  CheckPlaced(d)'
  BY <1>2 DEF Struct, CheckPlaced, Others
<1> QED
  BY <1>1, <1>2 DEF Struct, RepPlaced, UpdPlaced

LEMMA StructCheck ==
  ASSUME Struct, NEW c \in Checks, CheckStep(c)
  PROVE  Struct'
<1>0. /\ TypeOK /\ CheckPlaced(c) /\ chk[c] \in CheckState
      /\ online \in [Users -> Maps \cup {None}] /\ ips \in [Maps -> SUBSET IPs]
      /\ old \in [IPs -> Users \cup {None}] /\ bucket \in [Users -> Nat]
      /\ fresh \in [Users \X IPs -> Int] /\ seen \in [Users -> SUBSET IPs]
      /\ last \in SUBSET IPs /\ overlap \in BOOLEAN
  BY DEF Struct, TypeOK
<1>1. ASSUME NEW u \in Users, NEW ip \in IPs,
             \E tcp \in BOOLEAN : Begin(c, u, ip, tcp)
      PROVE  Struct'
  <2>1. Begins(c, u, ip)
    BY <1>0, <1>1, BeginState
  <2>2. CheckPlaced(c)'
    BY <2>1 DEF Begins, CheckPlaced, Holding
  <2>3. fresh' \in [Users \X IPs -> Int]
    <3>1. More(u, ip) \in [Users \X IPs -> Int]
      BY <1>0 DEF More
    <3>2. chk'[c].tcp = TRUE \/ chk'[c].tcp # TRUE
      OBVIOUS
    <3> QED
      BY <1>0, <2>1, <3>1, <3>2 DEF Begins
  <2>4. /\ seen' \in [Users -> SUBSET IPs] /\ last' \in SUBSET IPs
        /\ overlap' \in BOOLEAN
    BY <1>0, <2>1, HistoryTyped DEF Begins
  <2> QED
    BY <1>0, <2>1, <2>2, <2>3, <2>4, CheckStruct DEF Begins, state
<1>2. CASE LoadInfo(c)
  <2>1. chk[c].pc = "info" /\ chk[c].u \in Users /\ chk[c].tcp \in BOOLEAN
    BY <1>0, <1>2 DEF LoadInfo, CheckPlaced, CheckState
  <2>2. Others(c) /\ CheckPlaced(c)'
    <3>1. CASE Leaves(c)
      BY <3>1 DEF Leaves, CheckPlaced, Holding
    <3>2. CASE ~Leaves(c)
      <4>1. Loads(c) /\ info[chk[c].u] \in Infos \cup {None}
        BY <1>0, <1>2, <2>1, <3>2, LoadState DEF TypeOK
      <4> QED
        BY <1>0, <2>1, <4>1 DEF CheckPlaced, Holding, Loads, Keeps
    <3> QED
      BY <3>1, <3>2
  <2> QED
    BY <1>0, <1>2, <2>2, CheckStruct DEF LoadInfo, state, hist
<1>3. CASE Online(c)
  <2>1. chk[c].pc = "online" /\ chk[c].u \in Users /\ chk[c].ip \in IPs
    BY <1>0, <1>3 DEF Online, CheckPlaced, CheckState
  <2>2. CASE online[chk[c].u] # None
    <3>1. /\ Keeps(c) /\ chk'[c].rec = chk[c].rec /\ UNCHANGED <<online, ips>>
          /\ chk'[c].pc = "join" /\ chk'[c].m = online[chk[c].u]
          /\ chk'[c].first = chk[c].first
      BY <1>0, <1>3, <2>1, <2>2, OnlineState
    <3>2. Others(c) /\ CheckPlaced(c)'
      BY <1>0, <2>1, <2>2, <3>1 DEF CheckPlaced, Holding, Keeps
    <3> QED
      BY <1>0, <1>3, <3>1, <3>2, CheckStruct DEF Online, hist
  <2>3. CASE online[chk[c].u] = None
    <3>1. PICK m \in Maps :
            /\ Keeps(c) /\ chk'[c].rec = chk[c].rec
            /\ online' = [online EXCEPT ![chk[c].u] = m]
            /\ ips' = [ips EXCEPT ![m] = {chk[c].ip}]
            /\ chk'[c].pc = "known" /\ chk'[c].m = m /\ chk'[c].first = TRUE
      BY <1>0, <1>3, <2>1, <2>3, OnlineState
    <3>2. m # None
      BY LimiterAssumption
    <3>3. Others(c) /\ CheckPlaced(c)'
      BY <1>0, <2>1, <3>1, <3>2 DEF CheckPlaced, Holding, Keeps
    <3>4. online' \in [Users -> Maps \cup {None}] /\ ips' \in [Maps -> SUBSET IPs]
      BY <1>0, <2>1, <3>1
    <3> QED
      BY <1>0, <1>3, <3>3, <3>4, CheckStruct DEF Online, hist
  <2> QED
    BY <2>2, <2>3
<1>4. CASE Join(c)
  <2>1. chk[c].pc = "join" /\ chk[c].m \in Maps /\ chk[c].ip \in IPs
    BY <1>0, <1>4 DEF Join, CheckPlaced, CheckState, Holding
  <2>2. Passes(c) \/ GoesTo(c, "known")
    BY <1>0, <1>4, PassState, GotoState DEF Join, Pcs
  <2>3. Others(c) /\ CheckPlaced(c)'
    BY <1>0, <2>1, <2>2 DEF CheckPlaced, Holding, Passes, GoesTo, Keeps
  <2>4. ips' \in [Maps -> SUBSET IPs]
    BY <1>0, <1>4, <2>1 DEF Join
  <2> QED
    BY <1>0, <1>4, <2>3, <2>4, CheckStruct DEF Join, hist
<1>5. CASE Known(c)
  <2>1. chk[c].pc = "known"
    BY <1>5 DEF Known
  <2>2. Passes(c) \/ GoesTo(c, "forget") \/ GoesTo(c, "undo")
    BY <1>0, <1>5, PassState, GotoState DEF Known, Pcs
  <2>3. Others(c) /\ CheckPlaced(c)'
    BY <1>0, <2>1, <2>2 DEF CheckPlaced, Holding, Passes, GoesTo, Keeps
  <2> QED
    BY <1>0, <1>5, <2>3, CheckStruct DEF Known, hist, state
<1>6. CASE Forget(c)
  <2>1. chk[c].pc = "forget" /\ Passes(c)
    BY <1>0, <1>6, PassState DEF Forget
  <2>2. Others(c) /\ CheckPlaced(c)'
    BY <1>0, <2>1 DEF CheckPlaced, Holding, Passes, Keeps
  <2>3. old' \in [IPs -> Users \cup {None}]
    BY <1>0, <1>6 DEF Forget
  <2> QED
    BY <1>0, <1>6, <2>2, <2>3, CheckStruct DEF Forget, hist
<1>7. CASE Undo(c)
  <2>1. chk[c].pc = "undo" /\ Leaves(c)
    BY <1>0, <1>7, LeaveState DEF Undo
  <2>2. Others(c) /\ CheckPlaced(c)'
    BY <1>0, <2>1 DEF CheckPlaced, Holding, Leaves
  <2>3. online' \in [Users -> Maps \cup {None}] /\ ips' \in [Maps -> SUBSET IPs]
    BY <1>0, <1>7 DEF Undo
  <2> QED
    BY <1>0, <1>7, <2>2, <2>3, CheckStruct DEF Undo, hist
<1>8. CASE Admit(c)
  <2>1. /\ chk[c].pc = "bucket" /\ Leaves(c) /\ chk[c].u \in Users
        /\ chk[c].rec \in Infos
    BY <1>0, <1>8, LeaveState DEF Admit, CheckPlaced, Holding
  <2>2. Others(c) /\ CheckPlaced(c)'
    BY <1>0, <2>1 DEF CheckPlaced, Holding, Leaves
  <2>3. chk[c].rec.speed \in Nat
    BY <2>1, LimiterAssumption
  <2>4. bucket' \in [Users -> Nat]
    BY <1>0, <1>8, <2>3 DEF Admit
  <2> DEFINE s == IF chk[c].tcp
                  THEN [seen EXCEPT ![chk[c].u] = @ \cup {chk[c].ip}] ELSE seen
  <2>5. s \in [Users -> SUBSET IPs]
    <3>1. CASE chk[c].tcp = TRUE
      <4>1. chk[c].ip \in IPs
        BY <1>0, <3>1 DEF CheckPlaced
      <4> QED
        BY <1>0, <3>1, <4>1
    <3>2. CASE chk[c].tcp # TRUE
      BY <1>0, <3>2 DEF CheckState
    <3> QED
      BY <3>1, <3>2
  <2>6. Remember(s, last)
    BY <1>8 DEF Admit
  <2> HIDE DEF s
  <2>7. seen' \in [Users -> SUBSET IPs] /\ last' \in SUBSET IPs
    BY <1>0, <2>5, <2>6, HistoryTyped
  <2> QED
    BY <1>0, <1>8, <2>2, <2>4, <2>7, CheckStruct DEF Admit
<1> QED
  BY <1>1, <1>2, <1>3, <1>4, <1>5, <1>6, <1>7, <1>8 DEF CheckStep

(* ... by the report and the monitor.                                      *)
RepStates ==
  [pc : {"idle", "range", "user"}, todo : SUBSET Users, u : Users \cup {None},
   m : Maps \cup {None}, must : SUBSET IPs, done : SUBSET IPs]

LEMMA StructReport ==
  ASSUME Struct, ReportStep
  PROVE  Struct'
<1>0. /\ TypeOK /\ RepPlaced /\ rep \in RepStates
      /\ UNCHANGED <<info, ips, alive, bucket, chk, upd>>
  BY DEF Struct, ReportStep, RepBegin, RepUser, RepAddress, RepDelete, RepEnd,
         state, TypeOK, RepStates
<1>1. ASSUME NEW s \in RepStates, rep' = s,
             s.pc = "user" => s.u \in Users, s.m # None <=> s.pc = "user",
             online' \in [Users -> Maps \cup {None}],
             old' \in [IPs -> Users \cup {None}],
             fresh' \in [Users \X IPs -> Int], seen' \in [Users -> SUBSET IPs],
             last' \in SUBSET IPs, overlap' \in BOOLEAN
      PROVE  Struct'
  <2>1. TypeOK'
    BY <1>0, <1>1 DEF TypeOK, RepStates
  <2>2. \A c \in Checks : CheckPlaced(c)'
    BY <1>0 DEF Struct, CheckPlaced
  <2> QED
    BY <1>0, <1>1, <2>1, <2>2 DEF Struct, RepPlaced, UpdPlaced
<1>2. /\ online \in [Users -> Maps \cup {None}] /\ ips \in [Maps -> SUBSET IPs]
      /\ old \in [IPs -> Users \cup {None}] /\ fresh \in [Users \X IPs -> Int]
      /\ seen \in [Users -> SUBSET IPs]
      /\ last \in SUBSET IPs /\ overlap \in BOOLEAN
  BY <1>0 DEF TypeOK
<1>3. CASE RepBegin
  <2>1. /\ rep'.pc = "range" /\ rep'.m = None /\ rep' \in RepStates
        /\ old' \in [IPs -> Users \cup {None}] /\ UNCHANGED <<online, fresh>>
    BY <1>3 DEF RepBegin, NoRep, RepStates
  <2>2. /\ seen' \in [Users -> SUBSET IPs] /\ last' \in SUBSET IPs
        /\ overlap' \in BOOLEAN
    BY <1>0, <1>2, <1>3, HistoryTyped DEF RepBegin
  <2> QED
    BY <1>1, <1>2, <2>1, <2>2
<1>4. ASSUME NEW u \in Users, RepUser(u)
      PROVE  Struct'
  <2>1. rep' \in RepStates /\ (rep'.m # None <=> rep'.pc = "user")
        /\ (rep'.pc = "user" => rep'.u \in Users)
    <3>1. CASE online[u] = None
      <4>1. rep' = [rep EXCEPT !.todo = @ \ {u}] /\ rep.pc = "range"
        BY <1>4, <3>1 DEF RepUser
      <4> QED
        BY <1>0, <4>1 DEF RepStates, RepPlaced
    <3>2. CASE online[u] # None
      <4>1. online[u] \in Maps /\ ips[online[u]] \in SUBSET IPs
        BY <1>2, <3>2
      <4>2. rep' = [pc |-> "user", todo |-> rep.todo \ {u}, u |-> u,
                    m |-> online[u], must |-> ips[online[u]], done |-> {}]
        BY <1>4, <3>2 DEF RepUser
      <4> QED
        BY <1>0, <3>2, <4>1, <4>2 DEF RepStates
    <3> QED
      BY <3>1, <3>2
  <2> QED
    BY <1>1, <1>2, <1>4, <2>1 DEF RepUser, state, hist
<1>5. ASSUME NEW ip \in IPs, RepAddress(ip)
      PROVE  Struct'
  <2>1. /\ rep' = [rep EXCEPT !.done = @ \cup {ip}] /\ rep.pc = "user"
        /\ UNCHANGED <<online, overlap>>
    BY <1>5 DEF RepAddress
  <2>2. /\ rep' \in RepStates /\ rep'.m # None /\ rep'.pc = "user"
        /\ rep'.u \in Users /\ rep.u \in Users
    BY <1>0, <2>1 DEF RepStates, RepPlaced
  <2>3. old' \in [IPs -> Users \cup {None}] /\ fresh' \in [Users \X IPs -> Int]
    BY <1>2, <1>5, <2>2 DEF RepAddress
  <2>4. /\ Remember(seen, last \cup {ip}) /\ last \cup {ip} \in SUBSET IPs
    BY <1>2, <1>5 DEF RepAddress
  <2>5. seen' \in [Users -> SUBSET IPs] /\ last' \in SUBSET IPs
    BY <1>0, <1>2, <2>4, HistoryTyped
  <2> QED
    BY <1>1, <1>2, <2>1, <2>2, <2>3, <2>5
<1>6. CASE RepDelete
  <2>1. /\ rep' = [rep EXCEPT !.pc = "range", !.u = None, !.m = None, !.must = {},
                             !.done = {}]
        /\ UNCHANGED <<old, fresh, overlap>>
    BY <1>6 DEF RepDelete
  <2>2. rep' \in RepStates /\ rep'.m = None /\ rep'.pc = "range"
    BY <1>0, <2>1 DEF RepStates
  <2>3. online' \in [Users -> Maps \cup {None}]
    BY <1>2, <1>6 DEF RepDelete
  <2>4. /\ Remember([seen EXCEPT ![rep.u] = {}], last)
        /\ [seen EXCEPT ![rep.u] = {}] \in [Users -> SUBSET IPs]
    BY <1>2, <1>6 DEF RepDelete
  <2>5. seen' \in [Users -> SUBSET IPs] /\ last' \in SUBSET IPs
    BY <1>0, <1>2, <2>4, HistoryTyped
  <2> QED
    BY <1>1, <1>2, <2>1, <2>2, <2>3, <2>5
<1>7. CASE RepEnd
  <2>1. rep' \in RepStates /\ rep'.m = None /\ rep'.pc = "idle"
    BY <1>7 DEF RepEnd, NoRep, RepStates
  <2> QED
    BY <1>1, <1>2, <1>7, <2>1 DEF RepEnd, state, hist
<1> QED
  BY <1>3, <1>4, <1>5, <1>6, <1>7 DEF ReportStep

UpdStates ==
  [pc : {"idle", "online", "bucket", "alive", "store"},
   u : Users \cup {None}, new : Infos \cup {None}, n : 0..MaxUpdates]

LEMMA StructUpdate ==
  ASSUME Struct, MonitorStep
  PROVE  Struct'
<1>0. /\ TypeOK /\ UpdPlaced /\ upd \in UpdStates
      /\ UNCHANGED <<ips, old, chk, rep, fresh>>
  BY DEF Struct, MonitorStep, Poll, DeleteInfo, DeleteOnline, DeleteBucket,
         DeleteAlive, StoreInfo, TypeOK, UpdStates, hist
<1>1. ASSUME upd' \in UpdStates, upd'.pc # "idle" => upd'.u \in Users,
             info' \in [Users -> Infos \cup {None}],
             online' \in [Users -> Maps \cup {None}],
             alive' \in [Users -> 0..MaxAlive],
             bucket' \in [Users -> Nat], seen' \in [Users -> SUBSET IPs],
             last' \in SUBSET IPs, overlap' \in BOOLEAN
      PROVE  Struct'
  <2>1. TypeOK'
    BY <1>0, <1>1 DEF TypeOK, UpdStates
  <2>2. \A c \in Checks : CheckPlaced(c)'
    BY <1>0 DEF Struct, CheckPlaced
  <2> QED
    BY <1>0, <1>1, <2>1, <2>2 DEF Struct, RepPlaced, UpdPlaced
<1>2. /\ info \in [Users -> Infos \cup {None}] /\ alive \in [Users -> 0..MaxAlive]
      /\ online \in [Users -> Maps \cup {None}] /\ bucket \in [Users -> Nat]
      /\ seen \in [Users -> SUBSET IPs] /\ last \in SUBSET IPs
      /\ overlap \in BOOLEAN
  BY <1>0 DEF TypeOK
<1>3. CASE \E a \in [Users -> 0..MaxAlive] : Poll(a)
  BY <1>0, <1>1, <1>2, <1>3 DEF Poll, UpdPlaced, hist
<1>4. ASSUME NEW u \in Users, NEW new \in NewInfos, DeleteInfo(u, new)
      PROVE  Struct'
  <2>1. upd.n \in 0..MaxUpdates /\ upd.n + 1 \in 0..MaxUpdates
    BY <1>0, <1>4, LimiterAssumption DEF DeleteInfo, UpdStates
  <2>2. upd' \in UpdStates /\ upd'.u = u
    BY <1>4, <2>1, LimiterAssumption DEF DeleteInfo, UpdStates
  <2>3. info' \in [Users -> Infos \cup {None}]
    BY <1>2, <1>4 DEF DeleteInfo
  <2>4. /\ seen' \in [Users -> SUBSET IPs] /\ last' \in SUBSET IPs
        /\ overlap' \in BOOLEAN
    BY <1>0, <1>2, <1>4, HistoryTyped DEF DeleteInfo
  <2> QED
    BY <1>1, <1>2, <1>4, <2>2, <2>3, <2>4 DEF DeleteInfo
<1>5. CASE DeleteOnline
  <2>1. upd' \in UpdStates /\ upd'.u = upd.u /\ upd.pc # "idle"
    BY <1>0, <1>5 DEF DeleteOnline, UpdStates
  <2>2. online' \in [Users -> Maps \cup {None}]
    BY <1>2, <1>5 DEF DeleteOnline
  <2>3. /\ Remember([seen EXCEPT ![upd.u] = {}], last)
        /\ [seen EXCEPT ![upd.u] = {}] \in [Users -> SUBSET IPs]
    BY <1>2, <1>5 DEF DeleteOnline
  <2>4. seen' \in [Users -> SUBSET IPs] /\ last' \in SUBSET IPs
    BY <1>0, <1>2, <2>3, HistoryTyped
  <2> QED
    BY <1>0, <1>1, <1>2, <1>5, <2>1, <2>2, <2>4 DEF DeleteOnline, UpdPlaced
<1>6. CASE DeleteBucket \/ DeleteAlive \/ StoreInfo
  <2>1. upd' \in UpdStates /\ (upd'.pc # "idle" => upd'.u = upd.u /\ upd.pc # "idle")
    BY <1>0, <1>6 DEF DeleteBucket, DeleteAlive, StoreInfo, UpdStates
  <2>2. /\ info' \in [Users -> Infos \cup {None}] /\ bucket' \in [Users -> Nat]
        /\ alive' \in [Users -> 0..MaxAlive]
    BY <1>0, <1>2, <1>6, LimiterAssumption
       DEF DeleteBucket, DeleteAlive, StoreInfo, UpdStates
  <2> QED
    BY <1>0, <1>1, <1>2, <1>6, <2>1, <2>2
       DEF DeleteBucket, DeleteAlive, StoreInfo, UpdPlaced, hist
<1> QED
  BY <1>3, <1>4, <1>5, <1>6 DEF MonitorStep

LEMMA StructStep ==
  ASSUME Struct, [Next]_vars
  PROVE  Struct'
<1>1. CASE UNCHANGED vars
  BY <1>1
     DEF vars, state, hist, Struct, TypeOK, CheckPlaced, RepPlaced, UpdPlaced
<1> QED
  BY <1>1, StructCheck, StructReport, StructUpdate DEF Next

(* Every map, goroutine and bucket of the limiter holds a value of its     *)
(* kind, for any users and addresses and any number of connections: no     *)
(* check uses a record or a map of addresses it did not find               *)
(* (limiter/limiter.go).                                                   *)
THEOREM TypeCorrect == Spec => []TypeOK
<1>1. Struct => TypeOK
  BY DEF Struct
<1> QED
  BY <1>1, StructInit, StructStep, PTL DEF Spec

-----------------------------------------------------------------------------
(* A map stays its user's: a holder lets it go, or hands it to another one *)
(* of the same user; a new map has no holder.                              *)
LEMMA OwnedAside ==
  ASSUME Owned, \A m \in Maps, u \in Users : Holds(u, m)' => Holds(u, m)
  PROVE  Owned'
BY DEF Owned

LEMMA OwnedByCheck ==
  ASSUME Owned, NEW c \in Checks, Others(c), rep' = rep,
         \A u \in Users : online'[u] \in {online[u], None},
         \/ chk'[c].m = None
         \/ chk'[c].u = chk[c].u /\ chk'[c].m \in {chk[c].m, online[chk[c].u]}
  PROVE  Owned'
<1>1. ASSUME NEW m \in Maps, NEW u \in Users, Holds(u, m)'
      PROVE  Holds(u, m)
  <2>0. m # None
    BY LimiterAssumption
  <2>1. CASE online'[u] = m
    BY <2>0, <2>1 DEF Holds
  <2>2. ASSUME NEW d \in Checks, chk'[d].m = m, chk'[d].u = u
        PROVE  Holds(u, m)
    BY <2>0, <2>2 DEF Holds, Others
  <2>3. CASE rep'.m = m /\ rep'.u = u
    BY <2>3 DEF Holds
  <2> QED
    BY <1>1, <2>1, <2>2, <2>3 DEF Holds
<1> QED
  BY <1>1, OwnedAside

LEMMA OwnedCheck ==
  ASSUME Struct, Owned, NEW c \in Checks, CheckStep(c)
  PROVE  Owned'
<1>0. /\ TypeOK /\ CheckPlaced(c) /\ rep' = rep
  BY DEF Struct, CheckStep, Begin, LoadInfo, Online, Join, Known, Forget,
         Undo, Admit
<1>1. ASSUME NEW u \in Users, NEW ip \in IPs,
             \E tcp \in BOOLEAN : Begin(c, u, ip, tcp)
      PROVE  Owned'
  <2>1. Begins(c, u, ip)
    BY <1>0, <1>1, BeginState
  <2> QED
    BY <1>0, <2>1, OwnedByCheck DEF Begins, state
<1>2. CASE Online(c)
  <2>0. chk[c].u \in Users
    BY <1>0, <1>2 DEF Online, CheckPlaced
  <2>1. CASE online[chk[c].u] # None
    BY <1>0, <1>2, <2>0, <2>1, OnlineState, OwnedByCheck DEF Keeps
  <2>2. CASE online[chk[c].u] = None
    <3>1. PICK m \in Maps :
            /\ ~InUse(m) /\ Keeps(c)
            /\ online' = [online EXCEPT ![chk[c].u] = m]
            /\ chk'[c].m = m
      BY <1>0, <1>2, <2>0, <2>2, OnlineState
    <3>2. \A d \in Checks \ {c} : chk'[d] = chk[d]
      BY <3>1 DEF Keeps, Others
    <3>3. ASSUME NEW n \in Maps, NEW u \in Users, Holds(u, n)'
          PROVE  IF n = m THEN u = chk[c].u ELSE Holds(u, n)
      <4>1. online \in [Users -> Maps \cup {None}]
        BY <1>0 DEF TypeOK
      <4>2. CASE online'[u] = n
        BY <2>0, <3>1, <4>1, <4>2 DEF Holds, InUse
      <4>3. ASSUME NEW d \in Checks, chk'[d].m = n, chk'[d].u = u
            PROVE  IF n = m THEN u = chk[c].u ELSE Holds(u, n)
        BY <3>1, <3>2, <4>3 DEF Holds, InUse, Keeps
      <4>4. CASE rep'.m = n /\ rep'.u = u
        BY <1>0, <3>1, <4>4 DEF Holds, InUse
      <4> QED
        BY <3>3, <4>2, <4>3, <4>4 DEF Holds
    <3> QED
      BY <3>3 DEF Owned
  <2> QED
    BY <2>1, <2>2
<1>3. CASE LoadInfo(c)
  <2>1. chk[c].u \in Users /\ UNCHANGED online
    BY <1>0, <1>3 DEF LoadInfo, CheckPlaced, state
  <2>2. Leaves(c) \/ Loads(c)
    BY <1>0, <1>3, <2>1, LoadState
  <2> QED
    BY <1>0, <2>1, <2>2, OwnedByCheck DEF Leaves, Loads, Keeps
<1>4. CASE Join(c) \/ Known(c) \/ Forget(c) \/ Undo(c) \/ Admit(c)
  <2>1. \/ Passes(c) \/ GoesTo(c, "known") \/ GoesTo(c, "forget")
        \/ GoesTo(c, "undo") \/ Leaves(c)
    BY <1>0, <1>4, PassState, GotoState, LeaveState
       DEF Join, Known, Forget, Undo, Admit, Pcs
  <2>2. \A u \in Users : online'[u] \in {online[u], None}
    BY <1>0, <1>4 DEF Join, Known, Forget, Undo, Admit, TypeOK, state
  <2> QED
    BY <1>0, <2>1, <2>2, OwnedByCheck DEF Passes, GoesTo, Leaves, Keeps
<1> QED
  BY <1>1, <1>2, <1>3, <1>4 DEF CheckStep

LEMMA OwnedStep ==
  ASSUME Struct, Owned, [Next]_vars
  PROVE  Owned'
<1>0. TypeOK
  BY DEF Struct
<1>1. CASE ReportStep
  <2>1. chk' = chk /\ \A u \in Users : online'[u] \in {online[u], None}
    BY <1>0, <1>1
       DEF ReportStep, RepBegin, RepUser, RepAddress, RepDelete, RepEnd,
           TypeOK, state
  <2>2. ASSUME NEW m \in Maps, NEW u \in Users, rep'.m = m, rep'.u = u
        PROVE  Holds(u, m)
    <3>1. m # None
      BY LimiterAssumption
    <3>2. CASE \E v \in Users : RepUser(v)
      <4>1. PICK v \in Users : RepUser(v)
        BY <3>2
      <4>2. CASE online[v] = None
        <5>1. rep' = [rep EXCEPT !.todo = @ \ {v}]
          BY <4>1, <4>2 DEF RepUser
        <5> QED
          BY <1>0, <2>2, <5>1 DEF Holds, TypeOK
      <4>3. CASE online[v] # None
        BY <2>2, <4>1, <4>3 DEF RepUser, Holds
      <4> QED
        BY <4>2, <4>3
    <3>3. CASE RepBegin \/ RepEnd \/ RepDelete
      <4>1. rep'.m = None
        <5>1. CASE RepBegin
          BY <5>1 DEF RepBegin, NoRep
        <5>2. CASE RepEnd
          BY <5>2 DEF RepEnd, NoRep
        <5>3. CASE RepDelete
          BY <1>0, <5>3 DEF RepDelete, TypeOK
        <5> QED
          BY <3>3, <5>1, <5>2, <5>3
      <4> QED
        BY <2>2, <3>1, <4>1
    <3>4. CASE \E ip \in IPs : RepAddress(ip)
      <4>1. rep'.m = rep.m /\ rep'.u = rep.u
        BY <1>0, <3>4 DEF RepAddress, TypeOK
      <4> QED
        BY <2>2, <4>1 DEF Holds
    <3> QED
      BY <1>1, <3>2, <3>3, <3>4 DEF ReportStep
  <2>3. \A m \in Maps : m # None
    BY LimiterAssumption
  <2> QED
    BY <2>1, <2>2, <2>3, OwnedAside DEF Holds
<1>2. CASE MonitorStep \/ UNCHANGED vars
  <2>1. /\ UNCHANGED <<chk, rep>>
        /\ \A u \in Users : online'[u] \in {online[u], None}
    BY <1>0, <1>2
       DEF MonitorStep, Poll, DeleteInfo, DeleteOnline, DeleteBucket,
           DeleteAlive, StoreInfo, TypeOK, vars, state
  <2>2. \A m \in Maps : m # None
    BY LimiterAssumption
  <2> QED
    BY <2>1, <2>2, OwnedAside DEF Holds
<1> QED
  BY <1>1, <1>2, OwnedCheck DEF Next

-----------------------------------------------------------------------------
(* Counting.                                                               *)
LEMMA CountLess ==
  ASSUME NEW S, IsFiniteSet(S), NEW T, T \subseteq S
  PROVE  /\ Cardinality(T) \in Nat /\ Cardinality(S) \in Nat
         /\ Cardinality(T) <= Cardinality(S)
<1>1. IsFiniteSet(T) /\ Cardinality(T) <= Cardinality(S)
  BY FS_Subset
<1> QED
  BY <1>1, FS_CardinalityType

LEMMA CountOneMore ==
  ASSUME NEW S, IsFiniteSet(S), NEW x, NEW T, T \subseteq S \cup {x}
  PROVE  /\ Cardinality(T) \in Nat /\ Cardinality(S) \in Nat
         /\ Cardinality(T) <= Cardinality(S) + 1
<1>1. /\ IsFiniteSet(S \cup {x}) /\ Cardinality(S) \in Nat
      /\ Cardinality(S \cup {x}) <= Cardinality(S) + 1
  <2>1. /\ IsFiniteSet(S \cup {x}) /\ Cardinality(S) \in Nat
        /\ \/ Cardinality(S \cup {x}) = Cardinality(S)
           \/ Cardinality(S \cup {x}) = Cardinality(S) + 1
    BY FS_AddElement, FS_CardinalityType
  <2> QED
    BY <2>1
<1>2. /\ Cardinality(T) \in Nat /\ Cardinality(S \cup {x}) \in Nat
      /\ Cardinality(T) <= Cardinality(S \cup {x})
  BY <1>1, CountLess
<1> QED
  BY <1>1, <1>2

LEMMA CountOneLess ==
  ASSUME NEW S, IsFiniteSet(S), NEW x \in S, NEW T, T \subseteq S \ {x}
  PROVE  /\ Cardinality(T) \in Nat /\ Cardinality(S) \in Nat
         /\ Cardinality(T) <= Cardinality(S) - 1
<1>1. /\ IsFiniteSet(S \ {x}) /\ Cardinality(S) \in Nat
      /\ Cardinality(S \ {x}) = Cardinality(S) - 1
  BY FS_RemoveElement, FS_CardinalityType
<1>2. /\ Cardinality(T) \in Nat /\ Cardinality(S \ {x}) \in Nat
      /\ Cardinality(T) <= Cardinality(S \ {x})
  BY <1>1, CountLess
<1> QED
  BY <1>1, <1>2

LEMMA OwedFinite ==
  ASSUME NEW u \in Users, NEW ip \in IPs
  PROVE  IsFiniteSet(Coming(u, ip)) /\ IsFiniteSet(Stored(u, ip))
<1>1. Coming(u, ip) \subseteq Checks /\ IsFiniteSet(Checks)
  BY LimiterAssumption DEF Coming
<1>2. Stored(u, ip) \subseteq {online[u]} \cup {rep.m}
  BY DEF Stored
<1>3. IsFiniteSet({online[u]} \cup {rep.m})
  BY FS_Singleton, FS_AddElement
<1> QED
  BY <1>1, <1>2, <1>3, FS_Subset

Owes(u, ip) ==
  Cardinality(Coming(u, ip)) + Cardinality(Stored(u, ip)) <= fresh[<<u, ip>>]

(* What a step may do to what is owed of a device.                         *)
LEMMA OwesNoMore ==
  ASSUME NEW u \in Users, NEW ip \in IPs, Owes(u, ip), fresh[<<u, ip>>] \in Int,
         Coming(u, ip)' \subseteq Coming(u, ip),
         Stored(u, ip)' \subseteq Stored(u, ip),
         fresh'[<<u, ip>>] = fresh[<<u, ip>>]
  PROVE  Owes(u, ip)'
BY OwedFinite, CountLess DEF Owes

LEMMA OwesBegun ==
  ASSUME NEW u \in Users, NEW ip \in IPs, Owes(u, ip), fresh[<<u, ip>>] \in Int,
         NEW c, Coming(u, ip)' \subseteq Coming(u, ip) \cup {c},
         Stored(u, ip)' \subseteq Stored(u, ip),
         fresh'[<<u, ip>>] = fresh[<<u, ip>>] + 1
  PROVE  Owes(u, ip)'
<1>1. IsFiniteSet(Coming(u, ip)) /\ IsFiniteSet(Stored(u, ip))
  BY OwedFinite
<1>2. /\ Cardinality(Coming(u, ip))' \in Nat /\ Cardinality(Coming(u, ip)) \in Nat
      /\ Cardinality(Coming(u, ip))' <= Cardinality(Coming(u, ip)) + 1
  BY <1>1, CountOneMore
<1>3. /\ Cardinality(Stored(u, ip))' \in Nat /\ Cardinality(Stored(u, ip)) \in Nat
      /\ Cardinality(Stored(u, ip))' <= Cardinality(Stored(u, ip))
  BY <1>1, CountLess
<1> QED
  BY <1>2, <1>3 DEF Owes

LEMMA OwesStored ==
  ASSUME NEW u \in Users, NEW ip \in IPs, Owes(u, ip), fresh[<<u, ip>>] \in Int,
         NEW c \in Coming(u, ip), Coming(u, ip)' \subseteq Coming(u, ip) \ {c},
         NEW m, Stored(u, ip)' \subseteq Stored(u, ip) \cup {m},
         fresh'[<<u, ip>>] = fresh[<<u, ip>>]
  PROVE  Owes(u, ip)'
<1>1. IsFiniteSet(Coming(u, ip)) /\ IsFiniteSet(Stored(u, ip))
  BY OwedFinite
<1>2. /\ Cardinality(Coming(u, ip))' \in Nat /\ Cardinality(Coming(u, ip)) \in Nat
      /\ Cardinality(Coming(u, ip))' <= Cardinality(Coming(u, ip)) - 1
  BY <1>1, CountOneLess
<1>3. /\ Cardinality(Stored(u, ip))' \in Nat /\ Cardinality(Stored(u, ip)) \in Nat
      /\ Cardinality(Stored(u, ip))' <= Cardinality(Stored(u, ip)) + 1
  BY <1>1, CountOneMore
<1> QED
  BY <1>2, <1>3 DEF Owes

LEMMA OwesListed ==
  ASSUME NEW u \in Users, NEW ip \in IPs, Owes(u, ip), fresh[<<u, ip>>] \in Int,
         Coming(u, ip)' \subseteq Coming(u, ip),
         NEW m \in Stored(u, ip), Stored(u, ip)' \subseteq Stored(u, ip) \ {m},
         fresh'[<<u, ip>>] = fresh[<<u, ip>>] - 1
  PROVE  Owes(u, ip)'
BY OwedFinite, CountOneLess, CountLess DEF Owes

-----------------------------------------------------------------------------
LEMMA OwedCheck ==
  ASSUME Struct, Owned, NEW c \in Checks, CheckStep(c), NEW u \in Users,
         NEW ip \in IPs, Owes(u, ip)
  PROVE  Owes(u, ip)'
<1>0. /\ TypeOK /\ CheckPlaced(c) /\ rep' = rep
      /\ online \in [Users -> Maps \cup {None}] /\ ips \in [Maps -> SUBSET IPs]
      /\ fresh \in [Users \X IPs -> Int] /\ fresh[<<u, ip>>] \in Int
      /\ chk[c].tcp \in BOOLEAN
  BY DEF Struct, CheckStep, Begin, LoadInfo, Online, Join, Known, Forget,
         Undo, Admit, TypeOK, CheckState
<1>1. ASSUME NEW v \in Users, NEW jp \in IPs,
             \E tcp \in BOOLEAN : Begin(c, v, jp, tcp)
      PROVE  Owes(u, ip)'
  <2>1. Begins(c, v, jp)
    BY <1>0, <1>1, BeginState
  <2>2. Stored(u, ip)' \subseteq Stored(u, ip)
    BY <1>0, <2>1 DEF Begins, Stored, state
  <2>3. CASE chk'[c].tcp = TRUE /\ u = v /\ ip = jp
    <3>1. fresh'[<<u, ip>>] = fresh[<<u, ip>>] + 1
      BY <1>0, <2>1, <2>3 DEF Begins, More
    <3>2. Coming(u, ip)' \subseteq Coming(u, ip) \cup {c}
      BY <2>1 DEF Begins, Others, Coming
    <3> QED
      BY <1>0, <2>2, <3>1, <3>2, OwesBegun
  <2>4. CASE ~(chk'[c].tcp = TRUE /\ u = v /\ ip = jp)
    <3>1. fresh'[<<u, ip>>] = fresh[<<u, ip>>]
      <4>1. More(v, jp)[<<u, ip>>] = fresh[<<u, ip>>] \/ (u = v /\ ip = jp)
        BY <1>0 DEF More
      <4>2. chk'[c].tcp = TRUE \/ chk'[c].tcp # TRUE
        OBVIOUS
      <4> QED
        BY <2>1, <2>4, <4>1, <4>2 DEF Begins
    <3>2. Coming(u, ip)' \subseteq Coming(u, ip)
      BY <2>1, <2>4 DEF Begins, Others, Coming
    <3> QED
      BY <1>0, <2>2, <3>1, <3>2, OwesNoMore
  <2> QED
    BY <2>3, <2>4
<1>2. CASE Online(c)
  <2>0. chk[c].u \in Users /\ chk[c].pc = "online" /\ chk[c].tcp = TRUE /\ fresh' = fresh
    BY <1>0, <1>2 DEF Online, CheckPlaced, hist
  <2>1. CASE online[chk[c].u] # None
    <3>1. Keeps(c) /\ chk'[c].pc = "join" /\ UNCHANGED <<online, ips>>
      BY <1>0, <1>2, <2>0, <2>1, OnlineState
    <3>2. /\ Coming(u, ip)' \subseteq Coming(u, ip)
          /\ Stored(u, ip)' \subseteq Stored(u, ip)
      BY <1>0, <2>0, <3>1 DEF Coming, Stored, Keeps, Others
    <3> QED
      BY <1>0, <2>0, <3>2, OwesNoMore
  <2>2. CASE online[chk[c].u] = None
    <3>1. PICK m \in Maps :
            /\ ~InUse(m) /\ Keeps(c)
            /\ online' = [online EXCEPT ![chk[c].u] = m]
            /\ ips' = [ips EXCEPT ![m] = {chk[c].ip}]
            /\ chk'[c].pc = "known"
      BY <1>0, <1>2, <2>0, <2>2, OnlineState
    <3>2. Coming(u, ip)' \subseteq Coming(u, ip) \ {c}
      BY <3>1 DEF Coming, Keeps, Others
    <3>3. Stored(u, ip)' \subseteq Stored(u, ip) \cup {m}
      BY <1>0, <3>1 DEF Stored
    <3>4. CASE u = chk[c].u /\ ip = chk[c].ip
      <4>1. c \in Coming(u, ip)
        BY <2>0, <3>4 DEF Coming
      <4> QED
        BY <1>0, <2>0, <3>2, <3>3, <4>1, OwesStored
    <3>5. CASE ~(u = chk[c].u /\ ip = chk[c].ip)
      <4>1. Stored(u, ip)' \subseteq Stored(u, ip)
        BY <1>0, <2>0, <3>1, <3>5 DEF Stored, InUse
      <4> QED
        BY <1>0, <2>0, <3>2, <4>1, OwesNoMore
    <3> QED
      BY <3>4, <3>5
  <2> QED
    BY <2>1, <2>2
<1>3. CASE Join(c)
  <2>1. /\ chk[c].pc = "join" /\ chk[c].m \in Maps /\ chk[c].ip \in IPs
        /\ chk[c].u \in Users /\ chk[c].tcp = TRUE
        /\ UNCHANGED <<online, fresh>>
        /\ ips' = [ips EXCEPT ![chk[c].m] = @ \cup {chk[c].ip}]
    BY <1>0, <1>3
       DEF Join, CheckPlaced, Holding, hist, Struct, TypeOK, CheckState
  <2>2. Passes(c) \/ GoesTo(c, "known")
    BY <1>0, <1>3, PassState, GotoState DEF Join, Pcs
  <2>3. Coming(u, ip)' \subseteq Coming(u, ip) \ {c}
    BY <2>2 DEF Coming, Passes, GoesTo, Keeps, Others
  <2>4. Stored(u, ip)' \subseteq Stored(u, ip) \cup {chk[c].m}
    BY <1>0, <2>1 DEF Stored
  <2>5. CASE u = chk[c].u /\ ip = chk[c].ip
    <3>1. c \in Coming(u, ip)
      BY <2>1, <2>5 DEF Coming
    <3> QED
      BY <1>0, <2>1, <2>3, <2>4, <3>1, OwesStored
  <2>6. CASE ~(u = chk[c].u /\ ip = chk[c].ip)
    <3>1. Holds(chk[c].u, chk[c].m)
      BY DEF Holds
    <3>2. ASSUME NEW m \in Stored(u, ip)'
          PROVE  m \in Stored(u, ip)
      <4>1. m \in Maps /\ Holds(u, m)
        BY <1>0, <2>1, <3>2 DEF Stored, Holds
      <4>2. m = chk[c].m => u = chk[c].u
        BY <2>1, <3>1, <4>1 DEF Owned
      <4> QED
        BY <1>0, <2>1, <2>6, <3>2, <4>2 DEF Stored
    <3> QED
      BY <1>0, <2>1, <2>3, <3>2, OwesNoMore
  <2> QED
    BY <2>5, <2>6
<1>4. CASE LoadInfo(c)
  <2>1. /\ chk[c].pc = "info" /\ chk[c].u \in Users
        /\ UNCHANGED <<online, ips, fresh>>
    BY <1>0, <1>4 DEF LoadInfo, CheckPlaced, state, hist
  <2>2. Leaves(c) \/ Loads(c)
    BY <1>0, <1>4, <2>1, LoadState
  <2>3. /\ Coming(u, ip)' \subseteq Coming(u, ip)
        /\ Stored(u, ip)' \subseteq Stored(u, ip)
    BY <1>0, <2>1, <2>2 DEF Coming, Stored, Leaves, Loads, Keeps, Others
  <2> QED
    BY <1>0, <2>1, <2>3, OwesNoMore
<1>5. CASE Known(c) \/ Forget(c) \/ Undo(c) \/ Admit(c)
  <2>1. \/ Passes(c) \/ GoesTo(c, "forget")
        \/ GoesTo(c, "undo") \/ Leaves(c)
    BY <1>0, <1>5, PassState, GotoState, LeaveState
       DEF Known, Forget, Undo, Admit, Pcs
  <2>2. Coming(u, ip)' \subseteq Coming(u, ip)
    BY <2>1 DEF Coming, Passes, GoesTo, Leaves, Keeps, Others
  <2>3. /\ fresh' = fresh
        /\ \A v \in Users : online'[v] \in {online[v], None}
        /\ \A m \in Maps : ips'[m] \subseteq ips[m]
    BY <1>0, <1>5 DEF Known, Forget, Undo, Admit, state, hist
  <2>4. Stored(u, ip)' \subseteq Stored(u, ip)
    BY <1>0, <2>3, LimiterAssumption DEF Stored
  <2> QED
    BY <1>0, <2>2, <2>3, <2>4, OwesNoMore
<1> QED
  BY <1>1, <1>2, <1>3, <1>4, <1>5 DEF CheckStep

LEMMA OwedReport ==
  ASSUME Struct, Owned, ReportStep, NEW u \in Users, NEW ip \in IPs, Owes(u, ip)
  PROVE  Owes(u, ip)'
<1>0. /\ TypeOK /\ RepPlaced /\ rep \in RepStates /\ UNCHANGED <<chk, ips>>
      /\ fresh \in [Users \X IPs -> Int] /\ fresh[<<u, ip>>] \in Int
      /\ online \in [Users -> Maps \cup {None}]
      /\ \A m \in Maps : m # None
  BY LimiterAssumption
     DEF Struct, ReportStep, RepBegin, RepUser, RepAddress, RepDelete, RepEnd,
         state, TypeOK, RepStates
<1>1. Coming(u, ip)' \subseteq Coming(u, ip)
  BY <1>0 DEF Coming
<1>2. CASE RepBegin \/ RepEnd
  <2>1. rep.m = None /\ UNCHANGED <<online, fresh>>
    BY <1>0, <1>2 DEF RepBegin, RepEnd, RepPlaced, state, hist
  <2>2. rep'.m = None
    <3>1. CASE RepBegin
      BY <3>1 DEF RepBegin, NoRep
    <3>2. CASE RepEnd
      BY <3>2 DEF RepEnd, NoRep
    <3> QED
      BY <1>2, <3>1, <3>2
  <2>3. Stored(u, ip)' \subseteq Stored(u, ip)
    BY <1>0, <2>1, <2>2 DEF Stored
  <2> QED
    BY <1>0, <1>1, <2>1, <2>3, OwesNoMore
<1>3. ASSUME NEW v \in Users, RepUser(v)
      PROVE  Owes(u, ip)'
  <2>1. rep.m = None /\ UNCHANGED <<online, fresh>>
    BY <1>0, <1>3 DEF RepUser, RepPlaced, state, hist
  <2>2. rep'.m = None \/ (rep'.m = online[v] /\ rep'.u = v)
    <3>1. CASE online[v] = None
      <4>1. rep' = [rep EXCEPT !.todo = @ \ {v}]
        BY <1>3, <3>1 DEF RepUser
      <4> QED
        BY <1>0, <2>1, <4>1 DEF RepStates
    <3>2. CASE online[v] # None
      BY <1>3, <3>2 DEF RepUser
    <3> QED
      BY <3>1, <3>2
  <2>3. Stored(u, ip)' \subseteq Stored(u, ip)
    BY <1>0, <2>1, <2>2 DEF Stored
  <2> QED
    BY <1>0, <1>1, <2>1, <2>3, OwesNoMore
<1>4. ASSUME NEW jp \in IPs, RepAddress(jp)
      PROVE  Owes(u, ip)'
  <2>1. /\ rep.pc = "user" /\ jp \in ips[rep.m] /\ jp \notin rep.done
        /\ rep' = [rep EXCEPT !.done = @ \cup {jp}]
        /\ fresh' = [fresh EXCEPT ![<<rep.u, jp>>] = @ - 1]
        /\ UNCHANGED online
    BY <1>4 DEF RepAddress
  <2>2. /\ rep'.m = rep.m /\ rep'.u = rep.u /\ rep'.done = rep.done \cup {jp}
        /\ rep.u \in Users /\ rep.m \in Maps
    BY <1>0, <2>1 DEF RepStates, RepPlaced
  <2>3. Stored(u, ip)' \subseteq Stored(u, ip)
    BY <1>0, <2>1, <2>2 DEF Stored
  <2>4. CASE u = rep.u /\ ip = jp
    <3>1. rep.m \in Stored(u, ip) /\ rep.m \notin Stored(u, ip)'
      BY <1>0, <2>1, <2>2, <2>4 DEF Stored
    <3>2. Stored(u, ip)' \subseteq Stored(u, ip) \ {rep.m}
      BY <2>3, <3>1
    <3>3. fresh'[<<u, ip>>] = fresh[<<u, ip>>] - 1
      BY <1>0, <2>1, <2>4
    <3> QED
      BY <1>0, <1>1, <3>1, <3>2, <3>3, OwesListed
  <2>5. CASE ~(u = rep.u /\ ip = jp)
    <3>1. fresh'[<<u, ip>>] = fresh[<<u, ip>>]
      BY <1>0, <2>1, <2>5
    <3> QED
      BY <1>0, <1>1, <2>3, <3>1, OwesNoMore
  <2> QED
    BY <2>4, <2>5
<1>5. CASE RepDelete
  <2>1. /\ rep.pc = "user" /\ UNCHANGED fresh
        /\ online' = [online EXCEPT ![rep.u] = None]
    BY <1>5 DEF RepDelete
  <2>2. rep'.m = None /\ rep.u \in Users
    BY <1>0, <1>5 DEF RepDelete, RepStates, RepPlaced
  <2>3. ASSUME NEW m \in Stored(u, ip)'
        PROVE  m \in Stored(u, ip)
    <3>1. m \in Maps /\ online[u] = m /\ u # rep.u /\ ip \in ips[m]
      BY <1>0, <2>1, <2>2, <2>3 DEF Stored
    <3>2. rep.m # m
      BY <2>2, <3>1 DEF Owned, Holds
    <3> QED
      BY <3>1, <3>2 DEF Stored
  <2> QED
    BY <1>0, <1>1, <2>1, <2>3, OwesNoMore
<1> QED
  BY <1>2, <1>3, <1>4, <1>5 DEF ReportStep

LEMMA OwedUpdate ==
  ASSUME Struct, MonitorStep \/ UNCHANGED vars, NEW u \in Users, NEW ip \in IPs,
         Owes(u, ip)
  PROVE  Owes(u, ip)'
<1>1. /\ TypeOK /\ UNCHANGED <<chk, ips, rep, fresh>>
      /\ \A v \in Users : online'[v] \in {online[v], None}
      /\ fresh[<<u, ip>>] \in Int /\ \A m \in Maps : m # None
  BY LimiterAssumption
     DEF Struct, MonitorStep, Poll, DeleteInfo, DeleteOnline, DeleteBucket,
         DeleteAlive, StoreInfo, TypeOK, vars, state, hist
<1>2. /\ Coming(u, ip)' \subseteq Coming(u, ip)
      /\ Stored(u, ip)' \subseteq Stored(u, ip)
  BY <1>1 DEF Coming, Stored
<1> QED
  BY <1>1, <1>2, OwesNoMore

LEMMA ReportInvariance == Spec => []RInv
<1>1. ASSUME Init
      PROVE  RInv
  <2>1. Struct
    BY <1>1, StructInit
  <2>2. /\ \A u \in Users : online[u] = None
        /\ \A c \in Checks : chk[c].pc = "idle" /\ chk[c].m = None
        /\ rep.m = None /\ \A m \in Maps : m # None
    BY <1>1, LimiterAssumption DEF Init, Free, NoRep
  <2>3. Owned
    BY <2>2 DEF Owned, Holds
  <2>4. ASSUME NEW u \in Users, NEW ip \in IPs
        PROVE  Owes(u, ip)
    <3>1. Coming(u, ip) = {} /\ Stored(u, ip) = {}
      BY <2>2 DEF Coming, Stored
    <3>2. fresh[<<u, ip>>] = 0
      BY <1>1 DEF Init
    <3> QED
      BY <3>1, <3>2, FS_EmptySet DEF Owes
  <2> QED
    BY <2>1, <2>3, <2>4 DEF RInv, Owed, Owes
<1>2. ASSUME RInv, [Next]_vars
      PROVE  RInv'
  <2>1. Struct' /\ Owned'
    BY <1>2, StructStep, OwnedStep DEF RInv
  <2>2. ASSUME NEW u \in Users, NEW ip \in IPs
        PROVE  Owes(u, ip)'
    <3>1. Owes(u, ip) /\ Struct /\ Owned
      BY <1>2 DEF RInv, Owed, Owes
    <3> QED
      BY <1>2, <3>1, OwedCheck, OwedReport, OwedUpdate DEF Next
  <2> QED
    BY <2>1, <2>2 DEF RInv, Owed, Owes
<1> QED
  BY <1>1, <1>2, PTL DEF Spec

(* A report never lists a device more often than connections from it were  *)
(* checked, however any number of checks, the report and the updates       *)
(* interleave, and whichever map of addresses each of them has in hand     *)
(* (CheckLimit, GetOnlineDevice and UpdateUser of limiter/limiter.go).     *)
THEOREM NeverOverreported == Spec => []ReportedOnce
<1>1. ASSUME RInv, NEW p \in Users \X IPs
      PROVE  fresh[p] >= 0
  <2>1. PICK u \in Users, ip \in IPs : p = <<u, ip>>
    OBVIOUS
  <2>2. Owes(u, ip) /\ fresh[<<u, ip>>] \in Int
    BY <1>1 DEF RInv, Owed, Owes, Struct, TypeOK
  <2>3. /\ Cardinality(Coming(u, ip)) \in Nat /\ Cardinality(Stored(u, ip)) \in Nat
    BY OwedFinite, FS_CardinalityType
  <2> QED
    BY <2>1, <2>2, <2>3 DEF Owes
<1>2. RInv => ReportedOnce
  BY <1>1 DEF ReportedOnce
<1> QED
  BY <1>2, ReportInvariance, PTL

-----------------------------------------------------------------------------
(* One operation at a time: a check by itself ...                          *)
Alone(c) ==
  /\ \A d \in Checks \ {c} : chk[d].pc = "idle"
  /\ rep.pc = "idle" /\ upd.pc = "idle"

AdmittedBy(c) ==
  \A u \in Users, ip \in IPs :
    ip \in Content(u) <=>
      ip \in seen[u] \/ (HasStored(c) /\ chk[c].u = u /\ chk[c].ip = ip)

LEMMA OrderlyAlone ==
  ASSUME NEW c \in Checks, Alone(c), Others(c), UNCHANGED <<rep, upd>>,
         AdmittedBy(c)', Informed(c)', Reported', Buckets'
  PROVE  Orderly'
<1>1. \A d \in Checks \ {c} : chk'[d].pc = "idle"
  BY DEF Alone, Others
<1>2. Sole'
  BY <1>1 DEF Alone, Sole
<1>3. Admitted'
  BY <1>1 DEF Admitted, AdmittedBy, HasStored
<1>4. \A d \in Checks : Informed(d)'
  BY <1>1 DEF Informed, Holding
<1> QED
  BY <1>2, <1>3, <1>4 DEF Orderly

(* ... which either begins, when all is quiet, or goes on.                 *)
LEMMA CheckAlone ==
  ASSUME Orderly, NEW c \in Checks, Quiet \/ chk[c].pc # "idle"
  PROVE  Alone(c) /\ AdmittedBy(c) /\ Informed(c) /\ Reported /\ Buckets
<1>1. Alone(c)
  BY DEF Orderly, Sole, Quiet, Alone
<1>2. AdmittedBy(c)
  BY <1>1 DEF Orderly, Admitted, AdmittedBy, Alone, HasStored
<1> QED
  BY <1>1, <1>2 DEF Orderly

LEMMA OpensQuiet ==
  ASSUME NEW s, NEW l, Opens(s, l), overlap' = FALSE
  PROVE  Quiet /\ overlap = FALSE /\ seen' = s /\ last' = l
BY DEF Opens, Remember

LEMMA OrderlyCheck ==
  ASSUME Struct, Owned, Sequential, NEW c \in Checks, CheckStep(c),
         overlap' = FALSE
  PROVE  Orderly'
<1>0. /\ TypeOK /\ CheckPlaced(c) /\ UNCHANGED <<rep, upd, info>>
      /\ online \in [Users -> Maps \cup {None}] /\ ips \in [Maps -> SUBSET IPs]
      /\ seen \in [Users -> SUBSET IPs]
      /\ chk[c].tcp \in BOOLEAN /\ chk[c].first \in BOOLEAN
      /\ chk[c].atLimit \in BOOLEAN
  BY DEF Struct, CheckStep, Begin, LoadInfo, Online, Join, Known, Forget,
         Undo, Admit, TypeOK, CheckState, state
<1>1. ASSUME NEW u \in Users, NEW ip \in IPs,
             \E tcp \in BOOLEAN : Begin(c, u, ip, tcp)
      PROVE  Orderly'
  <2>1. Begins(c, u, ip)
    BY <1>0, <1>1, BeginState
  <2>2. /\ Quiet /\ overlap = FALSE /\ seen' = seen /\ last' = last
    BY <2>1, OpensQuiet DEF Begins
  <2>3. Alone(c) /\ AdmittedBy(c) /\ Reported /\ Buckets
    BY <2>2, CheckAlone DEF Sequential
  <2>4. AdmittedBy(c)'
    BY <2>1, <2>2, <2>3 DEF Begins, AdmittedBy, HasStored, Content, state
  <2>5. Informed(c)'
    BY <2>1 DEF Begins, Informed, Holding
  <2>6. Reported' /\ Buckets'
    BY <2>1, <2>2, <2>3 DEF Begins, Reported, Buckets, state
  <2> QED
    BY <1>0, <2>1, <2>3, <2>4, <2>5, <2>6, OrderlyAlone DEF Begins
<1>2. ASSUME chk[c].pc # "idle", overlap' = overlap
      PROVE  /\ Alone(c) /\ AdmittedBy(c) /\ Informed(c) /\ Reported /\ Buckets
             /\ chk[c].u \in Users
  BY <1>0, <1>2, CheckAlone DEF Sequential, CheckPlaced
<1>3. CASE LoadInfo(c)
  <2>1. /\ Alone(c) /\ AdmittedBy(c) /\ Reported /\ Buckets
        /\ chk[c].u \in Users /\ chk[c].pc = "info"
        /\ UNCHANGED <<state, hist>>
    BY <1>2, <1>3 DEF LoadInfo, hist
  <2>2. Leaves(c) \/ Loads(c)
    BY <1>0, <1>3, <2>1, LoadState
  <2>3. AdmittedBy(c)'
    BY <2>1, <2>2
       DEF Leaves, Loads, Keeps, AdmittedBy, HasStored, Content, state, hist
  <2>4. Informed(c)'
    BY <1>0, <2>1, <2>2 DEF Leaves, Loads, Keeps, Informed, Holding
  <2>5. Reported' /\ Buckets'
    BY <1>0, <2>1 DEF Reported, Buckets, state, hist
  <2> QED
    BY <1>0, <2>1, <2>2, <2>3, <2>4, <2>5, OrderlyAlone
       DEF Leaves, Loads, Keeps
<1>4. CASE Online(c)
  <2>1. /\ Alone(c) /\ AdmittedBy(c) /\ Informed(c) /\ Reported /\ Buckets
        /\ chk[c].u \in Users /\ chk[c].pc = "online" /\ chk[c].ip \in IPs
        /\ chk[c].tcp = TRUE
        /\ UNCHANGED <<info, old, bucket, hist>>
    BY <1>0, <1>2, <1>4 DEF Online, hist, CheckPlaced
  <2>2. Reported' /\ Buckets'
    BY <1>0, <2>1 DEF Reported, Buckets, hist
  <2>3. chk[c].rec = info[chk[c].u]
    BY <2>1 DEF Informed
  <2>4. CASE online[chk[c].u] # None
    <3>1. /\ Keeps(c) /\ chk'[c].rec = chk[c].rec /\ UNCHANGED <<online, ips>>
          /\ chk'[c].pc = "join" /\ chk'[c].m = online[chk[c].u]
      BY <1>0, <1>4, <2>1, <2>4, OnlineState
    <3>2. AdmittedBy(c)'
      BY <2>1, <3>1 DEF AdmittedBy, HasStored, Content, hist
    <3>3. Informed(c)'
      BY <2>1, <2>3, <3>1 DEF Informed, Keeps
    <3> QED
      BY <1>0, <2>1, <2>2, <3>1, <3>2, <3>3, OrderlyAlone DEF Keeps
  <2>5. CASE online[chk[c].u] = None
    <3>1. PICK m \in Maps :
            /\ ~InUse(m) /\ Keeps(c) /\ chk'[c].rec = chk[c].rec
            /\ online' = [online EXCEPT ![chk[c].u] = m]
            /\ ips' = [ips EXCEPT ![m] = {chk[c].ip}]
            /\ chk'[c].pc = "known" /\ chk'[c].m = m
      BY <1>0, <1>4, <2>1, <2>5, OnlineState
    <3>2. seen[chk[c].u] = {}
      <4>1. \A ip \in IPs : ip \notin seen[chk[c].u]
        BY <2>1, <2>5 DEF AdmittedBy, Content
      <4> QED
        BY <1>0, <2>1, <4>1
    <3>3. m # None
      BY LimiterAssumption
    <3>4. ASSUME NEW u \in Users
          PROVE  Content(u)' = IF u = chk[c].u THEN {chk[c].ip} ELSE Content(u)
      <4>1. CASE u = chk[c].u
        BY <1>0, <2>1, <3>1, <3>3, <4>1 DEF Content
      <4>2. CASE u # chk[c].u
        BY <1>0, <2>1, <3>1, <4>2 DEF Content, InUse
      <4> QED
        BY <4>1, <4>2
    <3>5. HasStored(c)' /\ chk'[c].u = chk[c].u /\ chk'[c].ip = chk[c].ip
      BY <3>1 DEF HasStored, Keeps
    <3>6. ~HasStored(c)
      BY <2>1 DEF HasStored
    <3>7. AdmittedBy(c)'
      BY <2>1, <3>2, <3>4, <3>5, <3>6 DEF AdmittedBy, hist
    <3>8. Informed(c)'
      BY <1>0, <2>1, <2>3, <3>1, <3>2 DEF Informed, Keeps, hist
    <3> QED
      BY <1>0, <2>1, <2>2, <3>1, <3>7, <3>8, OrderlyAlone DEF Keeps
  <2> QED
    BY <2>4, <2>5
<1>5. CASE Join(c)
  <2> DEFINE u == chk[c].u
             ip == chk[c].ip
             m == chk[c].m
  <2>1. /\ Alone(c) /\ AdmittedBy(c) /\ Informed(c) /\ Reported /\ Buckets
        /\ u \in Users /\ chk[c].pc = "join" /\ ip \in IPs /\ m \in Maps
        /\ chk[c].tcp = TRUE /\ chk[c].first = FALSE /\ m = online[u] /\ m # None
        /\ chk[c].rec = info[u]
        /\ UNCHANGED <<info, online, old, bucket, hist>>
    BY <1>0, <1>2, <1>5
       DEF Join, hist, CheckPlaced, Holding, Informed, TypeOK, CheckState
  <2>2. Reported' /\ Buckets'
    BY <1>0, <2>1 DEF Reported, Buckets, hist
  <2>3. ips' = [ips EXCEPT ![m] = @ \cup {ip}]
    BY <1>5 DEF Join
  <2> HIDE DEF u, ip, m
  <2>4. ASSUME NEW v \in Users
        PROVE  Content(v)' = IF v = u THEN Content(v) \cup {ip} ELSE Content(v)
    <3>1. CASE v = u
      BY <1>0, <2>1, <2>3, <3>1 DEF Content
    <3>2. CASE v # u
      <4>1. online[v] # m
        BY <2>1, <3>2 DEF Owned, Holds
      <4> QED
        BY <1>0, <2>1, <2>3, <3>2, <4>1 DEF Content
    <3> QED
      BY <3>1, <3>2
  <2>5. ip \in Content(u) <=> ip \in seen[u]
    BY <2>1 DEF AdmittedBy, HasStored
  <2>6. ip \in Content(u) <=> ip \in ips[m]
    BY <2>1 DEF Content
  <2>7. /\ \/ Passes(c) /\ ip \in ips[m]
           \/ GoesTo(c, "known") /\ ip \notin ips[m]
    BY <1>0, <1>5, PassState, GotoState DEF Join, Pcs, ip, m
  <2>8. /\ Keeps(c) /\ HasStored(c)' /\ ~HasStored(c)
        /\ chk'[c].u = u /\ chk'[c].ip = ip
    BY <2>1, <2>7 DEF Passes, GoesTo, Keeps, HasStored, u, ip
  <2>9. AdmittedBy(c)'
    BY <2>1, <2>4, <2>8 DEF AdmittedBy, hist
  <2>10. Informed(c)'
    BY <1>0, <2>1, <2>5, <2>6, <2>7
       DEF Informed, Keeps, Passes, GoesTo, Holding, hist, u, ip, m
  <2> QED
    BY <1>0, <2>1, <2>2, <2>8, <2>9, <2>10, OrderlyAlone DEF Keeps
<1>6. CASE Known(c)
  <2>1. /\ Alone(c) /\ AdmittedBy(c) /\ Informed(c) /\ Reported /\ Buckets
        /\ chk[c].u \in Users /\ chk[c].pc = "known" /\ chk[c].ip \in IPs
        /\ chk[c].tcp = TRUE
        /\ UNCHANGED <<state, hist>>
    BY <1>0, <1>2, <1>6 DEF Known, hist, CheckPlaced, Holding
  <2>2. Reported' /\ Buckets'
    BY <1>0, <2>1 DEF Reported, Buckets, state, hist
  <2>3. \/ GoesTo(c, "forget") /\ old[chk[c].ip] = chk[c].u
        \/ GoesTo(c, "undo")
        \/ Passes(c) /\ (old[chk[c].ip] # None \/ chk[c].atLimit = FALSE)
    BY <1>0, <1>6, PassState, GotoState DEF Known, Pcs
  <2>4. old[chk[c].ip] # None => chk[c].ip \in last
    BY <2>1 DEF Reported
  <2>5. chk[c].u # None
    BY <2>1, LimiterAssumption
  <2>6. Keeps(c) /\ HasStored(c)' /\ HasStored(c)
    BY <2>1, <2>3 DEF Passes, GoesTo, Keeps, HasStored
  <2>7. AdmittedBy(c)'
    BY <2>1, <2>6 DEF AdmittedBy, Content, Keeps, state, hist
  <2>8. Informed(c)'
    BY <1>0, <2>1, <2>3, <2>4, <2>5
       DEF Informed, Keeps, Passes, GoesTo, Holding, state, hist
  <2> QED
    BY <1>0, <2>1, <2>2, <2>6, <2>7, <2>8, OrderlyAlone DEF Keeps
<1>7. CASE Forget(c)
  <2>1. /\ Alone(c) /\ AdmittedBy(c) /\ Informed(c) /\ Reported /\ Buckets
        /\ chk[c].pc = "forget" /\ chk[c].ip \in IPs
        /\ chk[c].tcp = TRUE /\ old \in [IPs -> Users \cup {None}]
        /\ old' = [old EXCEPT ![chk[c].ip] = None]
        /\ UNCHANGED <<info, online, ips, bucket, hist>>
    BY <1>0, <1>2, <1>7 DEF Forget, hist, CheckPlaced, Holding, TypeOK
  <2>2. Reported' /\ Buckets'
    BY <1>0, <2>1 DEF Reported, Buckets, hist
  <2>3. Passes(c)
    BY <1>0, <1>7, PassState DEF Forget
  <2>4. AdmittedBy(c)'
    BY <2>1, <2>3 DEF AdmittedBy, Content, HasStored, Passes, Keeps, hist
  <2>5. Informed(c)'
    BY <2>1, <2>3 DEF Informed, Passes, Keeps, Holding, hist
  <2> QED
    BY <1>0, <2>1, <2>2, <2>3, <2>4, <2>5, OrderlyAlone DEF Passes, Keeps
<1>8. CASE Undo(c)
  <2> DEFINE u == chk[c].u
             ip == chk[c].ip
             m == chk[c].m
  <2>1. /\ Alone(c) /\ AdmittedBy(c) /\ Informed(c) /\ Reported /\ Buckets
        /\ u \in Users /\ chk[c].pc = "undo" /\ ip \in IPs /\ m \in Maps
        /\ m = online[u] /\ m # None /\ ip \notin seen[u]
        /\ (chk[c].first = TRUE => seen[u] = {})
        /\ UNCHANGED <<info, old, bucket, hist>>
    BY <1>0, <1>2, <1>8
       DEF Undo, hist, CheckPlaced, Holding, Informed, TypeOK, CheckState
  <2>2. Reported' /\ Buckets'
    BY <1>0, <2>1 DEF Reported, Buckets, hist
  <2>3. Leaves(c)
    BY <1>0, <1>8, LeaveState DEF Undo
  <2>4. \/ /\ chk[c].first = TRUE /\ ips' = ips
           /\ online' = [online EXCEPT ![u] = None]
        \/ online' = online /\ ips' = [ips EXCEPT ![m] = @ \ {ip}]
    BY <1>0, <1>8 DEF Undo
  <2> HIDE DEF u, ip, m
  <2>5. HasStored(c) /\ ~HasStored(c)'
    BY <2>1, <2>3 DEF HasStored, Leaves
  <2>6. ASSUME NEW v \in Users, v # u
        PROVE  Content(v)' = Content(v)
    <3>1. online[v] # m
      BY <2>1, <2>6 DEF Owned, Holds
    <3> QED
      BY <1>0, <2>1, <2>4, <2>6, <3>1 DEF Content
  <2>7. ASSUME NEW v \in Users, NEW jp \in IPs
        PROVE  jp \in Content(v)' <=> jp \in seen[v]
    <3>1. jp \in Content(v) <=> jp \in seen[v] \/ (v = u /\ jp = ip)
      BY <2>1, <2>5 DEF AdmittedBy, u, ip
    <3>2. CASE v # u
      BY <2>6, <3>1, <3>2
    <3>3. CASE v = u /\ online' = [online EXCEPT ![u] = None] /\ seen[u] = {}
      BY <1>0, <2>1, <3>3 DEF Content
    <3>4. CASE v = u /\ online' = online /\ ips' = [ips EXCEPT ![m] = @ \ {ip}]
      <4>1. Content(v) = ips[m] /\ Content(v)' = ips[m] \ {ip}
        BY <1>0, <2>1, <3>4 DEF Content
      <4> QED
        BY <2>1, <3>1, <3>4, <4>1
    <3> QED
      BY <2>1, <2>4, <3>2, <3>3, <3>4
  <2>8. AdmittedBy(c)'
    BY <2>1, <2>5, <2>7 DEF AdmittedBy, hist
  <2>9. Informed(c)'
    BY <2>3 DEF Informed, Leaves, Holding
  <2> QED
    BY <1>0, <2>1, <2>2, <2>3, <2>8, <2>9, OrderlyAlone DEF Leaves
<1>9. CASE Admit(c)
  <2> DEFINE u == chk[c].u
             ip == chk[c].ip
  <2>1. /\ Alone(c) /\ AdmittedBy(c) /\ Reported /\ Buckets
        /\ u \in Users /\ chk[c].pc = "bucket" /\ overlap = FALSE
        /\ chk[c].rec = info[u] /\ chk[c].rec # None
        /\ UNCHANGED <<info, online, ips, old>> /\ last' = last
    BY <1>0, <1>2, <1>9, LimiterAssumption
       DEF Admit, CheckPlaced, Holding, Informed, Remember
  <2>2. /\ chk[c].tcp = TRUE => seen' = [seen EXCEPT ![u] = @ \cup {ip}]
        /\ chk[c].tcp = FALSE => seen' = seen
    BY <2>1, <1>9 DEF Admit, Remember
  <2>3. Leaves(c)
    BY <1>0, <1>9, LeaveState DEF Admit
  <2>4. Buckets'
    <3>1. bucket' = [bucket EXCEPT ![u] = IF @ = 0 THEN chk[c].rec.speed ELSE @]
      BY <1>9 DEF Admit
    <3>2. bucket \in [Users -> Nat] /\ upd.pc = "idle"
      BY <1>0, <2>1 DEF TypeOK, Alone
    <3> QED
      BY <1>0, <2>1, <3>1, <3>2 DEF Buckets
  <2>5. Reported'
    BY <2>1 DEF Reported
  <2>6. ~HasStored(c)' /\ (HasStored(c) <=> chk[c].tcp = TRUE)
    BY <2>1, <2>3 DEF HasStored, Leaves
  <2>7. \A v \in Users : Content(v)' = Content(v)
    BY <2>1 DEF Content
  <2>8. AdmittedBy(c)'
    <3>1. CASE chk[c].tcp = TRUE
      BY <1>0, <2>1, <2>2, <2>6, <2>7, <3>1 DEF AdmittedBy
    <3>2. CASE chk[c].tcp = FALSE
      BY <2>1, <2>2, <2>6, <2>7, <3>2 DEF AdmittedBy
    <3> QED
      BY <1>0, <3>1, <3>2
  <2>9. Informed(c)'
    BY <2>3 DEF Informed, Leaves, Holding
  <2> QED
    BY <1>0, <2>1, <2>3, <2>4, <2>5, <2>8, <2>9, OrderlyAlone DEF Leaves
<1> QED
  BY <1>1, <1>3, <1>4, <1>5, <1>6, <1>7, <1>8, <1>9 DEF CheckStep

(* ... the report, or an update.                                           *)
LEMMA OrderlyAside ==
  ASSUME \A c \in Checks : chk[c].pc = "idle", chk' = chk,
         rep'.pc = "idle" \/ upd'.pc = "idle",
         \A u \in Users, ip \in IPs : ip \in Content(u)' <=> ip \in seen'[u],
         Reported', Buckets'
  PROVE  Orderly'
<1>1. Sole'
  BY DEF Sole
<1>2. Admitted'
  BY DEF Admitted, HasStored
<1>3. \A c \in Checks : Informed(c)'
  BY DEF Informed, Holding
<1> QED
  BY <1>1, <1>2, <1>3 DEF Orderly

NoChecks ==
  /\ \A c \in Checks : chk[c].pc = "idle"
  /\ \A u \in Users, ip \in IPs : ip \in Content(u) <=> ip \in seen[u]

LEMMA ReportOrUpdateAlone ==
  ASSUME Orderly, Quiet \/ rep.pc # "idle" \/ upd.pc # "idle"
  PROVE  NoChecks /\ Reported /\ Buckets /\ (rep.pc = "idle" \/ upd.pc = "idle")
<1>1. \A c \in Checks : chk[c].pc = "idle"
  BY DEF Orderly, Sole, Quiet
<1>2. \A c \in Checks : ~HasStored(c)
  BY <1>1 DEF HasStored
<1> QED
  BY <1>1, <1>2 DEF Orderly, Sole, Admitted, NoChecks

LEMMA OrderlyReport ==
  ASSUME Struct, Sequential, ReportStep, overlap' = FALSE
  PROVE  Orderly'
<1>0. /\ TypeOK /\ RepPlaced /\ rep \in RepStates
      /\ UNCHANGED <<info, ips, alive, bucket, chk, upd>>
      /\ online \in [Users -> Maps \cup {None}] /\ seen \in [Users -> SUBSET IPs]
      /\ old \in [IPs -> Users \cup {None}]
  BY DEF Struct, ReportStep, RepBegin, RepUser, RepAddress, RepDelete, RepEnd,
         state, TypeOK, RepStates
<1>1. CASE RepBegin
  <2>1. /\ Quiet /\ overlap = FALSE /\ seen' = seen /\ last' = {}
    BY <1>1, OpensQuiet DEF RepBegin
  <2>2. NoChecks /\ Buckets /\ upd.pc = "idle"
    BY <2>1, ReportOrUpdateAlone DEF Sequential, Quiet
  <2>3. Reported'
    BY <1>1, <2>1 DEF RepBegin, Reported
  <2>4. Buckets' /\ \A u \in Users : Content(u)' = Content(u)
    BY <1>0, <1>1, <2>2 DEF RepBegin, Buckets, Content
  <2> QED
    BY <1>0, <2>1, <2>2, <2>3, <2>4, OrderlyAside DEF NoChecks
<1>2. ASSUME rep.pc # "idle", overlap' = overlap
      PROVE  NoChecks /\ Reported /\ Buckets /\ Buckets' /\ upd.pc = "idle"
  <2>1. NoChecks /\ Reported /\ Buckets /\ upd.pc = "idle"
    BY <1>2, ReportOrUpdateAlone DEF Sequential
  <2> QED
    BY <1>0, <2>1 DEF Buckets
<1>3. CASE RepEnd \/ \E u \in Users : RepUser(u)
  <2>1. /\ NoChecks /\ Reported /\ Buckets' /\ upd.pc = "idle"
        /\ UNCHANGED <<state, hist>>
    BY <1>2, <1>3 DEF RepEnd, RepUser, hist
  <2>2. Reported' /\ \A u \in Users : Content(u)' = Content(u)
    BY <2>1 DEF Reported, Content, state, hist
  <2> QED
    BY <1>0, <2>1, <2>2, OrderlyAside DEF NoChecks, hist
<1>4. ASSUME NEW ip \in IPs, RepAddress(ip)
      PROVE  Orderly'
  <2>1. /\ NoChecks /\ Reported /\ Buckets' /\ upd.pc = "idle"
        /\ UNCHANGED <<online, ips, seen>> /\ last' = last \cup {ip}
        /\ old' = [old EXCEPT ![ip] = rep.u]
    BY <1>2, <1>4 DEF RepAddress, Remember
  <2>2. Reported' /\ \A u \in Users : Content(u)' = Content(u)
    BY <1>0, <2>1 DEF Reported, Content
  <2> QED
    BY <1>0, <2>1, <2>2, OrderlyAside DEF NoChecks
<1>5. CASE RepDelete
  <2>1. /\ NoChecks /\ Reported /\ Buckets' /\ upd.pc = "idle"
        /\ UNCHANGED <<ips, old, last>>
        /\ seen' = [seen EXCEPT ![rep.u] = {}]
        /\ online' = [online EXCEPT ![rep.u] = None]
    BY <1>2, <1>5 DEF RepDelete, Remember
  <2>2. Reported'
    BY <2>1 DEF Reported
  <2>3. \A u \in Users, ip \in IPs : ip \in Content(u)' <=> ip \in seen'[u]
    BY <1>0, <2>1 DEF NoChecks, Content
  <2> QED
    BY <1>0, <2>1, <2>2, <2>3, OrderlyAside DEF NoChecks
<1> QED
  BY <1>1, <1>3, <1>4, <1>5 DEF ReportStep

LEMMA OrderlyUpdate ==
  ASSUME Struct, Sequential, MonitorStep, overlap' = FALSE
  PROVE  Orderly'
<1>0. /\ TypeOK /\ UpdPlaced /\ upd \in UpdStates
      /\ UNCHANGED <<ips, old, chk, rep>>
      /\ online \in [Users -> Maps \cup {None}] /\ seen \in [Users -> SUBSET IPs]
      /\ info \in [Users -> Infos \cup {None}] /\ bucket \in [Users -> Nat]
  BY DEF Struct, MonitorStep, Poll, DeleteInfo, DeleteOnline, DeleteBucket,
         DeleteAlive, StoreInfo, TypeOK, UpdStates
<1>1. CASE \E a \in [Users -> 0..MaxAlive] : Poll(a)
  <2>1. /\ UNCHANGED <<info, online, ips, old, bucket, chk, rep, upd, hist>>
        /\ Orderly
    BY <1>1 DEF Poll, Sequential, hist
  <2>2. Sole' /\ Admitted' /\ Reported' /\ Buckets'
    BY <2>1
       DEF Orderly, Sole, Admitted, HasStored, Content, Reported, Buckets,
           hist
  <2>3. \A c \in Checks : Informed(c)'
    BY <2>1 DEF Orderly, Informed, hist
  <2> QED
    BY <2>2, <2>3 DEF Orderly
<1>2. ASSUME NEW u \in Users, NEW new \in NewInfos, DeleteInfo(u, new)
      PROVE  Orderly'
  <2>1. /\ Quiet /\ overlap = FALSE /\ seen' = seen /\ last' = last
    BY <1>2, OpensQuiet DEF DeleteInfo
  <2>2. NoChecks /\ Reported /\ Buckets /\ rep.pc = "idle" /\ upd.pc = "idle"
    BY <2>1, ReportOrUpdateAlone DEF Sequential, Quiet
  <2>3. /\ UNCHANGED <<online, bucket>> /\ upd'.u = u
        /\ info' = [info EXCEPT ![u] = None]
        /\ upd'.pc = IF info[u] = None THEN "store" ELSE "online"
    BY <1>2 DEF DeleteInfo
  <2>4. Reported' /\ \A v \in Users : Content(v)' = Content(v)
    BY <1>0, <2>1, <2>2, <2>3 DEF Reported, Content
  <2>5. Buckets'
    <3>1. ASSUME NEW v \in Users, bucket[v] # 0
          PROVE  info[v] # None /\ bucket[v] = info[v].speed
      BY <2>2, <3>1 DEF Buckets
    <3> QED
      BY <1>0, <2>3, <3>1 DEF Buckets
  <2> QED
    BY <1>0, <2>1, <2>2, <2>4, <2>5, OrderlyAside DEF NoChecks
<1>3. ASSUME upd.pc # "idle", overlap' = overlap
      PROVE  NoChecks /\ Reported /\ Buckets /\ rep.pc = "idle" /\ upd.u \in Users
  BY <1>0, <1>3, ReportOrUpdateAlone DEF Sequential, UpdPlaced
<1>4. CASE DeleteOnline
  <2>1. /\ NoChecks /\ Reported /\ Buckets /\ rep.pc = "idle"
        /\ upd.pc = "online" /\ UNCHANGED <<info, bucket, last>>
        /\ seen' = [seen EXCEPT ![upd.u] = {}]
        /\ online' = [online EXCEPT ![upd.u] = None]
    BY <1>3, <1>4 DEF DeleteOnline, Remember
  <2>2. upd'.u = upd.u /\ upd'.pc = "bucket"
    BY <1>0, <1>4 DEF DeleteOnline, UpdStates
  <2>3. Reported' /\ Buckets'
    BY <1>0, <2>1, <2>2 DEF Reported, Buckets
  <2>4. \A u \in Users, ip \in IPs : ip \in Content(u)' <=> ip \in seen'[u]
    BY <1>0, <2>1 DEF NoChecks, Content
  <2> QED
    BY <1>0, <2>1, <2>3, <2>4, OrderlyAside DEF NoChecks
<1>5. CASE DeleteBucket \/ DeleteAlive \/ StoreInfo
  <2>1. /\ NoChecks /\ Reported /\ Buckets /\ rep.pc = "idle" /\ upd.u \in Users
        /\ UNCHANGED <<online, hist>>
    BY <1>3, <1>5 DEF DeleteBucket, DeleteAlive, StoreInfo, hist
  <2>2. Reported' /\ \A v \in Users : Content(v)' = Content(v)
    BY <1>0, <2>1 DEF Reported, Content, hist
  <2>3. Buckets'
    <3>1. CASE DeleteBucket
      <4>1. upd'.u = upd.u /\ upd'.pc = "alive" /\ upd.pc = "bucket"
        BY <1>0, <3>1 DEF DeleteBucket, UpdStates
      <4> QED
        BY <1>0, <2>1, <3>1, <4>1 DEF DeleteBucket, Buckets
    <3>2. CASE DeleteAlive
      <4>1. upd'.u = upd.u /\ upd'.pc = "store" /\ upd.pc = "alive"
        BY <1>0, <3>2 DEF DeleteAlive, UpdStates
      <4> QED
        BY <1>0, <2>1, <3>2, <4>1 DEF DeleteAlive, Buckets
    <3>3. CASE StoreInfo
      <4>1. upd'.pc = "idle" /\ upd.pc = "store"
        BY <1>0, <3>3 DEF StoreInfo, UpdStates
      <4>2. bucket[upd.u] = 0
        BY <2>1, <4>1 DEF Buckets
      <4> QED
        BY <1>0, <2>1, <3>3, <4>1, <4>2 DEF StoreInfo, Buckets
    <3> QED
      BY <1>5, <3>1, <3>2, <3>3
  <2> QED
    BY <1>0, <2>1, <2>2, <2>3, OrderlyAside DEF NoChecks, hist
<1> QED
  BY <1>1, <1>2, <1>4, <1>5 DEF MonitorStep

SInv == Struct /\ Owned /\ Sequential

LEMMA SequentialInvariance == Spec => []SInv
<1>1. ASSUME Init
      PROVE  SInv
  <2>1. Struct
    BY <1>1, StructInit
  <2>2. /\ \A u \in Users : online[u] = None /\ bucket[u] = 0 /\ seen[u] = {}
        /\ \A c \in Checks : chk[c].pc = "idle" /\ chk[c].m = None
        /\ \A ip \in IPs : old[ip] = None
        /\ rep.m = None /\ rep.pc = "idle" /\ upd.pc = "idle"
        /\ \A m \in Maps : m # None
    BY <1>1, LimiterAssumption DEF Init, Free, NoRep
  <2>3. Owned
    BY <2>2 DEF Owned, Holds
  <2>4. Sole /\ Reported /\ Buckets
    BY <2>2 DEF Sole, Reported, Buckets
  <2>5. Admitted
    BY <2>2 DEF Admitted, HasStored, Content
  <2>6. \A c \in Checks : Informed(c)
    BY <2>2 DEF Informed, Holding
  <2> QED
    BY <2>1, <2>3, <2>4, <2>5, <2>6 DEF SInv, Sequential, Orderly
<1>2. ASSUME SInv, [Next]_vars
      PROVE  SInv'
  <2>1. Struct' /\ Owned'
    BY <1>2, StructStep, OwnedStep DEF SInv
  <2>2. ASSUME overlap' = FALSE
        PROVE  Orderly'
    <3>1. CASE UNCHANGED vars
      <4>1. Orderly
        BY <1>2, <2>2, <3>1 DEF SInv, Sequential, vars, hist
      <4>2. Sole' /\ Admitted' /\ Reported' /\ Buckets'
        BY <3>1, <4>1
           DEF Orderly, Sole, Admitted, HasStored, Content, Reported, Buckets,
               vars, state, hist
      <4>3. \A c \in Checks : Informed(c)'
        BY <3>1, <4>1 DEF Orderly, Informed, vars, state, hist
      <4> QED
        BY <4>2, <4>3 DEF Orderly
    <3> QED
      BY <1>2, <2>2, <3>1, OrderlyCheck, OrderlyReport, OrderlyUpdate
         DEF SInv, Next
  <2> QED
    BY <2>1, <2>2 DEF SInv, Sequential
<1> QED
  BY <1>1, <1>2, PTL DEF Spec

(* A device admitted since the last report is in its user's map, where the *)
(* next report finds it, as long as no two operations overlap (the         *)
(* LoadOrStore, LoadAndDelete and Delete of CheckLimit, the deletions of   *)
(* GetOnlineDevice and UpdateUser: limiter/limiter.go).                    *)
THEOREM AdmittedIsReported == Spec => []DeviceRemembered
<1>1. ASSUME SInv, ~overlap, Quiet, NEW u \in Users, NEW ip \in seen[u]
      PROVE  online[u] # None /\ ip \in ips[online[u]]
  <2>1. ip \in IPs /\ overlap = FALSE
    BY <1>1 DEF SInv, Struct, TypeOK
  <2>2. NoChecks
    BY <1>1, <2>1, ReportOrUpdateAlone DEF SInv, Sequential
  <2> QED
    BY <1>1, <2>1, <2>2 DEF NoChecks, Content
<1>2. SInv => DeviceRemembered
  BY <1>1 DEF DeviceRemembered
<1> QED
  BY <1>2, SequentialInvariance, PTL

(* A user's token bucket has the speed of his record, as long as no two    *)
(* operations overlap: a check that opens one uses the record as it is,    *)
(* and an update of the user removes it (limiter/limiter.go).              *)
THEOREM BucketFits == Spec => []BucketCurrent
<1>1. ASSUME SInv, ~overlap, Quiet, NEW u \in Users, bucket[u] # 0
      PROVE  info[u] # None /\ bucket[u] = info[u].speed
  <2>1. overlap = FALSE /\ upd.pc = "idle"
    BY <1>1 DEF SInv, Struct, TypeOK, Quiet
  <2> QED
    BY <1>1, <2>1 DEF SInv, Sequential, Orderly, Buckets
<1>2. SInv => BucketCurrent
  BY <1>1 DEF BucketCurrent
<1> QED
  BY <1>2, SequentialInvariance, PTL

(* The online IP limit: a stream connection of a user at his device limit  *)
(* passes only from an address admitted before or reported last time, as   *)
(* long as no two operations overlap (CheckLimit, limiter/limiter.go).     *)
THEOREM LimitKept == Spec => []LimitHolds
<1>1. ASSUME SInv, ~overlap, NEW c \in Checks,
             chk[c].pc = "bucket", chk[c].tcp, chk[c].atLimit
      PROVE  chk[c].ip \in seen[chk[c].u] \cup last
  <2>1. overlap = FALSE /\ chk[c].tcp = TRUE /\ chk[c].atLimit = TRUE
    BY <1>1 DEF SInv, Struct, TypeOK, CheckState
  <2> QED
    BY <1>1, <2>1 DEF SInv, Sequential, Orderly, Informed
<1>2. SInv => LimitHolds
  BY <1>1 DEF LimitHolds
<1> QED
  BY <1>2, SequentialInvariance, PTL
=============================================================================
