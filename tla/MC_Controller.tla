--------------------------- MODULE MC_Controller ---------------------------
(* Small panels for Controller: node configurations and user lists. *)
EXTENDS Controller

CONSTANTS vless, hysteria2, alice, bob

Cfg(t, tls, pull) == [tag |-> t, tls |-> tls, pull |-> pull]
User(u, speed, device) == [uuid |-> u, speed |-> speed, device |-> device]

(* Three configurations: two types, hence two tags; one asks for a         *)
(* certificate; one changes nothing but that.  All poll at one interval.   *)
OnePull == {Cfg(vless, FALSE, 60), Cfg(vless, TRUE, 60), Cfg(hysteria2, TRUE, 60)}

(* Two configurations that differ in the polling interval as well. *)
TwoPulls == {Cfg(vless, FALSE, 60), Cfg(hysteria2, TRUE, 30)}

(* Lists that differ in who is there and in a speed limit. *)
Lists == {{User(alice, 1, 1)}, {User(alice, 2, 1)},
          {User(alice, 1, 1), User(bob, 1, 1)}}

(* With the list of a node nobody may use. *)
ListsOrNone == {{User(alice, 1, 1)}, {User(alice, 2, 1), User(bob, 1, 1)}, {}}

=============================================================================
