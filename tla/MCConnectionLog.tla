--------------------------- MODULE MCConnectionLog ---------------------------
(* Small instances of ConnectionLog: a hub with two devices, and a client of *)
(* another user who shares the first of them.                                *)
EXTENDS ConnectionLog, TLC

CONSTANTS h1, u1, d1, d2, s1, s2

HubDevices == [c \in Clients |-> IF c = h1 THEN {d1, d2} ELSE {}]
UserDevices == [c \in Clients |-> IF c = h1 THEN {d1, d2} ELSE {d1}]
NoneRefused == [c \in Clients |-> {}]
OwnerRefused == [c \in Clients |-> IF c = u1 THEN {<<"plain", d1, s1>>} ELSE {}]

(* Two services of d1, one of d2, and "command/" followed by nothing. *)
CommandTopics ==
  {<<"plain", d1, s1>>, <<"plain", d1, s2>>, <<"plain", d2, s1>>, <<"malformed", d2, s2>>}

SharedTopics == {<<"plain", d1, s1>>, <<"shared", d1, s1>>}

Symmetry == Permutations(Calls)
=============================================================================
