-------------------------- MODULE MCTopicDispatch --------------------------
(* A user with a hub, an administrator with another, the connector itself. *)
EXTENDS TopicDispatch, TLC

CONSTANTS h1, h2, own, u1, u2, connector, d1

LoginUsers == h1 :> u1 @@ h2 :> u2 @@ own :> connector
UserDevices == u1 :> {d1} @@ u2 :> {} @@ connector :> {}
UserHubs == u1 :> {h1} @@ u2 :> {h2} @@ connector :> {}

T(kind, owner, target) ==
  [kind |-> kind, owner |-> owner, target |-> target, parts |-> "right", service |-> "known"]
Parts(t, parts) == [t EXCEPT !.parts = parts]
Service(t, service) == [t EXCEPT !.service = service]

Plain == T("event", NoUser, d1)
Owned == T("event", u1, d1)

Messages ==
  {Plain, Owned, T("event", u2, d1), Service(Plain, "unknown"), Parts(Plain, "one"),
   Parts(Plain, "wrong"), Parts(Plain, "long"), Parts(Owned, "long"),
   T("response", NoUser, d1), T("response", u1, d1), T("response", u2, d1),
   T("command", NoUser, d1), T("processes", NoUser, h1), T("processes", NoUser, h2),
   T("export", u1, d1), T("error", NoUser, d1), T("error", u1, d1), T("error", u2, d1),
   Parts(T("error", NoUser, d1), "one"), Parts(T("error", u1, d1), "wrong"),
   Parts(T("error", NoUser, d1), "long"),
   T("fog", NoUser, d1), T("upstream", NoUser, d1), T("health", NoUser, d1),
   T("other", NoUser, d1)}

Commands == Service(T("command", u1, d1), "+")
Requests ==
  {Commands, T("command", NoUser, d1), T("command", u2, d1), Parts(Commands, "long"),
   Parts(Commands, "wrong"), T("processes", NoUser, h1), T("processes", NoUser, h2),
   T("processes", NoUser, Placeholder), Parts(T("processes", NoUser, h1), "one"),
   T("export", u1, d1), Parts(T("export", u1, d1), "one"), T("notifications", u1, d1),
   T("health", NoUser, d1), T("event", NoUser, d1), T("error", u1, d1),
   T("upstream", NoUser, d1), T("other", NoUser, d1)}

Lists ==
  {<<>>} \cup {<<t>> : t \in Requests} \cup
  {<<Commands, t>> : t \in Requests} \cup {<<t, T("export", u1, d1)>> : t \in Requests}
=============================================================================
