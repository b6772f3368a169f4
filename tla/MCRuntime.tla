------------------------------- MODULE MCRuntime -------------------------------
(* Two devices, one token name, three command lines that serve and three that  *)
(* are refused.                                                               *)
EXTENDS Runtime

Flags == [http |-> TRUE, tokens |-> TRUE, noAuth |-> FALSE, loopback |-> TRUE,
          tls |-> FALSE, insecure |-> FALSE, hosts |-> FALSE, origins |-> FALSE,
          quota |-> 120, bad |-> FALSE, lab |-> TRUE, direct |-> FALSE, plane |-> FALSE]

MCOptions ==
    {[Flags EXCEPT !.http = FALSE, !.tokens = FALSE],
     [Flags EXCEPT !.tokens = FALSE, !.noAuth = TRUE, !.quota = 59],
     [Flags EXCEPT !.loopback = FALSE, !.tls = TRUE, !.hosts = TRUE, !.origins = TRUE,
                   !.quota = 1],
     [Flags EXCEPT !.tokens = FALSE, !.noAuth = TRUE, !.loopback = FALSE, !.tls = TRUE,
                   !.hosts = TRUE, !.origins = TRUE],
     [Flags EXCEPT !.loopback = FALSE],
     [Flags EXCEPT !.bad = TRUE]}

Empty(D) == [d \in D |-> {}]
Plain == [devices |-> {"d1"}, mode |-> "", allow |-> {"show1"}, allowOf |-> Empty({"d1"}),
          deny |-> Empty({"d1"}), hide |-> [d \in {"d1"} |-> {"x1"}], defects |-> {}]
Both == {"d1", "d2"}
Legacy == [devices |-> Both, mode |-> "", allow |-> {}, allowOf |-> Empty(Both),
           deny |-> [d \in Both |-> IF d = "d2" THEN {"show2"} ELSE {}],
           hide |-> Empty(Both), defects |-> {}]
NoKey == [Plain EXCEPT !.defects = {"key"}]
Gone == [Plain EXCEPT !.defects = {"read"}]

MCInventories == {Plain, Legacy, NoKey, Gone}

MCGrants ==
    {[devices |-> {Any}, tools |-> {Any}, roots |-> FALSE, actions |-> FALSE],
     [devices |-> {"d1"}, tools |-> {"stage_panos_config", "execute_panos_op"},
      roots |-> TRUE, actions |-> TRUE],
     [devices |-> {"d2"}, tools |-> {"stage_panos_config", "approve_panos_change_set"},
      roots |-> FALSE, actions |-> TRUE]}

MCRequests ==
    {[tool |-> "stage_panos_config", device |-> "d1", arg |-> ""],
     [tool |-> "approve_panos_change_set", device |-> "d2", arg |-> ""],
     [tool |-> "execute_panos_op", device |-> "d1", arg |-> "show2"],
     [tool |-> "execute_panos_op", device |-> "d2", arg |-> "show2"],
     [tool |-> "get_panos_config", device |-> "d1", arg |-> "x1"],
     [tool |-> "list_devices", device |-> None, arg |-> ""]}
=============================================================================
