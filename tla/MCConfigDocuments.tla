--------------------------- MODULE MCConfigDocuments ---------------------------
(* Cluster sections for ConfigDocuments: the product of all fields is out of    *)
(* reach and tells nothing more, so each set below varies the fields that a      *)
(* function reads together and keeps the others as they are in Plain.            *)
EXTENDS ConfigDocuments

CONSTANTS a, b, h              \* addresses, names or subnets; the host

Roles == {"init", "controlplane", "worker"}
Versions == {"before131", "from131"}

PlainReg == [name |-> None, cri |-> None, taints |-> None, args |-> <<>>]

Plain ==
    [role |-> "init", version |-> "from131",
     host |-> [name |-> h, v6 |-> FALSE, brackets |-> 0, port |-> 0],
     form |-> "list",
     sans |-> <<>>, service |-> None, pod |-> None,
     initReg |-> PlainReg, initEndpoint |-> NoEndpoint,
     joinReg |-> PlainReg, controlPlane |-> None,
     dns |-> None, proxy |-> FALSE, noProxy |-> None]

Endpoints == [address : {None, a, DefaultAPIAdvertiseAddress}, port : {0, 7443}]

OfEndpoints ==
    {[Plain EXCEPT !.role = r, !.initEndpoint = i, !.controlPlane = c] :
         r \in Roles, i \in Endpoints, c \in {None} \cup Endpoints}

Hosts ==
    {[name |-> h, v6 |-> FALSE, brackets |-> 0, port |-> p] : p \in {0, 7443}}
    \cup {[name |-> h, v6 |-> TRUE, brackets |-> k, port |-> 0] : k \in {0, 1}}
    \cup {[name |-> h, v6 |-> TRUE, brackets |-> 1, port |-> 7443]}

OfHosts ==
    {[Plain EXCEPT !.role = r, !.host = o, !.sans = s, !.version = v] :
         r \in {"init", "controlplane"}, o \in Hosts,
         s \in {<<>>, <<a>>, <<h, a>>, <<a, a>>}, v \in Versions \cup {"none"}}

Arguments ==
    [name : {"node-ip", "hostname-override", "container-runtime-endpoint"}, value : {a, Bare}]
Lists == {<<>>} \cup {<<x>> : x \in Arguments}
Repeated == {<<x, y>> : x, y \in [name : {"node-ip", "other"}, value : {a, b}]}

Registrations ==
    [name : {None, a, Hostname}, cri : {None, b}, taints : {None, a}, args : Lists]
    \cup [name : {None}, cri : {None}, taints : {None}, args : Repeated]

HasRepeats(args) == \E i, j \in DOMAIN args : i # j /\ args[i].name = args[j].name

\* A map has no two entries of one name.
OfRegistrations ==
    {o \in {[Plain EXCEPT !.role = r, !.version = v, !.form = f,
                          !.initReg = IF r = "init" THEN g ELSE PlainReg,
                          !.joinReg = IF r = "init" THEN PlainReg ELSE g] :
                r \in Roles, v \in Versions, f \in Form, g \in Registrations} :
        o.form = "map" => ~HasRepeats(o.initReg.args \o o.joinReg.args)}

OfNetworks ==
    {[Plain EXCEPT !.role = r, !.service = s, !.pod = p, !.dns = d, !.proxy = x, !.noProxy = n] :
         r \in Roles, s \in {None, a}, p \in {None, b}, d \in {None, b},
         x \in BOOLEAN, n \in {None, h}}

MCOptions == OfEndpoints \cup OfHosts \cup OfRegistrations \cup OfNetworks
===============================================================================
