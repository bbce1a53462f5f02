------------------------------- MODULE MCDSNS -------------------------------
(* Instances of DSNS for TLC, with the records that DSNSRecords derives. *)
EXTENDS DSNS, DSNSRecords, TLC

Talos == "InfrastructureTalosCluster"
Pack == "InfrastructurePackInstance"

TalosCluster(ns, name, ready, ip, screen) ==
    [kind |-> Talos, namespace |-> <<ns>>, name |-> name,
     conditions |-> IF ready THEN {"Ready"} ELSE {},
     clusterEndpoint |-> <<ip, "6443">>, provider |-> IF screen THEN "screen" ELSE "",
     origin |-> "", mode |-> "import"]

PackInstance(name, ready, digest) ==
    [kind |-> Pack, namespace |-> <<"seam-tenant", "c1">>, name |-> name,
     conditions |-> IF ready THEN {"Ready"} ELSE {},
     clusterPackRef |-> <<>>, version |-> <<"v1", "2">>, targetClusterRef |-> <<>>,
     receiptDigest |-> digest]

\* An object in each of its states: Ready, Ready with other data, not Ready.
Talos1(s) == TalosCluster("ont-system", <<"c1">>, s # "down", IF s = "up" THEN "ip1" ELSE "ip2", FALSE)
Talos2(s) == TalosCluster("ont-system", <<"c2">>, s # "down", "ip3", s = "moved")
Pack1(s) == PackInstance(<<"p1">>, s # "down", IF s = "up" THEN "" ELSE "sha")

Content(o, s) ==
    CASE o = "talos1" -> Talos1(s)
      [] o = "talos2" -> Talos2(s)
      [] o = "pack1" -> Pack1(s)

AllObjects == {"talos1", "talos2", "pack1"}
KindOfObjects == [o \in Objects |-> IF o = "pack1" THEN Pack ELSE Talos]
DeriveObjects == [o \in Objects |-> [s \in States |-> deriveRecords(Content(o, s))]]

Derived == UNION {deriveRecords(Content(o, s)) : o \in AllObjects, s \in {"up", "moved", "down"}}
Glue == <<"A", <<"ns">>>>
AuthorityRecord == {DNSRecord("TXT", <<"authority", "conductor">>, <<"fingerprint">>)}
NoAuthority == {}
LoadBalancer == <<"lb">>
EnvIP == <<"env">>
Addresses == {LoadBalancer, EnvIP}
NoAddresses == {}
NoFallback == NoIP

AllKeys == {Glue} \cup KeysOf(Derived \cup AuthorityRecord)
AllValues == {r.value : r \in Derived \cup AuthorityRecord} \cup Addresses
NoSubjects == <<>>

=============================================================================
