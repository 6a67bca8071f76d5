----------------------------- MODULE MCSeeding -----------------------------
(***************************************************************************)
(* Two devices, one of them without address, and two controllers.          *)
(***************************************************************************)
EXTENDS Seeding

MCDevices ==
    <<[name |-> "d1", iface |-> "eth0", addr |-> "10.10.0.1/24"],
      [name |-> "d2", iface |-> "eth0", addr |-> NoAddr]>>

MCNetworks == <<"10.10.0.0/24">>

MCControllers ==
    <<[user |-> "netbox-updater", group |-> "netbox-updater", perms |-> <<"device", "ipam">>],
      [user |-> "kubernetes-updater", group |-> "kubernetes-updater", perms |-> <<"read">>]>>
=============================================================================
