---------------------------- MODULE ServerConfig ----------------------------
(***************************************************************************)
(* load_server_config of server/config.py as far as placement reads it: a   *)
(* file in which any field but the name of a host may be missing becomes    *)
(* the configuration of Placement.  A mapping of the file is a record with  *)
(* the fields that are there.                                               *)
(***************************************************************************)
EXTENDS Sequences

\* dict.get
Get(mapping, field, default) ==
  IF field \in DOMAIN mapping THEN mapping[field] ELSE default

\* An entry is no docker host, and takes the default of the policy, unless it
\* says otherwise.
ParseHosts(raw) ==
  [i \in DOMAIN Get(raw, "hosts", <<>>) |->
     [name      |-> raw.hosts[i].name,
      docker    |-> Get(raw.hosts[i], "docker", FALSE),
      max_slots |-> Get(raw.hosts[i], "max_slots", 0)]]

ParseSlotPolicy(raw) ==
  LET policy == Get(raw, "slot_policy", <<>>)
  IN  [max_slots_per_host |-> Get(policy, "max_slots_per_host", 4),
       max_port_offsets   |-> Get(policy, "max_port_offsets", 50)]

LoadServerConfig(raw) ==
  [hosts |-> ParseHosts(raw),
   max_slots_per_host |-> ParseSlotPolicy(raw).max_slots_per_host,
   max_port_offsets |-> ParseSlotPolicy(raw).max_port_offsets]
=============================================================================
