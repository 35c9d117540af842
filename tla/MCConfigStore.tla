--------------------------- MODULE MCConfigStore ---------------------------
(* A small instance of the configuration store for TLC: two workers, one    *)
(* path of the initial list, one added by requests and one that load_config *)
(* refuses, and three updates, so that an update can follow a failed one    *)
(* across a restart.                                                        *)
EXTENDS ConfigStore

AllNames == {"", "etc", "hosts", "fstab"}

Hosts == <<"", "etc", "hosts">>
Fstab == <<"", "etc", "fstab">>
Loose == <<"etc", "fstab">>

OneList   == {Hosts}
GoodPaths == {Hosts, Fstab}
AllPaths  == {Hosts, Fstab, Loose}
=============================================================================
