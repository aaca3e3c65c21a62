----------------------------- MODULE MCQueries ------------------------------
(***************************************************************************)
(* The controller programs of seven queries, each in both builds; the      *)
(* eighth, new-tcp-connections, is SlidingHost and Controller.             *)
(***************************************************************************)
EXTENDS QueryState

CONSTANTS k1, k2

VARIABLE query     \* the program that runs

vars == <<query, queryVars>>

SynFlood == INSTANCE SynFloodHost
CompletedFlow == INSTANCE CompletedFlowHost
Slowloris == INSTANCE SlowlorisHost
Superspreader == INSTANCE SuperspreaderHost
Ddos == INSTANCE DdosHost
PortScan == INSTANCE PortScanHost
SshBrute == INSTANCE SshBruteHost

Init ==
  \/ query = "syn-flood" /\ SynFlood!Init
  \/ query = "completed-flow" /\ CompletedFlow!Init
  \/ query = "slowloris-attack" /\ Slowloris!Init
  \/ query = "superspreader" /\ Superspreader!Init
  \/ query = "ddos" /\ Ddos!Init
  \/ query = "port-scan" /\ PortScan!Init
  \/ query = "ssh-brute" /\ SshBrute!Init

Next ==
  /\ UNCHANGED query
  /\ \/ query = "syn-flood" /\ SynFlood!Next
     \/ query = "completed-flow" /\ CompletedFlow!Next
     \/ query = "slowloris-attack" /\ Slowloris!Next
     \/ query = "superspreader" /\ Superspreader!Next
     \/ query = "ddos" /\ Ddos!Next
     \/ query = "port-scan" /\ PortScan!Next
     \/ query = "ssh-brute" /\ SshBrute!Next

Spec == Init /\ [][Next]_vars

-----------------------------------------------------------------------------
(* The state of the program that runs is well-formed.                      *)
TypeOK ==
  /\ query = "syn-flood" => SynFlood!Host!TypeOK
  /\ query = "completed-flow" => CompletedFlow!Host!TypeOK
  /\ query = "slowloris-attack" => Slowloris!Host!TypeOK
  /\ query = "superspreader" => Superspreader!Host!TypeOK
  /\ query = "ddos" => Ddos!Host!TypeOK
  /\ query = "port-scan" => PortScan!Host!TypeOK
  /\ query = "ssh-brute" => SshBrute!Host!TypeOK

(* Each program reports the keys whose exact sum meets its query, or is    *)
(* negative where it compares unsigned numbers, and no other: the sum of   *)
(* the window in a SLIDING build, of all since the start in the other.     *)
ReportsExact ==
  /\ query = "syn-flood" => SynFlood!Host!ReportsExact
  /\ query = "completed-flow" => CompletedFlow!Host!ReportsExact
  /\ query = "slowloris-attack" => Slowloris!Host!ReportsExact
  /\ query = "superspreader" => Superspreader!Host!ReportsExact
  /\ query = "ddos" => Ddos!Host!ReportsExact
  /\ query = "port-scan" => PortScan!Host!ReportsExact
  /\ query = "ssh-brute" => SshBrute!Host!ReportsExact

(* Each address that the switch writes to is the place of that key in the  *)
(* row that is merged next.                                                *)
AddressesRight ==
  /\ query = "syn-flood" => SynFlood!Host!AddressesRight
  /\ query = "completed-flow" => CompletedFlow!Host!AddressesRight
  /\ query = "slowloris-attack" => Slowloris!Host!AddressesRight
  /\ query = "superspreader" => Superspreader!Host!AddressesRight
  /\ query = "ddos" => Ddos!Host!AddressesRight
  /\ query = "port-scan" => PortScan!Host!AddressesRight
  /\ query = "ssh-brute" => SshBrute!Host!AddressesRight

(* A position that no key has is clear, for the key that takes it next.    *)
FreeIsClear ==
  /\ query = "syn-flood" => SynFlood!Host!FreeIsClear
  /\ query = "completed-flow" => CompletedFlow!Host!FreeIsClear
  /\ query = "slowloris-attack" => Slowloris!Host!FreeIsClear
  /\ query = "superspreader" => Superspreader!Host!FreeIsClear
  /\ query = "ddos" => Ddos!Host!FreeIsClear
  /\ query = "port-scan" => PortScan!Host!FreeIsClear
  /\ query = "ssh-brute" => SshBrute!Host!FreeIsClear
=============================================================================
