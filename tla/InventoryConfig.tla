---------------------------- MODULE InventoryConfig ----------------------------
(***************************************************************************)
(* parse_boardfarm_config (src/boardfarm3/lib/boardfarm_config.py): the    *)
(* clients that an environment asks for are matched with the devices of    *)
(* the inventory, Wi-Fi clients by their band.  Bands are strings, which   *)
(* sort with "dual" behind the two that a client usually names.            *)
(***************************************************************************)
EXTENDS Functions, Naturals, Sequences

CONSTANT MaxListed    \* a bound on the devices, and on the clients, of a kind

ASSUME ListedAssumption == MaxListed \in Nat

VARIABLES
    wifiDevices, wifiClients,   \* the bands, in the order of the files
    lanDevices, lanClients,     \* how many
    parsed                      \* how far parsing is, and which clients have which device

files == <<wifiDevices, wifiClients, lanDevices, lanClients>>
configVars == <<files, parsed>>

Bands == {"2.4GHz", "5GHz", "dual"}
BandOrder == [b \in Bands |-> IF b = "2.4GHz" THEN 1 ELSE IF b = "5GHz" THEN 2 ELSE 3]

Devs == DOMAIN wifiDevices
Clients == DOMAIN wifiClients

Parsing(status) == [status |-> status, wifi |-> <<>>]

ConfigTypeOK ==
    /\ wifiDevices \in Seq(Bands) /\ Len(wifiDevices) <= MaxListed
    /\ wifiClients \in Seq(Bands) /\ Len(wifiClients) <= MaxListed
    /\ lanDevices \in 0 .. MaxListed /\ lanClients \in 0 .. MaxListed
    /\ parsed.status \in {"no", "matching", "merged", "lan_error", "wifi_error"}
    /\ DOMAIN parsed.wifi \subseteq Clients
    /\ parsed.wifi \in [DOMAIN parsed.wifi -> Devs]

ConfigInit ==
    /\ wifiDevices = <<>> /\ wifiClients = <<>>
    /\ lanDevices = 0 /\ lanClients = 0
    /\ parsed = Parsing("no")

-----------------------------------------------------------------------------
(* The files are written. *)
Listed ==
    /\ parsed.status = "no"
    /\ \/ /\ Len(wifiDevices) < MaxListed
          /\ \E b \in Bands : wifiDevices' = Append(wifiDevices, b)
          /\ UNCHANGED <<wifiClients, lanDevices, lanClients>>
       \/ /\ Len(wifiClients) < MaxListed
          /\ \E b \in Bands : wifiClients' = Append(wifiClients, b)
          /\ UNCHANGED <<wifiDevices, lanDevices, lanClients>>
       \/ /\ lanDevices' \in 0 .. MaxListed /\ lanClients' \in 0 .. MaxListed
          /\ UNCHANGED <<wifiDevices, wifiClients>>
    /\ UNCHANGED parsed

(* The LAN clients come first, by number alone, as the Wi-Fi clients are   *)
(* counted before any of them is matched.                                  *)
ParseBegins ==
    /\ parsed.status = "no"
    /\ parsed' = Parsing(IF lanDevices < lanClients THEN "lan_error"
                         ELSE IF Len(wifiDevices) < Len(wifiClients) THEN "wifi_error"
                         ELSE "matching")
    /\ UNCHANGED files

Defect_Sorted(bands, i, j) == i < j

(* sorted(key=band), which is stable, has position i before position j.    *)
Sorted(bands, i, j) ==
    \/ BandOrder[bands[i]] < BandOrder[bands[j]]
    \/ bands[i] = bands[j] /\ i < j

IsFirst(bands, i, S) == i \in S /\ \A j \in S \ {i} : Sorted(bands, i, j)

Serves(d, c) == wifiDevices[d] \in {wifiClients[c], "dual"}

Unmatched == Clients \ DOMAIN parsed.wifi

(* The devices left that have the client's band or both of them.           *)
Fitting(c) == {d \in Devs \ Range(parsed.wifi) : Serves(d, c)}

Gives(f, c, d) == [x \in DOMAIN f \cup {c} |-> IF x = c THEN d ELSE f[x]]

ClientMatched(c, d) ==
    /\ parsed.status = "matching"
    /\ IsFirst(wifiClients, c, Unmatched) /\ IsFirst(wifiDevices, d, Fitting(c))
    /\ parsed' = [status |-> "matching", wifi |-> Gives(parsed.wifi, c, d)]
    /\ UNCHANGED files

NoDeviceFits(c) ==
    /\ parsed.status = "matching"
    /\ IsFirst(wifiClients, c, Unmatched) /\ Fitting(c) = {}
    /\ parsed' = Parsing("wifi_error")
    /\ UNCHANGED files

Parsed ==
    /\ parsed.status = "matching" /\ Unmatched = {}
    /\ parsed' = [status |-> "merged", wifi |-> parsed.wifi]
    /\ UNCHANGED files

ConfigEnded ==
    /\ parsed.status \in {"merged", "lan_error", "wifi_error"}
    /\ UNCHANGED configVars

ConfigNext ==
    \/ Listed \/ ParseBegins \/ Parsed \/ ConfigEnded
    \/ \E c \in Clients : NoDeviceFits(c) \/ \E d \in Devs : ClientMatched(c, d)

ConfigSpec == ConfigInit /\ [][ConfigNext]_configVars

-----------------------------------------------------------------------------
(* Properties *)

(* Every client that has a device has one of its own that serves it.       *)
AreServed(f) == IsInjective(f) /\ \A c \in DOMAIN f : Serves(f[c], c)

(* The ways to give every client a device. *)
Assignments == {f \in [Clients -> Devs] : AreServed(f)}

(* Parsing turns an environment away only when no assignment of devices to *)
(* clients exists: taking the first fitting device never uses up one that  *)
(* a later client needs more.                                              *)
RejectedOnlyIfImpossible == parsed.status = "wifi_error" => Assignments = {}

(* Every client gets a device that serves its band, and none gets the      *)
(* device of another: one Wi-Fi card is not two clients.                   *)
ClientsGetOwnDevice == parsed.status = "merged" => parsed.wifi \in Assignments

(* The greedy choice does what a search for an assignment would.           *)
MatchingIsRight == RejectedOnlyIfImpossible /\ ClientsGetOwnDevice
=============================================================================
