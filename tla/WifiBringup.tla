---------------------------- MODULE WifiBringup ----------------------------
(***************************************************************************)
(* Joining the network: main and its callbacks in app and wifi_app, and,   *)
(* word for word the same, in tls_client, whose session comes after it     *)
(* (TlsClient).  The access point and the DHCP server are external; the    *)
(* handlers print what happened and change nothing.                        *)
(***************************************************************************)
VARIABLES
  boot,     \* main's next call
  wifi,     \* the station interface
  address,  \* it has an IPv4 address
  dhcp      \* the DHCP client runs on it

bringup == <<boot, wifi, address, dhcp>>

Boot == {"connect_to_wifi", "start_dhcpv4_client", "over"}
Wifi == {"idle", "asked", "refused", "up", "lost"}

BringupTypeOK ==
  boot \in Boot /\ wifi \in Wifi /\ address \in BOOLEAN /\ dhcp \in BOOLEAN

\* Callbacks are registered before the first call.
BringupInit ==
  boot = "connect_to_wifi" /\ wifi = "idle" /\ address = FALSE /\ dhcp = FALSE

\* The request is accepted or refused; main does not look at the result.
connect_to_wifi ==
  /\ boot = "connect_to_wifi"
  /\ wifi' \in {"asked", "refused"}
  /\ boot' = "start_dhcpv4_client"
  /\ UNCHANGED <<address, dhcp>>

start_dhcpv4_client ==
  /\ boot = "start_dhcpv4_client"
  /\ dhcp' = TRUE
  /\ boot' = "over"
  /\ UNCHANGED <<wifi, address>>

\* CONNECT_RESULT, with whatever status, and DISCONNECT_RESULT, with which the
\* interface may keep its address for a while.
wifi_event_handler ==
  /\ \/ wifi = "asked" /\ wifi' \in {"up", "refused"} /\ UNCHANGED address
     \/ wifi = "up" /\ wifi' = "lost" /\ address' \in {address, FALSE}
  /\ UNCHANGED <<boot, dhcp>>

\* An address is added, or, of which no one is told, expires.
AddressAdded == dhcp /\ wifi = "up" /\ ~address /\ address' = TRUE
handler ==
  /\ AddressAdded \/ (address /\ address' = FALSE)
  /\ UNCHANGED <<boot, wifi, dhcp>>

Main == connect_to_wifi \/ start_dhcpv4_client
Network == wifi_event_handler \/ handler
=============================================================================
