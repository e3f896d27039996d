---------------------------- MODULE SecureChannel ----------------------------
(***************************************************************************)
(* The authenticated channel: its sessions, in which a code is the record  *)
(* it covers, and the hash and code the device computes with.  A behaviour *)
(* exercises one of the two while the other rests.                         *)
(***************************************************************************)
EXTENDS SecureSession, Crypto

VARIABLE part  \* the part this behaviour exercises

ChannelInit == part \in {"session", "crypto"} /\ Init /\ CryptoInit

ChannelNext ==
  /\ \/ part = "session" /\ Next /\ UNCHANGED cryptoVars
     \/ part = "crypto" /\ CryptoNext /\ UNCHANGED vars
  /\ UNCHANGED part

ChannelSpec == ChannelInit /\ [][ChannelNext]_<< part, vars, cryptoVars >>
=============================================================================
