---------------------------- MODULE MCIdentity ----------------------------
(* Three connections from one address for two places.                        *)
EXTENDS Identity

CONSTANTS o1, o2, o3, i1

MCOwn == <<o1, o2, o3>>

(* A default name was banned before; lifting it leaves no ban.             *)
MCBanned == {[names |-> {o3}, personas |-> {}, ips |-> {}]}

MCIpOf == <<i1, i1, i1>>
=============================================================================
