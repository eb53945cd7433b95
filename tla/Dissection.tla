----------------------------- MODULE Dissection -----------------------------
(***************************************************************************)
(* dissectCapture (src/core/dissect.js): one packet after the other, each  *)
(* dissected to the end before the next, all leaving what they learn in    *)
(* one state.  A dissector only touches its own part of it, so a behaviour *)
(* has traffic of one kind, and the rest of the state stays as it was.     *)
(***************************************************************************)
EXTENDS Layers, DnsState, Sessions, HostNames, Handshakes

vars == <<traffic, captured, layerVars, dnsVars, sessionVars, hostVars, handshakeVars>>

Init == /\ CaptureInit
        /\ LayersInit /\ DnsInit /\ SessionsInit /\ HostNamesInit /\ HandshakesInit

Next == \/ LayersNext     /\ UNCHANGED <<dnsVars, sessionVars, hostVars, handshakeVars>>
        \/ DnsNext        /\ UNCHANGED <<layerVars, sessionVars, hostVars, handshakeVars>>
        \/ SessionsNext   /\ UNCHANGED <<layerVars, dnsVars, hostVars, handshakeVars>>
        \/ HostNamesNext  /\ UNCHANGED <<layerVars, dnsVars, sessionVars, handshakeVars>>
        \/ HandshakesNext /\ UNCHANGED <<layerVars, dnsVars, sessionVars, hostVars>>

Spec == Init /\ [][Next]_vars
=============================================================================
