----------------------------- MODULE MCOnlineGC -----------------------------
(***************************************************************************)
(* Instances of OnlineGC in which every manifest is made of the same       *)
(* layers, so that counts exceed one and manifests compete for rows.       *)
(***************************************************************************)
EXTENDS OnlineGC

SharedLayers == [m \in Manifests |-> Blobs]
=============================================================================
