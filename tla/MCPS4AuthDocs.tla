--------------------------- MODULE MCPS4AuthDocs ---------------------------
(***************************************************************************)
(* What the comments of auth.h say of the states, as properties of PS4Auth. *)
(* parts_read is a history variable: the parts of the nonce stored in the   *)
(* buffer since the state last became ReceivingNonce.                       *)
(***************************************************************************)
EXTENDS PS4Auth

VARIABLE parts_read

docVars == <<vars, parts_read>>

DocInit == Init /\ parts_read = {}

DocNext ==
    /\ Next
    /\ parts_read' = IF auth_state.type # "ReceivingNonce" /\ auth_state'.type = "ReceivingNonce"
                     THEN {}
                     ELSE IF usb_pc = "nonce_copy" /\ usb_pc' = "nonce_cas"
                     THEN parts_read \cup {usb.part}
                     ELSE parts_read

DocSpec == DocInit /\ [][DocNext]_docVars

\* auth.h: ReceivingNonce is left "when the full nonce has been read".
FullNonceRead == auth_state.type = "WaitingToSign" => parts_read = Parts
=============================================================================
