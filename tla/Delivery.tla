------------------------------ MODULE Delivery ------------------------------
(***************************************************************************)
(* What sealing is for, with no cryptography in it: an issuer addresses    *)
(* texts to audiences, and whoever opens a package gets a text addressed   *)
(* to the key it holds, under the audience name and in the package it was  *)
(* addressed to, or nothing.                                               *)
(***************************************************************************)
CONSTANT Nobody         \* the outcome of an open that revealed nothing

VARIABLES sealed,       \* the letters issuers have sealed
          opened        \* the letter the last open revealed, or Nobody

Init == sealed = {} /\ opened = Nobody

(* A letter is a record of package, audience, key and plaintext.  Those of *)
(* one package are sealed together, to different audiences, and no letter  *)
(* is added to a package or withdrawn later.                               *)
SealLetters ==
    LET batch == sealed' \ sealed
    IN  /\ sealed \subseteq sealed' /\ batch # {}
        /\ \A l \in batch, s \in sealed : l.package # s.package
        /\ \A l, m \in batch :
               l.package = m.package /\ (l.audience = m.audience => l = m)
        /\ UNCHANGED opened

OpenLetter ==
    /\ opened' \in sealed \cup {Nobody}
    /\ UNCHANGED sealed

Next == SealLetters \/ OpenLetter

Spec == Init /\ [][Next]_<<sealed, opened>>

============================================================================
