----------------------------- MODULE SignerPort -----------------------------
(***************************************************************************)
(* What pkg/chainbind asks of a Signer (ports.go): Kid names the key Sign  *)
(* will use, before Sign is asked, and Sign signs with the key Kid named.  *)
(* One signer serves one process; Seal asks each question once per call.   *)
(***************************************************************************)
CONSTANTS Calls, SigningKeys, Nil

VARIABLES
    key,            \* the key of the running process's signer, or Nil
    asked,          \* asked[c]: what Kid answered call c, or Nil
    signature       \* signature[c]: the kid and key of c's signature, or Nil

vars == <<key, asked, signature>>

Init ==
    /\ key = Nil
    /\ asked = [c \in Calls |-> Nil]
    /\ signature = [c \in Calls |-> Nil]

Start(k) ==
    /\ key = Nil /\ key' = k
    /\ UNCHANGED <<asked, signature>>

(* The process ends: calls that have no signature yet never get one.       *)
Stop ==
    /\ key' = Nil
    /\ asked' = [c \in Calls |-> IF signature[c] = Nil THEN Nil ELSE asked[c]]
    /\ UNCHANGED signature

Kid(c) ==
    /\ key # Nil /\ asked[c] = Nil
    /\ asked' = [asked EXCEPT ![c] = key]
    /\ UNCHANGED <<key, signature>>

Sign(c) ==
    /\ asked[c] # Nil /\ signature[c] = Nil
    /\ signature' = [signature EXCEPT ![c] = [kid |-> asked[c], key |-> asked[c]]]
    /\ UNCHANGED <<key, asked>>

Next ==
    \/ \E k \in SigningKeys : Start(k)
    \/ Stop
    \/ \E c \in Calls : Kid(c) \/ Sign(c)

Spec == Init /\ [][Next]_vars

============================================================================
