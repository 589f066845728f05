---------------------------- MODULE MCAuthority ----------------------------
(***************************************************************************)
(* A small instance of Authority: documents with bounds at zero, with an   *)
(* empty, a scalar and a list-valued set of allowed values, and with a     *)
(* bound that a set of allowed values overrides.                           *)
(***************************************************************************)
EXTENDS Authority, TLC

CONSTANTS c1, c2, a, b

MCCallers == {c1, c2}
MCRefs    == {a, b}

Number(n) == [kind |-> "number", n |-> n]
Word      == [kind |-> "string", n |-> 0]
List      == [kind |-> "list", n |-> 0]

NoRule      == [equals |-> Nil, max |-> Nil, min |-> Nil]
FromZero    == [equals |-> <<>>, max |-> Nil, min |-> 0]
ZeroToZero  == [equals |-> Nil, max |-> 0, min |-> 0]
OneListed   == [equals |-> <<Word, Number(1)>>, max |-> 0, min |-> Nil]
ListListed  == [equals |-> <<Word, List>>, max |-> Nil, min |-> Nil]

Amount(rule) == [version |-> 1, rules |-> [f \in {"amount"} |-> rule]]

Mixed ==
    [version |-> 1, rules |-> [amount |-> OneListed, currency |-> ListListed]]

MCGrants == {Amount(FromZero), Amount(ZeroToZero), Mixed}

MCDocuments ==
    MCGrants \cup {Amount(NoRule), Amount(OneListed),
                   Amount([FromZero EXCEPT !.equals = Nil])}

MCProjections ==
    {Nil, [f \in {"amount"} |-> Number(1)],
     [amount |-> Number(1), currency |-> Word],
     [amount |-> Number(1), currency |-> List]}

Symmetric == Permutations(MCCallers) \cup Permutations(MCRefs)

============================================================================
