---------------------------- MODULE MCAlgorithms ----------------------------
(***************************************************************************)
(* Small instances of the two modules about algorithms that share nothing: *)
(* KeyWrap, for data keys of up to four blocks, and LogHandler, for trees  *)
(* of loggers.  A behaviour is of one or of the other.                     *)
(***************************************************************************)
EXTENDS KeyWrap, LogHandler

MCSizes == {0, 8, 12, 16, 24, 32}

Shadow == Plain("correlation_id", "caller's")

MCAttrLists ==
    {<<>>, <<Plain("k", "v"), Shadow, GroupOf("h", <<>>)>>, <<GroupOf("", <<Shadow>>)>>}

MCInit == Init /\ LogInit

MCNext ==
    \/ Len(loggers) = 1 /\ Next /\ UNCHANGED logVars
    \/ op = "idle" /\ LogNext /\ UNCHANGED vars

MCSpec == MCInit /\ [][MCNext]_<<vars, logVars>>

============================================================================
