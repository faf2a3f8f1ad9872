---------------------------- MODULE MCController ----------------------------
(***************************************************************************)
(* Controller over two branches that tie at numbers 2 and 3 and a third    *)
(* that leaves the first branch after number 3. One branch makes one block *)
(* irreversible, the other two at once. Of two blocks that tie, the one    *)
(* with a child that may be invalid comes later in the order of ids.       *)
(***************************************************************************)
EXTENDS Controller, TLC

MCBlock == {"g", "a2", "a3", "a4", "a5", "b2", "b3", "b4", "c4"}
MCGenesis == "g"
MCPrev == ("a2" :> "g") @@ ("a3" :> "a2") @@ ("a4" :> "a3") @@ ("a5" :> "a4")
          @@ ("b2" :> "g") @@ ("b3" :> "b2") @@ ("b4" :> "b3") @@ ("c4" :> "a3")
MCNum == ("g" :> 1) @@ ("a2" :> 2) @@ ("a3" :> 3) @@ ("a4" :> 4) @@ ("a5" :> 5)
         @@ ("b2" :> 2) @@ ("b3" :> 3) @@ ("b4" :> 4) @@ ("c4" :> 4)
MCAncestry[b \in MCBlock] ==
    IF b = MCGenesis THEN {b} ELSE {b} \cup MCAncestry[MCPrev[b]]
MCLib == ("g" :> 0) @@ ("a2" :> 1) @@ ("a3" :> 1) @@ ("a4" :> 1) @@ ("a5" :> 3)
         @@ ("b2" :> 1) @@ ("b3" :> 1) @@ ("b4" :> 2) @@ ("c4" :> 1)
MCRank == ("g" :> 0) @@ ("a2" :> 1) @@ ("a3" :> 2) @@ ("c4" :> 3) @@ ("a4" :> 4)
          @@ ("a5" :> 5) @@ ("b2" :> 6) @@ ("b3" :> 7) @@ ("b4" :> 8)

\* The same tree where the parent of a block that may be invalid has a smaller
\* id than the block it ties with.
MCRankTie == [MCRank EXCEPT !["a4"] = 3, !["c4"] = 4]
MCBadSets == {{}, {"b2"}, {"b3"}, {"b4"}, {"a5"}}

\* In the first order of ids every tie is settled in favour of the valid branch, in the second not.
ASSUME TiesAssumption == Rank = MCRank <=> TiesSettled
=============================================================================
